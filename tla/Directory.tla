----------------------------- MODULE Directory ------------------------------
(***************************************************************************)
(* The pwd and the directory listings of directory.c, and the commands of  *)
(* main.c that use them: cd, cd X, cat X, l, s and ls.  They share one     *)
(* inode (a->inode) and one directory reader (a->directory), which keep    *)
(* their contents from one command to the next.                            *)
(*                                                                         *)
(* An inode is named by its address, the pointer_metablock of the code     *)
(* (blocksoffset, offsetinblock).  A directory on disk is a sequence of    *)
(* headers, each followed by count entries; an entry's inode is at the     *)
(* start of its header and the offset of the entry.                        *)
(***************************************************************************)
EXTENDS Naturals, Sequences, FiniteSets, SequencesExt

CONSTANTS
  Inode,     \* the addresses at which the archive has inodes
  Root,      \* the address in superblock.root_inode_ref
  Listing,   \* for the address of each directory, its headers and entries
  Path,      \* the components of the paths given to cd X
  File,      \* the names given to cat X
  MaxDepth   \* MAXDEPTH_DIRLIST

IsDir(p) == p \in DOMAIN Listing
IsHeader(item) == item.kind = "header"

(* The header that entry i of directory d comes under. *)
HeaderOf(d, i) ==
  CHOOSE h \in 1..i : /\ IsHeader(Listing[d][h])
                      /\ \A j \in (h + 1)..i : ~IsHeader(Listing[d][j])

(* The address of the inode of entry i of directory d. *)
Target(d, i) == <<Listing[d][HeaderOf(d, i)].start, Listing[d][i].offset>>

EntriesOf(d) == {i \in DOMAIN Listing[d] : ~IsHeader(Listing[d][i])}

HeaderItem == [kind : {"header"}, count : Nat, start : Nat]
EntryItem == [kind : {"entry"}, name : STRING, offset : Nat, isdir : BOOLEAN]

(* The archive is well formed: a directory begins with a header, and every
   entry has an inode, of the type that the entry says, and comes under a
   header that counts it. *)
ASSUME ArchiveAssumption ==
  /\ Inode \subseteq Nat \X Nat
  /\ Root \in Inode /\ IsDir(Root) /\ DOMAIN Listing \subseteq Inode
  /\ \A d \in DOMAIN Listing :
       /\ Listing[d] \in Seq(HeaderItem \cup EntryItem)
       /\ Listing[d] # <<>> => IsHeader(Listing[d][1])
       /\ \A i \in EntriesOf(d) :
            /\ Target(d, i) \in Inode
            /\ Listing[d][i].isdir = IsDir(Target(d, i))
            /\ i <= HeaderOf(d, i) + Listing[d][HeaderOf(d, i)].count
       /\ \A h \in DOMAIN Listing[d] :
            IsHeader(Listing[d][h]) =>
              \A j \in 1..Listing[d][h].count : h + j \in EntriesOf(d)

Empty == ""  \* the name without a character

ASSUME NamesAssumption ==
  /\ Path \subseteq Seq(STRING) /\ File \cup {Empty} \subseteq STRING
  /\ MaxDepth \in Nat

VARIABLES
  inode,           \* a->inode.pointer: the last inode loaded
  depth, dirlist,  \* a->pwd.depth, .dirlist
  pwdname,         \* a->pwd.pwdname, as the sequence of its components
  opened,          \* whether a->directory.cursor is on a block
  listed, pos,     \* the directory it reads, how many of its items are read
  entry_count,     \* a->directory.entry_count, entries left under the header
  header, entry,   \* a->directory.header and .entry, the last ones read
  filename,        \* a->filenamebuffer
  pc,              \* the loop that runs, "idle" between two commands
  path,            \* what chdir_directory has left to do, or cat's argument
  shown,           \* history: the inodes s or ls went to since the last l or ls
  goal             \* history: the pwd that the last cd asked for

pwdVars == <<depth, dirlist, pwdname>>
readVars == <<pos, entry_count, header, entry, filename>>
vars == <<inode, pwdVars, opened, listed, readVars, pc, path, shown, goal>>

NoHeader == [kind |-> "header", count |-> 0, start |-> 0]
NoEntry == [kind |-> "entry", name |-> Empty, offset |-> 0, isdir |-> FALSE]

(* main has loaded the root inode and set the pwd to it. *)
Init ==
  /\ inode = Root
  /\ depth = 0 /\ dirlist = [i \in 0..MaxDepth |-> Root] /\ pwdname = <<>>
  /\ opened = FALSE /\ listed = Root /\ pos = 0 /\ entry_count = 0
  /\ header = NoHeader /\ entry = NoEntry /\ filename = Empty
  /\ pc = "idle" /\ path = <<>> /\ shown = <<>> /\ goal = <<>>

(* loadinode_archive where there is an inode. *)
Load(p) == p \in Inode /\ inode' = p

(* A read of the archive fails, or a name is too long for pwdname: main goes
   to its error label and the program ends. *)
Exit ==
  /\ pc # "exited" /\ pc' = "exited"
  /\ UNCHANGED <<inode, pwdVars, opened, listed, readVars, path, shown, goal>>

-----------------------------------------------------------------------------
(* The reader: list_directory and findentry open it with setdirectory and
   init_metablock_cursor, and step_list_directory and step_directory read
   one item with it. *)
OpenListing(p) ==
  /\ IsDir(p)
  /\ opened' = TRUE /\ listed' = p /\ pos' = 0 /\ entry_count' = 0

AtEnd == entry_count = 0 /\ pos = Len(Listing[listed])

ReadHeader ==
  /\ entry_count = 0 /\ ~AtEnd
  /\ pos' = pos + 1
  /\ header' = Listing[listed][pos + 1]
  /\ entry_count' = header'.count
  /\ UNCHANGED <<entry, filename>>

ReadEntry ==
  /\ entry_count > 0
  /\ pos' = pos + 1
  /\ entry' = Listing[listed][pos + 1]
  /\ filename' = entry'.name
  /\ entry_count' = entry_count - 1
  /\ UNCHANGED header

(* The pointer that print_combined_dirent, enterdirectory and
   catfile_directory make of the last header and the last entry read. *)
EntryPointerUnbased == <<0, entry.offset>>  \* fault: header.start is left out
EntryPointer == <<header.start, entry.offset>>

CloseReaderNot == UNCHANGED opened  \* fault: the reader is left open
CloseReader == opened' = FALSE

-----------------------------------------------------------------------------
(* l: load the inode of the pwd and open its listing; ls goes on to step. *)
List(next) ==
  /\ pc = "idle" /\ pc' = next
  /\ Load(dirlist[depth])
  /\ OpenListing(inode')
  /\ shown' = <<>>
  /\ UNCHANGED <<pwdVars, header, entry, filename, path, goal>>

(* step_list_directory.  A failed read of the entry's inode does not stop it:
   nobody looks at what print_combined_dirent returns, and a->inode then is
   the inode before or a part of the new one. *)
ListStep ==
  /\ \/ AtEnd /\ CloseReader /\ UNCHANGED <<inode, readVars, shown>>
     \/ ReadHeader /\ UNCHANGED <<inode, opened, shown>>
     \/ /\ ReadEntry
        /\ inode' \in {inode, EntryPointer'}
        /\ shown' = Append(shown, EntryPointer')
        /\ UNCHANGED opened
  /\ UNCHANGED <<pwdVars, listed, path, goal>>

(* s: one step; without an open listing it only prints a line. *)
Step ==
  /\ pc = "idle" /\ opened
  /\ ListStep
  /\ UNCHANGED pc

(* ls: steps until isdone. *)
ListLoop ==
  /\ pc = "list"
  /\ ListStep
  /\ pc' = IF opened' THEN "list" ELSE "idle"

-----------------------------------------------------------------------------
(* findentry on the inode p: it closes the reader when it returns. *)
StartFind(p) ==
  /\ OpenListing(p)
  /\ filename' = Empty
  /\ UNCHANGED <<header, entry>>

(* One turn of its loop.  After a header, filename is what it was before. *)
ReadItem == ReadHeader \/ ReadEntry

FindStep(match) == ReadItem /\ filename' # match /\ UNCHANGED opened
Finds(match) == ReadItem /\ filename' = match /\ CloseReader
FindsNothing == AtEnd /\ CloseReader /\ UNCHANGED readVars

-----------------------------------------------------------------------------
(* cd: setrootdirectory_archive. *)
SetRoot == depth' = 0 /\ pwdname' = <<>> /\ dirlist' = [dirlist EXCEPT ![0] = Root]

CdRoot ==
  /\ pc = "idle"
  /\ SetRoot /\ goal' = <<>>
  /\ UNCHANGED <<inode, opened, listed, readVars, shown, pc, path>>

(* The pwd as names and addresses, and where a path leads from there. *)
Stack == [i \in 1..depth |-> <<pwdname[i], dirlist[i]>>]
Top(stack) == IF stack = <<>> THEN Root ELSE Last(stack)[2]
Subdirectory(d, name) ==
  {Target(d, i) : i \in {j \in EntriesOf(d) : /\ Listing[d][j].name = name
                                              /\ Listing[d][j].isdir}}
Follow(walk, name) ==
  LET sub == Subdirectory(Top(walk.stack), name)
  IN CASE walk.stopped \/ name = "." -> walk
       [] ~walk.stopped /\ name = ".." ->
            [walk EXCEPT !.stack = IF @ = <<>> THEN @ ELSE Front(@)]
       [] ~walk.stopped /\ name \notin {".", ".."} /\ sub = {} ->
            [walk EXCEPT !.stopped = TRUE]
       [] OTHER ->
            [walk EXCEPT !.stack = Append(@, <<name, CHOOSE p \in sub : TRUE>>)]
Walk(start, p) ==
  LET walk[i \in 0..Len(p)] == IF i = 0 THEN start ELSE Follow(walk[i - 1], p[i])
  IN walk[Len(p)]
Resolve(stack, p) == Walk([stack |-> stack, stopped |-> FALSE], p).stack

(* cd X: chdir_directory sets the pwd to the root if the path is absolute, and
   loads the inode of the pwd.  A relative path may be empty, but does not
   begin with an empty component. *)
Cd(p, isabsolute) ==
  /\ pc = "idle" /\ pc' = "chdir" /\ path' = p
  /\ ~isabsolute /\ p # <<>> => Head(p) # Empty
  /\ IF isabsolute THEN SetRoot ELSE UNCHANGED pwdVars
  /\ Load(dirlist'[depth'])
  /\ goal' = Resolve(IF isabsolute THEN <<>> ELSE Stack, p)
  /\ UNCHANGED <<opened, listed, readVars, shown>>

(* The path is done. *)
CdDone ==
  /\ pc = "chdir" /\ path = <<>> /\ pc' = "idle"
  /\ UNCHANGED <<inode, pwdVars, opened, listed, readVars, path, shown, goal>>

(* enterdirectory: "." *)
CdSameAgain ==  \* fault: dirname does not move past the "."
  /\ pc = "chdir" /\ path # <<>> /\ Head(path) = "." /\ UNCHANGED path
  /\ Load(dirlist[depth])
  /\ UNCHANGED <<pwdVars, opened, listed, readVars, pc, shown, goal>>
CdSame ==
  /\ pc = "chdir" /\ path # <<>> /\ Head(path) = "." /\ path' = Tail(path)
  /\ Load(dirlist[depth])
  /\ UNCHANGED <<pwdVars, opened, listed, readVars, pc, shown, goal>>

(* back_directory *)
BackUnchecked ==  \* fault: the root is not special
  /\ depth' = depth - 1 /\ pwdname' = <<>>
  /\ UNCHANGED <<dirlist, inode>>
BackUnloaded ==  \* fault: the inode of the parent is not loaded
  IF depth = 0
    THEN UNCHANGED <<inode, pwdVars>>
    ELSE /\ depth' = depth - 1 /\ pwdname' = Front(pwdname)
         /\ UNCHANGED <<dirlist, inode>>
Back ==
  IF depth = 0
    THEN UNCHANGED <<inode, pwdVars>>
    ELSE /\ depth' = depth - 1 /\ pwdname' = Front(pwdname) /\ UNCHANGED dirlist
         /\ Load(dirlist[depth'])

(* enterdirectory: ".." *)
CdBack ==
  /\ pc = "chdir" /\ path # <<>> /\ Head(path) = ".." /\ path' = Tail(path)
  /\ Back
  /\ UNCHANGED <<opened, listed, readVars, pc, shown, goal>>

(* enterdirectory: any other name is looked for in the pwd; at the greatest
   depth, or if the pwd is no directory, the program ends instead. *)
IsName == path # <<>> /\ Head(path) \notin {".", ".."}
CdFind ==
  /\ pc = "chdir" /\ IsName /\ depth < MaxDepth
  /\ StartFind(inode)
  /\ pc' = "cdfind"
  /\ UNCHANGED <<inode, pwdVars, path, shown, goal>>

CdFails ==
  /\ pc = "chdir" /\ IsName /\ (depth = MaxDepth \/ ~IsDir(inode)) /\ pc' = "exited"
  /\ UNCHANGED <<inode, pwdVars, opened, listed, readVars, path, shown, goal>>

CdFindStep ==
  /\ pc = "cdfind" /\ FindStep(Head(path))
  /\ UNCHANGED <<inode, pwdVars, listed, pc, path, shown, goal>>

(* The name is there and is a directory: it becomes the pwd.  Where the
   pointer is not one to an inode, loading it ends the program. *)
CdEnter ==
  /\ pc = "cdfind" /\ Finds(Head(path)) /\ entry'.isdir
  /\ pwdname' = Append(pwdname, Head(path))
  /\ depth' = depth + 1
  /\ dirlist' = [dirlist EXCEPT ![depth + 1] = EntryPointer']
  /\ IF EntryPointer' \in Inode
       THEN inode' = EntryPointer' /\ path' = Tail(path) /\ pc' = "chdir"
       ELSE pc' = "exited" /\ UNCHANGED <<inode, path>>
  /\ UNCHANGED <<listed, shown, goal>>

(* It is not a directory, or there is no such name: the rest of the path is
   dropped, and the pwd stays where the path got to. *)
CdStopsNot ==  \* fault: the search goes on with the next component
  /\ pc = "cdfind"
  /\ (Finds(Head(path)) /\ ~entry'.isdir) \/ FindsNothing
  /\ path' = Tail(path) /\ pc' = "chdir"
  /\ UNCHANGED <<inode, pwdVars, listed, shown, goal>>
CdStops ==
  /\ pc = "cdfind"
  /\ (Finds(Head(path)) /\ ~entry'.isdir) \/ FindsNothing
  /\ path' = <<>> /\ pc' = "idle"
  /\ UNCHANGED <<inode, pwdVars, listed, shown, goal>>

-----------------------------------------------------------------------------
(* cat X: load the pwd and look for the name there. *)
Cat(name) ==
  /\ pc = "idle" /\ pc' = "catfind" /\ path' = <<name>>
  /\ Load(dirlist[depth])
  /\ StartFind(inode')
  /\ UNCHANGED <<pwdVars, shown, goal>>

CatFindStep ==
  /\ pc = "catfind" /\ FindStep(Head(path))
  /\ UNCHANGED <<inode, pwdVars, listed, pc, path, shown, goal>>

(* freadfile_archive, which ends the program unless it is given a file. *)
CatFile ==
  /\ pc = "catfind" /\ Finds(Head(path))
  /\ Load(EntryPointer')
  /\ path' = <<>> /\ pc' = IF IsDir(EntryPointer') THEN "exited" ELSE "idle"
  /\ UNCHANGED <<pwdVars, listed, shown, goal>>

CatMissing ==
  /\ pc = "catfind" /\ FindsNothing
  /\ path' = <<>> /\ pc' = "idle"
  /\ UNCHANGED <<inode, pwdVars, listed, shown, goal>>

-----------------------------------------------------------------------------
(* What the user asks for, and what a command does once it has begun. *)
Command ==
  \/ List("idle") \/ List("list") \/ Step
  \/ CdRoot \/ \E p \in Path, isabsolute \in BOOLEAN : Cd(p, isabsolute)
  \/ \E name \in File : Cat(name)

Loop ==
  \/ ListLoop
  \/ CdDone \/ CdSame \/ CdBack \/ CdFind \/ CdFails \/ CdFindStep
  \/ CdEnter \/ CdStops
  \/ CatFindStep \/ CatFile \/ CatMissing

Next == Command \/ Loop \/ Exit

Spec == Init /\ [][Next]_vars

(* A command that has begun goes on: the program has one thread. *)
FairSpec == Spec /\ WF_vars(Loop)

-----------------------------------------------------------------------------
(* Properties. *)

(* Every variable has a value of its C type, and depth indexes dirlist. *)
TypeOK ==
  /\ inode \in Inode /\ depth \in 0..MaxDepth
  /\ dirlist \in [0..MaxDepth -> Nat \X Nat]
  /\ pwdname \in Seq(STRING) /\ filename \in STRING
  /\ opened \in BOOLEAN /\ IsDir(listed)
  /\ pos \in 0..Len(Listing[listed]) /\ entry_count \in Nat
  /\ header \in HeaderItem /\ entry \in EntryItem
  /\ pc \in {"idle", "list", "chdir", "cdfind", "catfind", "exited"}
  /\ path \in Seq(STRING)

(* dirlist and pwdname name the same directory, the one the prompt shows:
   each is a subdirectory of the one before it, under that name (an empty
   component names the directory itself).  The pointers come from header
   and entry, which ls, s, cat and failed cd commands leave as they like. *)
PwdNamesDirectory ==
  pc # "exited" =>
    /\ Len(pwdname) = depth
    /\ dirlist[0] = Root
    /\ \A i \in 1..depth :
         LET parent == dirlist[i - 1]
         IN /\ IsDir(dirlist[i])
            /\ \/ IsDir(parent) /\ dirlist[i] \in Subdirectory(parent, pwdname[i])
               \/ pwdname[i] = Empty /\ dirlist[i] = parent

(* cd X ends where the path leads from the pwd it started in, or from the
   root: at every component, what is left of the path leads from the pwd
   reached so far to where the whole path led at the start. *)
CdResolves ==
  /\ pc = "idle" => Stack = goal
  /\ pc \in {"chdir", "cdfind"} => Resolve(Stack, path) = goal

(* "the pwd needs to be just-loaded in a->inode": between the components of
   a path and while an entry is looked for, whatever was listed before. *)
InodeIsPwd == pc \in {"chdir", "cdfind", "catfind"} => inode = dirlist[depth]

(* What l and s, or ls, went through is what the directory begins with, and
   its other entries are still to come: no cd, cat or failed search in
   between makes s skip, repeat or mix entries, it can only close the
   listing. *)
EntriesUpTo(d, i) == EntriesOf(d) \cap 1..i
ListingInStep ==
  opened /\ pc \in {"idle", "list"} =>
    /\ Len(shown) = Cardinality(EntriesUpTo(listed, pos))
    /\ \A i \in EntriesUpTo(listed, pos) :
         shown[Cardinality(EntriesUpTo(listed, i))] = Target(listed, i)

(* Every command ends: a listing, a search and a path are finite. *)
CommandsReturn == pc # "idle" ~> pc \in {"idle", "exited"}
=============================================================================
