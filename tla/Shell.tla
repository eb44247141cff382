------------------------------- MODULE Shell --------------------------------
(***************************************************************************)
(* The life of the program: main.c opens the reader (unionio.c, fileio.c)  *)
(* and the archive, runs commands and releases everything, and each        *)
(* command opens, advances and closes metablock cursors in archive.c,      *)
(* directory.c, cursor.c and print.c.  A cursor is a struct: a->directory's*)
(* lives as long as the program, the others are locals of loadinode or     *)
(* freadfile, of fetch_id and of loadfragment.                             *)
(*                                                                         *)
(* The module leaves out what Directory and ArchiveRead model, which       *)
(* metablocks are read and what is in them: every cursor may open any.     *)
(***************************************************************************)
EXTENDS Integers, FiniteSets

CONSTANTS
  Offset,  \* the offsets of metablocks
  Nil      \* no block

ASSUME NilAssumption == Nil \notin Offset

VARIABLES
  pc,        \* the routine that runs, or the place in main
  then,      \* where loadinode_archive or fetch_id returns to
  orelse,    \* where it returns to when it fails
  cmd,       \* the command that runs
  cursor,    \* the block that each cursor points to
  uses,      \* the usecounter of each block
  resident,  \* the blocks in the cache
  fd,        \* whether the reader has a descriptor
  closes,    \* how often it was closed
  buffers    \* compressed.anyblock: "none", "held" or "freed"

control == <<pc, then, orelse, cmd>>
cache == <<cursor, uses, resident>>
reader == <<fd, closes, buffers>>
vars == <<control, cache, reader>>

Slot == {"dir", "inode", "id", "fragment"}

(* The cursor that each routine reads with. *)
SlotOf == [load |-> "inode", fread |-> "inode", id |-> "id",
           fragment |-> "fragment", list |-> "dir", item |-> "dir",
           find |-> "dir"]
Mine == SlotOf[pc]

Init ==
  /\ pc = "start" /\ then = "prompt" /\ orelse = "error" /\ cmd = "none"
  /\ cursor = [s \in Slot |-> Nil] /\ uses = [o \in Offset |-> 0]
  /\ resident = {}
  /\ fd = FALSE /\ closes = 0 /\ buffers = "none"

Goto(place) == pc' = place /\ UNCHANGED <<then, orelse, cmd>>

(* A call of loadinode_archive or fetch_id. *)
Call(routine, good, bad) ==
  pc' = routine /\ then' = good /\ orelse' = bad /\ UNCHANGED cmd

-----------------------------------------------------------------------------
(* Cursors. *)

(* deinit_metablock_cursor, and the pointer is reset or goes out of scope. *)
Uncount(s) ==
  uses' = [o \in Offset |-> IF o = cursor[s] THEN uses[o] - 1 ELSE uses[o]]
Clear(s) == cursor' = [cursor EXCEPT ![s] = Nil]
Close(s) == Uncount(s) /\ Clear(s) /\ UNCHANGED resident

(* A block that no cursor is counted on may be recycled for the one that is
   about to be opened. *)
Opening == pc \in DOMAIN SlotOf /\ cursor[Mine] = Nil

Evict(o) ==
  /\ Opening /\ o \in resident /\ uses[o] = 0
  /\ resident' = resident \ {o}
  /\ UNCHANGED <<control, cursor, uses, reader>>

(* init_metablock_cursor where it succeeds, as the first thing a routine does
   or within advance_metablock_cursor. *)
Open(o) ==
  /\ Opening
  /\ cursor' = [cursor EXCEPT ![Mine] = o]
  /\ uses' = [uses EXCEPT ![o] = @ + 1]
  /\ resident' = resident \cup {o}
  /\ UNCHANGED <<control, reader>>

(* advance_metablock_cursor, in the middle of an inode, a list of blocks or a
   directory: the old block is left before the next is found. *)
Advance ==
  /\ pc \in {"load", "fread", "item", "find"} /\ cursor[Mine] # Nil
  /\ Close(Mine)
  /\ UNCHANGED <<control, reader>>

-----------------------------------------------------------------------------
(* loadinode_archive and fetch_id: they end well with the cursor open, or
   fail at any time, and close the cursor either way. *)
AbandonOpen(s) == Clear(s) /\ UNCHANGED <<uses, resident>>
  \* fault: an error path that returns without deinit
Abandon(s) == Close(s)

LeafReturns ==
  /\ pc \in {"load", "id"}
  /\ \/ cursor[Mine] # Nil /\ Close(Mine) /\ Goto(then)
     \/ Abandon(Mine) /\ Goto(orelse)
  /\ UNCHANGED reader

(* list_directory, which l and ls call when the inode of the pwd is loaded:
   an unfinished listing is closed, and the directory opened. *)
StartList ==
  /\ pc = "startlist" /\ Close("dir") /\ Goto("list")
  /\ UNCHANGED reader

ListDone ==
  /\ pc = "list"
  /\ \/ cursor["dir"] # Nil /\ Goto(IF cmd = "ls" THEN "item" ELSE "prompt")
     \/ cursor["dir"] = Nil /\ Goto("error")
  /\ UNCHANGED <<cache, reader>>

(* step_list_directory reads a header, or an entry, whose inode, user and
   group print_combined_dirent looks up, whatever fails, or closes the
   directory at its end. *)
Stepped == IF cmd = "ls" THEN "item" ELSE "prompt"

ListItem ==
  /\ pc = "item" /\ cursor["dir"] # Nil
  /\ \/ Goto(Stepped) /\ UNCHANGED cache
     \/ Call("load", "uid", "stepped") /\ UNCHANGED cache
     \/ Close("dir") /\ Goto("prompt")
  /\ UNCHANGED reader

ItemFails == pc = "item" /\ Goto("error") /\ UNCHANGED <<cache, reader>>

NextId ==
  /\ \/ pc = "uid" /\ Call("id", "gid", "stepped")
     \/ pc = "gid" /\ Call("id", "stepped", "stepped")
     \/ pc = "stepped" /\ Goto(Stepped)
  /\ UNCHANGED <<cache, reader>>

(* findentry, for a component of cd's path or for cat's file: an unfinished
   listing is closed, and so is the directory when the search ends. *)
StartFind ==
  /\ pc \in {"component", "cat"} /\ Close("dir") /\ Goto("find")
  /\ UNCHANGED reader

CloseFindKept == Uncount("dir") /\ UNCHANGED <<cursor, resident>>
  \* fault: the pointer is left
CloseFindNot == UNCHANGED <<cursor, uses, resident>>
  \* fault: the directory is left open
CloseFind == Close("dir")

FindReturns ==
  /\ pc = "find" /\ CloseFind
  /\ \/ Goto("error")
     \/ cursor["dir"] # Nil /\ Goto("prompt")
     \/ cursor["dir"] # Nil /\ cmd = "cd" /\ Call("load", "component", "error")
     \/ cursor["dir"] # Nil /\ cmd = "cat" /\ Goto("fread")
  /\ UNCHANGED reader

(* chdir_directory: the path is at its end, too deep, or its next component
   is "." or "..". *)
Component ==
  /\ pc = "component" /\ cmd = "cd"
  /\ Goto("prompt") \/ Goto("error") \/ Call("load", "component", "error")
  /\ UNCHANGED <<cache, reader>>

(* freadfile_archive; loadfragment opens its own cursor beside the one of the
   inode, and closes it before it returns. *)
FreadReturns ==
  /\ pc = "fread"
  /\ \/ Close("inode") /\ Goto("error")
     \/ cursor["inode"] # Nil /\ Close("inode") /\ Goto("prompt")
     \/ cursor["inode"] # Nil /\ Goto("fragment") /\ UNCHANGED cache
  /\ UNCHANGED reader

FragmentReturns ==
  /\ pc = "fragment" /\ Close("fragment")
  /\ \/ cursor["fragment"] # Nil /\ Goto("tail")
     \/ Goto("unwind")
  /\ UNCHANGED reader

TailReturns ==
  /\ pc \in {"tail", "unwind"} /\ Close("inode")
  /\ (pc = "tail" /\ Goto("prompt")) \/ Goto("error")
  /\ UNCHANGED reader

-----------------------------------------------------------------------------
(* main.  An error on the way in, or in a command, goes to its error label. *)

(* init_unionio; the NBD clients may fail with a descriptor open. *)
OpenReader ==
  /\ pc = "start"
  /\ \/ fd' = TRUE /\ (Goto("archive") \/ Goto("error"))
     \/ UNCHANGED fd /\ Goto("error")
  /\ UNCHANGED <<cache, closes, buffers>>

(* init_archive, and the first loadinode_archive. *)
OpenArchive ==
  /\ pc = "archive"
  /\ \/ buffers' = "held" /\ Call("load", "prompt", "error")
     \/ UNCHANGED buffers /\ Goto("error")
  /\ UNCHANGED <<cache, fd, closes>>

Command(name) ==
  /\ pc = "prompt" /\ cmd' = name
  /\ LET Enter(place, good, bad) == pc' = place /\ then' = good /\ orelse' = bad
     IN \/ name = "id" /\ Enter("id", "prompt", "error")
        \/ name = "inode" /\ Enter("id", "gid", "prompt")
        \/ name \in {"l", "ls"} /\ Enter("load", "startlist", "error")
        \/ name = "s" /\ Enter(IF cursor["dir"] = Nil THEN "prompt" ELSE "item",
                               then, orelse)
        \/ name = "cd" /\ Enter("load", "component", "error")
        \/ name = "cat" /\ Enter("load", "cat", "error")
  /\ UNCHANGED <<cache, reader>>

ForgetFdNot == UNCHANGED fd  \* fault: f->fd keeps the closed descriptor
ForgetFd == fd' = FALSE

(* quit: shutdown_unionio.  Where the server cannot be told, the descriptor is
   left to deinit_unionio. *)
Quit ==
  /\ pc = "prompt" /\ Goto("error")
  /\ (closes' = closes + 1 /\ ForgetFd) \/ UNCHANGED <<fd, closes>>
  /\ UNCHANGED <<cache, buffers>>

(* deinit_archive and deinit_unionio. *)
DeinitArchive ==
  /\ pc = "error" /\ Goto("deinit")
  /\ buffers' = IF buffers = "held" THEN "freed" ELSE buffers
  /\ cursor' = [s \in Slot |-> Nil] /\ uses' = [o \in Offset |-> 0]
  /\ resident' = {}
  /\ UNCHANGED <<fd, closes>>

DeinitReader ==
  /\ pc = "deinit" /\ Goto("exited")
  /\ closes' = IF fd THEN closes + 1 ELSE closes
  /\ UNCHANGED <<cache, fd, buffers>>

Main ==
  \/ OpenReader \/ OpenArchive
  \/ \E name \in {"id", "inode", "l", "ls", "s", "cd", "cat"} : Command(name)
  \/ Quit \/ DeinitArchive \/ DeinitReader

Routines ==
  \/ \E o \in Offset : Evict(o) \/ Open(o)
  \/ Advance \/ LeafReturns
  \/ StartList \/ ListDone \/ ListItem \/ ItemFails \/ NextId
  \/ StartFind \/ FindReturns \/ Component
  \/ FreadReturns \/ FragmentReturns \/ TailReturns

Next == Main \/ Routines

Spec == Init /\ [][Next]_vars

-----------------------------------------------------------------------------
(* Properties. *)

Returns == {"prompt", "startlist", "uid", "gid", "stepped", "component", "cat"}
Place == Returns \cup {"start", "archive", "error", "deinit", "exited", "tail",
                       "unwind"}

(* Every variable has a value of its type; no usecounter, an unsigned int,
   drops below zero. *)
TypeOK ==
  /\ pc \in Place \cup DOMAIN SlotOf
  /\ then \in Returns /\ orelse \in {"prompt", "stepped", "error"}
  /\ cmd \in {"none", "id", "inode", "l", "ls", "s", "cd", "cat"}
  /\ cursor \in [Slot -> Offset \cup {Nil}]
  /\ uses \in [Offset -> Nat] /\ resident \subseteq Offset
  /\ fd \in BOOLEAN /\ closes \in Nat /\ buffers \in {"none", "held", "freed"}

(* A block is counted once for every cursor on it, through every command and
   every way a command can fail; what a command that is over has opened is
   not counted any more. *)
UsesCounted ==
  \A o \in Offset : uses[o] = Cardinality({s \in Slot : cursor[s] = o})

(* On the way out, wherever it starts from, the descriptor is closed once if
   there is one, the buffers are freed and so is every block. *)
Released ==
  /\ closes <= 1
  /\ pc = "exited" =>
       /\ closes = 0 => ~fd /\ buffers = "none"
       /\ buffers # "held" /\ resident = {}

(* All of this uses the cache as BlockCache describes it, with two cursors at
   a time: the directory's or the fragment's, and the inode's or the id's.
   A block that the cache may recycle by its counter is one that no cursor
   sees. *)
First(s, t) == IF cursor[s] # Nil THEN cursor[s] ELSE cursor[t]
View == [i \in {1, 2} |->
           IF i = 1 THEN First("dir", "fragment") ELSE First("inode", "id")]

Two == INSTANCE BlockCache WITH Cursor <- {1, 2}, view <- View
UsesTwoCursors == Two!Spec
=============================================================================
