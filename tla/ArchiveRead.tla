---------------------------- MODULE ArchiveRead -----------------------------
(***************************************************************************)
(* cat X from the file's inode on (freadfile_archive and what it calls in  *)
(* archive.c and cursor.c), and the lookup of a user or group (fetch_id).  *)
(*                                                                         *)
(* A file is blocks and perhaps a tail.  The sizes of its blocks on disk   *)
(* are words that follow the inode in the inode table, which is read       *)
(* through a metablock cursor; the tail is the last word's block or a part *)
(* of a fragment block.  Two buffers serve all of this and keep what they  *)
(* held: compressed.anyblock, which metablocks and fragments are unpacked  *)
(* from and which a file's block is unpacked or read to, and               *)
(* fragment.block.                                                         *)
(***************************************************************************)
EXTENDS Integers, Sequences, SequencesExt

CONSTANTS
  BlockSize,              \* superblock.block_size
  Wrap,                   \* the number of values of an unsigned int
  MetaSize,               \* bytes of a metablock
  WordSize,               \* bytes of a word of the list of blocks
  FragmentsPerMetablock,  \* headers of fragments in a metablock
  IdsPerMetablock,        \* ids in a metablock
  IdsDivisor,             \* the number fetch_id takes for it
  File,                   \* the files, each with its layout
  Fragment,               \* fragment blocks: their size, whether stored
  IdCount,                \* superblock.id_count
  Zero, Garbage, None     \* the byte 0, a byte of something else, no value

(* A file has a name, a size, extended (its kind of inode), list (where its
   words start in the inode table), start (where its blocks start on disk),
   blocks (each with its size on disk sod, stored or packed, and the place at
   where it starts), fragment (or None) and offset (its tail's in there). *)
BlockLen(f, k) ==
  IF k * BlockSize <= f.size THEN BlockSize ELSE f.size % BlockSize

TailLen(f) == f.size - Len(f.blocks) * BlockSize

(* The archive is well formed, as mksquashfs writes it. *)
WellFormed(f) ==
  /\ f.size \in Nat /\ (f.extended \/ f.size < Wrap)
  /\ f.list \in Nat \ {0} /\ f.start \in Nat
  /\ f.blocks \in Seq([sod : Nat, stored : BOOLEAN, at : Nat])
  /\ IF f.fragment = None
       THEN (Len(f.blocks) - 1) * BlockSize < f.size /\ TailLen(f) <= 0
       ELSE /\ TailLen(f) \in 1..(BlockSize - 1)
            /\ f.fragment \in DOMAIN Fragment /\ f.offset \in Nat
            /\ f.offset + TailLen(f) <= Fragment[f.fragment].size
  /\ \A k \in DOMAIN f.blocks :
       /\ f.blocks[k].at = IF k = 1 THEN f.start
                           ELSE f.blocks[k - 1].at + f.blocks[k - 1].sod
       /\ \/ f.blocks[k].sod = 0
          \/ f.blocks[k].stored /\ f.blocks[k].sod = BlockLen(f, k)
          \/ ~f.blocks[k].stored /\ f.blocks[k].sod < BlockLen(f, k)

ASSUME ArchiveAssumption ==
  /\ BlockSize \in Nat \ {0}
  /\ Wrap \in Nat /\ Wrap > BlockSize /\ Wrap % BlockSize = 0
  /\ WordSize \in Nat \ {0} /\ MetaSize \in Nat \ {0}
  /\ FragmentsPerMetablock \in Nat \ {0}
  /\ IdsPerMetablock \in Nat /\ IdsDivisor \in 1..IdsPerMetablock
  /\ IdCount \in Nat
  /\ None \notin File /\ \A f \in File : WellFormed(f)
  /\ DOMAIN Fragment \subseteq Nat
  /\ \A i \in DOMAIN Fragment : Fragment[i].size \in 1..BlockSize

VARIABLES
  pc,         \* where freadfile_archive is, "idle" at the prompt
  file,       \* the file that cat was last given
  bytesleft,  \* bytes of it that are still to be printed
  datasize,   \* of the block that step_readfile reads
  fulloffset, \* where on disk the next block starts
  cursor,     \* of the inode table: the metablock, the place in it, .bytesleft
  word,       \* the bytes of the word read so far, by their places
  anyblock,   \* a->compressed.anyblock
  fragment,   \* the fragment cursor's place in the block, its .bytesleft
  fragblock,  \* a->fragment.block
  out,        \* what cat has printed
  asked,      \* the index last given to fetch_id
  answer      \* the id it gave for it, None if it failed

catVars == <<file, bytesleft, datasize, fulloffset, cursor, word, fragment, out>>
idVars == <<asked, answer>>
vars == <<pc, catVars, anyblock, fragblock, idVars>>

Least(m, n) == IF m < n THEN m ELSE n

-----------------------------------------------------------------------------
(* What is on disk. *)

(* The bytes of block k of file f; those of a sparse block are not there. *)
Bytes(f, k) ==
  [i \in 1..BlockLen(f, k) |->
     IF f.blocks[k].sod = 0 THEN Zero ELSE <<f.name, (k - 1) * BlockSize + i>>]

FragmentBytes(i) == [j \in 1..Fragment[i].size |-> <<"fragment", i, j>>]

Blocks == UNION {{<<f, k>> : k \in DOMAIN f.blocks} : f \in File}

(* A place of the archive holds one thing: a place of the inode table one
   word, and a place on disk the same bytes for every block of that size. *)
ASSUME DiskAssumption ==
  \A fk, gk \in Blocks :
    LET b == fk[1].blocks[fk[2]]
        c == gk[1].blocks[gk[2]]
    IN /\ fk[1].list + (fk[2] - 1) * WordSize = gk[1].list + (gk[2] - 1) * WordSize
            => b.sod = c.sod /\ b.stored = c.stored
       /\ b.at = c.at /\ b.sod = c.sod /\ b.sod # 0
            => Bytes(fk[1], fk[2]) = Bytes(gk[1], gk[2])

(* What n bytes at a place on disk hold, unpacked if they are packed. *)
OnDisk(place, n) ==
  LET here == {fk \in Blocks : /\ fk[1].blocks[fk[2]].at = place
                               /\ fk[1].blocks[fk[2]].sod = n}
  IN IF here = {} THEN [i \in 1..n |-> Garbage]
     ELSE LET fk == CHOOSE x \in here : TRUE IN Bytes(fk[1], fk[2])

(* The blocks whose word is made of the bytes at these places of the inode
   table. *)
Listed(places) ==
  {fk \in Blocks :
     places = [j \in 1..WordSize |-> fk[1].list + (fk[2] - 1) * WordSize + j - 1]}

(* The contents of a file. *)
Contents(f) ==
  [i \in 1..f.size |->
     IF i <= Len(f.blocks) * BlockSize
       THEN Bytes(f, ((i - 1) \div BlockSize) + 1)[((i - 1) % BlockSize) + 1]
       ELSE FragmentBytes(f.fragment)[f.offset + i - Len(f.blocks) * BlockSize]]

(* The first n bytes of anyblock are overwritten. *)
Overwrite(bytes) ==
  anyblock' = [i \in 1..BlockSize |->
                 IF i <= Len(bytes) THEN bytes[i] ELSE anyblock[i]]

(* A metablock is unpacked from anyblock, unless it was in the cache or is
   stored. *)
LoadMetablock ==
  \/ UNCHANGED anyblock
  \/ anyblock' = [i \in 1..BlockSize |-> Garbage]

Init ==
  /\ pc = "idle" /\ file = None /\ bytesleft = 0 /\ datasize = 0
  /\ fulloffset = 0 /\ cursor = [meta |-> 0, at |-> 0, left |-> 0]
  /\ word = <<>> /\ anyblock = [i \in 1..BlockSize |-> Garbage]
  /\ fragment = [at |-> 0, left |-> 0] /\ fragblock = <<>>
  /\ out = <<>> /\ asked = 0 /\ answer = None

-----------------------------------------------------------------------------
(* freadfile_archive, up to the list of blocks: the inode has been read and
   the cursor is after it, at the end of a metablock if the inode ends there.
   The size is assigned to an unsigned int. *)
AfterInode(f) ==
  LET meta == (f.list - 1) \div MetaSize
      at == f.list - meta * MetaSize
  IN [meta |-> meta, at |-> at, left |-> MetaSize - at]

(* The tests of freadbasicfileinode and freadextendedfileinode: another whole
   block, a tail, or the end. *)
Turn(f, left) ==
  /\ bytesleft' = left /\ word' = <<>>
  /\ \/ left = 0 /\ pc' = "idle" /\ UNCHANGED datasize
     \/ /\ left > BlockSize \/ (left > 0 /\ f.fragment = None)
        /\ pc' = "word" /\ datasize' = Least(left, BlockSize)
     \/ /\ left \in 1..BlockSize /\ f.fragment # None
        /\ pc' = "fragment" /\ UNCHANGED datasize

StartCat(f) ==
  /\ pc = "idle"
  /\ file' = f /\ cursor' = AfterInode(f) /\ fulloffset' = f.start
  /\ out' = <<>> /\ Turn(f, f.size % Wrap)
  /\ LoadMetablock
  /\ UNCHANGED <<fragment, fragblock, idVars>>

(* readbytes_metablock_cursor, for the word: what the metablock has of it is
   copied, and the cursor goes on to the next metablock when it has to. *)
CopyWord ==
  LET k == Least(cursor.left, WordSize - Len(word))
      place == cursor.meta * MetaSize + cursor.at
  IN /\ pc = "word" /\ cursor.left > 0
     /\ word' = word \o [j \in 1..k |-> place + j - 1]
     /\ cursor' = [cursor EXCEPT !.at = @ + k, !.left = @ - k]
     /\ pc' = IF Len(word') = WordSize THEN "block" ELSE "word"
     /\ UNCHANGED <<file, bytesleft, datasize, fulloffset, anyblock, fragment,
                    fragblock, out, idVars>>

NextMetaUnread == UNCHANGED cursor  \* fault: the new bytesleft is not set
NextMeta == cursor' = [meta |-> cursor.meta + 1, at |-> 0, left |-> MetaSize]

AdvanceMeta ==
  /\ pc = "word" /\ cursor.left = 0
  /\ NextMeta /\ LoadMetablock
  /\ UNCHANGED <<pc, file, bytesleft, datasize, fulloffset, word, fragment,
                 fragblock, out, idVars>>

(* step_readfile, with the word: a sparse block, one stored as it is, or one
   to be unpacked through anyblock2. *)
SparseBlockKept == UNCHANGED anyblock  \* fault: the zeros are not written
SparseBlock == Overwrite([i \in 1..datasize |-> Zero])

Sparse(b) == b.sod = 0
Stored(b) == b.stored /\ b.sod = datasize
Packed(b) ==
  ~b.stored /\ b.sod \in 1..(datasize - 1) /\ Len(OnDisk(fulloffset, b.sod)) = datasize

BeyondUnpacked(b) == fulloffset + datasize  \* fault: the size once unpacked
Beyond(b) == fulloffset + b.sod

ReadBlock ==
  /\ pc = "block"
  /\ \E fk \in Listed(word) :
       LET b == fk[1].blocks[fk[2]] IN
         /\ \/ Sparse(b) /\ SparseBlock
            \/ Stored(b) /\ Overwrite(OnDisk(fulloffset, datasize))
            \/ Packed(b) /\ Overwrite(OnDisk(fulloffset, b.sod))
         /\ fulloffset' = Beyond(b)
  /\ pc' = "write"
  /\ UNCHANGED <<file, bytesleft, datasize, cursor, word, fragment, fragblock,
                 out, idVars>>

WriteBlock ==
  /\ pc = "write"
  /\ out' = out \o SubSeq(anyblock, 1, datasize)
  /\ Turn(file, bytesleft - datasize)
  /\ UNCHANGED <<file, fulloffset, cursor, anyblock, fragment, fragblock, idVars>>

-----------------------------------------------------------------------------
(* init_fragment_cursor and loadfragment.  The headers of fragments are in
   metablocks of their own, which a table of places leads to. *)
HeaderRead(index) ==
  (index \div FragmentsPerMetablock) * FragmentsPerMetablock
    + (index % FragmentsPerMetablock)

HasFragment(i) == i \in DOMAIN Fragment /\ file.offset < Fragment[i].size

LoadFragment ==
  LET i == HeaderRead(file.fragment) IN
    /\ pc = "fragment" /\ HasFragment(i)
    /\ fragblock' = FragmentBytes(i)
    /\ IF Fragment[i].stored THEN LoadMetablock
       ELSE anyblock' = [j \in 1..BlockSize |-> Garbage]
    /\ fragment' = [at |-> file.offset, left |-> Fragment[i].size - file.offset]
    /\ pc' = "copy"
    /\ UNCHANGED <<file, bytesleft, datasize, fulloffset, cursor, word, out, idVars>>

(* A turn of the loop that prints the tail.  It moves neither the fragment
   cursor nor its bytesleft, and a tail that the fragment does not hold to
   its end would be printed as repetitions of what it holds. *)
CopyCountUncut == fragment.left  \* fault: all that the fragment has
CopyCount == Least(fragment.left, bytesleft)

CopyFragment ==
  /\ pc = "copy" /\ fragment.left > 0
  /\ out' = out \o SubSeq(fragblock, fragment.at + 1, fragment.at + CopyCount)
  /\ bytesleft' = bytesleft - CopyCount
  /\ pc' = IF bytesleft' = 0 THEN "idle" ELSE "copy"
  /\ UNCHANGED <<file, datasize, fulloffset, cursor, word, anyblock, fragment,
                 fragblock, idVars>>

-----------------------------------------------------------------------------
(* fetch_id: the place of a metablock from a table, the metablock, and the id
   in it.  Beyond the table is whatever follows it in the file: if that leads
   to something like a metablock, an id is found there too. *)
IdMetablocks == ((IdCount - 1) \div IdsPerMetablock) + 1
SlotOfSwapped(i) == i \div IdsDivisor  \* fault: the metablock for the place in it
SlotOf(i) == i % IdsDivisor

FetchId(i) ==
  LET n == i \div IdsDivisor IN
    /\ pc = "idle" /\ i < IdCount
    /\ asked' = i /\ LoadMetablock
    /\ IF n < IdMetablocks /\ n * IdsPerMetablock + SlotOf(i) < IdCount
         THEN answer' = n * IdsPerMetablock + SlotOf(i)
         ELSE answer' = Garbage
    /\ UNCHANGED <<pc, catVars, fragblock>>

(* An index that the superblock does not count, or a read that fails; the
   printing of an inode goes on after it. *)
FetchIdFails(i) ==
  /\ pc = "idle" /\ asked' = i /\ answer' = None
  /\ UNCHANGED <<pc, catVars, anyblock, fragblock>>

-----------------------------------------------------------------------------
(* A read of the archive or a write to stdout fails, at the prompt also that
   of another command; main goes to its error label. *)
Fail ==
  /\ \/ pc = "word" /\ cursor.left = 0
     \/ pc = "block" /\ \E fk \in Listed(word) : ~Sparse(fk[1].blocks[fk[2]])
     \/ pc \in {"idle", "write", "fragment", "copy"}
  /\ pc' = "exited"
  /\ UNCHANGED <<catVars, anyblock, fragblock, idVars>>

(* What was read is not accepted: main goes to its error label too. *)
Unacceptable ==
  IF pc = "block"
    THEN \A fk \in Listed(word) :
           LET b == fk[1].blocks[fk[2]] IN ~(Sparse(b) \/ Stored(b) \/ Packed(b))
    ELSE pc = "fragment" /\ ~HasFragment(HeaderRead(file.fragment))

Refuse ==
  /\ Unacceptable /\ pc' = "refused"
  /\ UNCHANGED <<catVars, anyblock, fragblock, idVars>>

CatStep ==
  \/ CopyWord \/ AdvanceMeta \/ ReadBlock \/ WriteBlock
  \/ LoadFragment \/ CopyFragment
  \/ Refuse

Prompt ==
  \/ \E f \in File : StartCat(f)
  \/ \E i \in 0..IdCount : FetchId(i) \/ FetchIdFails(i)

Next == Prompt \/ CatStep \/ Fail

Spec == Init /\ [][Next]_vars

(* Once it runs, cat runs to its end; no step of it waits for anything. *)
FairSpec == Spec /\ WF_vars(CatStep)

-----------------------------------------------------------------------------
(* Properties. *)

(* Every variable has a value of its type; bytesleft, an unsigned int, never
   drops below zero. *)
TypeOK ==
  /\ pc \in {"idle", "word", "block", "write", "fragment", "copy", "refused",
             "exited"}
  /\ file \in File \cup {None}
  /\ bytesleft \in 0..(Wrap - 1) /\ datasize \in 0..BlockSize
  /\ fulloffset \in Nat
  /\ cursor \in [meta : Nat, at : 0..MetaSize, left : 0..MetaSize]
  /\ Len(word) <= WordSize /\ DOMAIN anyblock = 1..BlockSize
  /\ fragment \in [at : 0..BlockSize, left : 0..BlockSize]
  /\ Len(fragblock) <= BlockSize
  /\ asked \in 0..IdCount /\ answer \in 0..IdCount \cup {Garbage, None}

(* cat prints the file and nothing else, in order and to its end, and finds
   nothing to refuse, whatever its size is to that of a block, wherever its
   words, blocks and tail are, and whatever the buffers held before.  The
   file's size must fit in an unsigned int. *)
PrintsFile ==
  file # None /\ file.size < Wrap =>
    /\ IsPrefix(out, Contents(file))
    /\ pc = "idle" => Len(out) = file.size
    /\ pc # "refused"

(* Without the proviso: what cat is for. *)
CatPrintsAnyFile == pc = "idle" /\ file # None => out = Contents(file)

(* The three places that step_readfile counts separately, in the list of
   words, on disk and in the output, are those of the same block: before the
   word is read, and after the block is. *)
InStep ==
  LET done == Len(out) \div BlockSize
      place == cursor.meta * MetaSize + cursor.at
  IN pc \in {"word", "write"} /\ file.size < Wrap =>
       IF pc = "word"
         THEN /\ fulloffset = file.blocks[done + 1].at
              /\ place = file.list + done * WordSize + Len(word)
         ELSE /\ fulloffset = file.blocks[done + 1].at + file.blocks[done + 1].sod
              /\ place = file.list + (done + 1) * WordSize

(* An id is the one asked for, as long as its index is below the number that
   fetch_id divides by: metablock and place are both those of the index. *)
IdsRight == answer # None /\ asked < IdsDivisor => answer = asked

(* Without the proviso: what id X is for. *)
FetchesAnyId == answer # None => answer = asked

(* A cat that was started ends, with the file printed or with an error. *)
CatEnds ==
  pc \notin {"idle", "refused", "exited"} ~> pc \in {"idle", "refused", "exited"}
=============================================================================
