--------------------------- MODULE MetablockCache ---------------------------
(***************************************************************************)
(* The metablock cache of cursor.c: struct archive.metablocks, the cache   *)
(* blocks it owns, and the three operations that change it, which are      *)
(* init_metablock_cursor, advance_metablock_cursor and                     *)
(* deinit_metablock_cursor, followed by deinit_archive at the end of the   *)
(* run.                                                                    *)
(*                                                                         *)
(* The doubly linked list is kept pointer by pointer.  next[b] is          *)
(* b->listvars.next; ppnext[b] names the link that b->listvars.ppnext      *)
(* points at, either the field a->metablocks.first (Head) or the field     *)
(* listvars.next of a block.  The AVL tree is the set of blocks it holds:  *)
(* module AvlTree shows that this is what metablock.c implements.          *)
(*                                                                         *)
(* One call runs at a time (the program has one thread); pc says where it  *)
(* is.  Between two calls the shell may do anything its cursors allow: it  *)
(* opens a closed cursor, or advances or closes an open one, or quits.     *)
(***************************************************************************)
EXTENDS Naturals, FiniteSets

CONSTANTS
  Block,       \* cache blocks malloc can hand out
  Offset,      \* offsets of the archive at which a metablock starts
  Cursor,      \* the struct metablock_cursor objects open at one time
  NextOffset,  \* nextblocksoffset of the metablock at an offset
  Quota,       \* the quotaleft that init_archive grants (10 in the program)
  QuotaBound,  \* bound of the model: failed loads stop raising quotaleft here
  Nil,         \* the null pointer
  Head         \* the link a->metablocks.first

ASSUME ConstantsAssumption ==
  /\ Nil \notin Block /\ Nil \notin Offset
  /\ Head \notin Block /\ Head # Nil
  /\ IsFiniteSet(Cursor)
  /\ NextOffset \in [Offset -> Offset]
  /\ QuotaBound \in Nat

\* "needs 3 or so to do a directory list": more blocks than open cursors.
ASSUME QuotaAssumption == Quota \in Nat /\ Quota > Cardinality(Cursor)

VARIABLES
  heap,              \* blocks allocated and not freed
  tree,              \* blocks reachable from a->metablocks.treetop
  first, last,       \* a->metablocks.first, .last
  next, ppnext,      \* listvars of each block
  thisblocksoffset,  \* key of each block
  data,              \* the offset whose metablock ->uncompressed holds
  usecounter,        \* number of cursors on each block
  quotaleft,         \* a->metablocks.quotaleft
  cursor,            \* c->cache of each cursor
  pc,                \* where the running call is, "idle" between calls
  who, fulloffset,   \* arguments c and fulloffset of init_metablock_cursor
  cache, leftused    \* its local variables

listVars == <<first, last, next, ppnext>>
blockVars == <<thisblocksoffset, data>>
callVars == <<who, fulloffset, cache, leftused>>
vars == <<heap, tree, listVars, blockVars, usecounter, quotaleft, cursor, pc,
          callVars>>

(* The call returns to its caller and its local variables are gone. *)
Return ==
  /\ pc' = "idle"
  /\ who' = Nil /\ fulloffset' = Nil /\ cache' = Nil /\ leftused' = FALSE

-----------------------------------------------------------------------------
(* init_archive: no blocks, the whole quota left. *)
Init ==
  /\ heap = {} /\ tree = {}
  /\ first = Nil /\ last = Nil
  /\ next = [b \in Block |-> Nil] /\ ppnext = [b \in Block |-> Nil]
  /\ thisblocksoffset = [b \in Block |-> Nil] /\ data = [b \in Block |-> Nil]
  /\ usecounter = [b \in Block |-> 0]
  /\ quotaleft = Quota
  /\ cursor = [c \in Cursor |-> Nil]
  /\ pc = "idle"
  /\ who = Nil /\ fulloffset = Nil /\ cache = Nil /\ leftused = FALSE

(* find_cache_metablock: the blocks of the tree with this key. *)
FoundNever(o) == {}  \* fault: the tree is never looked at
Found(o) == {b \in tree : thisblocksoffset[b] = o}

(* The cursor enters the block. *)
AttachUncounted(c, b) ==  \* fault: the block does not learn of it
  cursor' = [cursor EXCEPT ![c] = b] /\ UNCHANGED usecounter
Attach(c, b) ==
  /\ cursor' = [cursor EXCEPT ![c] = b]
  /\ usecounter' = [usecounter EXCEPT ![b] = @ + 1]

(* deinit_metablock_cursor and the clearing of the cursor by its owner. *)
LeavePinned(c) ==  \* fault: deinit_metablock_cursor is forgotten
  cursor' = [cursor EXCEPT ![c] = Nil] /\ UNCHANGED usecounter
LeaveUncleared(c) ==  \* fault: the cursor is not cleared
  usecounter' = [usecounter EXCEPT ![cursor[c]] = @ - 1] /\ UNCHANGED cursor
Leave(c) ==
  /\ usecounter' = [usecounter EXCEPT ![cursor[c]] = @ - 1]
  /\ cursor' = [cursor EXCEPT ![c] = Nil]

CloseCursor(c) ==
  /\ pc = "idle" /\ cursor[c] # Nil
  /\ Leave(c)
  /\ UNCHANGED <<heap, tree, listVars, blockVars, quotaleft, pc, callVars>>

(* A call of init_metablock_cursor on a cleared cursor.  One with an
   offsetinblock of 8192 or more returns before it changes anything. *)
OpenCursor(c, o) ==
  /\ pc = "idle" /\ cursor[c] = Nil
  /\ pc' = "lookup" /\ who' = c /\ fulloffset' = o
  /\ UNCHANGED <<heap, tree, listVars, blockVars, usecounter, quotaleft,
                 cursor, cache, leftused>>

(* advance_metablock_cursor: leave the block, then init at the next one. *)
AdvanceCursor(c) ==
  /\ pc = "idle" /\ cursor[c] # Nil
  /\ fulloffset' = NextOffset[thisblocksoffset[cursor[c]]]
  /\ Leave(c)
  /\ pc' = "lookup" /\ who' = c
  /\ UNCHANGED <<heap, tree, listVars, blockVars, quotaleft, cache, leftused>>

(* The block is in the tree: use it. *)
Hit ==
  /\ pc = "lookup"
  /\ \E b \in Found(fulloffset) : Attach(who, b)
  /\ Return
  /\ UNCHANGED <<heap, tree, listVars, blockVars, quotaleft>>

(* What a block holds is forgotten: clear_cache_metablock. *)
Forget(b) ==
  /\ next' = [next EXCEPT ![b] = Nil]
  /\ ppnext' = [ppnext EXCEPT ![b] = Nil]
  /\ thisblocksoffset' = [thisblocksoffset EXCEPT ![b] = Nil]
  /\ data' = [data EXCEPT ![b] = Nil]

(* A new block: malloc and clear_cache_metablock. *)
Allocate ==
  /\ pc = "lookup" /\ Found(fulloffset) = {} /\ quotaleft > 0
  /\ \E b \in Block \ heap :
       /\ heap' = heap \cup {b} /\ cache' = b
       /\ Forget(b)
       /\ usecounter' = [usecounter EXCEPT ![b] = 0]
  /\ leftused' = TRUE /\ pc' = "read"
  /\ UNCHANGED <<tree, first, last, quotaleft, cursor, who, fulloffset>>

(* malloc returns NULL: error with nothing to give back. *)
AllocateFails ==
  /\ pc = "lookup" /\ Found(fulloffset) = {} /\ quotaleft > 0
  /\ Return
  /\ UNCHANGED <<heap, tree, listVars, blockVars, usecounter, quotaleft,
                 cursor>>

(* No quota: look for a block to recycle, from a->metablocks.first on. *)
StartScan ==
  /\ pc = "lookup" /\ Found(fulloffset) = {} /\ quotaleft = 0
  /\ cache' = first /\ leftused' = FALSE /\ pc' = "scan"
  /\ UNCHANGED <<heap, tree, listVars, blockVars, usecounter, quotaleft,
                 cursor, who, fulloffset>>

UnusedAlways(b) == TRUE  \* fault: the counter is ignored
Unused(b) == usecounter[b] = 0

(* The block is in use: go on to the next one, or give up at the end of the
   list, "Metablock cache limit exceeded." *)
ScanRestarts ==  \* fault: each block in use makes the scan start over
  /\ pc = "scan" /\ ~Unused(cache)
  /\ cache' = first
  /\ UNCHANGED <<heap, tree, listVars, blockVars, usecounter, quotaleft,
                 cursor, pc, who, fulloffset, leftused>>
ScanNext ==
  /\ pc = "scan" /\ ~Unused(cache)
  /\ IF next[cache] # Nil
       THEN cache' = next[cache] /\ UNCHANGED <<pc, who, fulloffset, leftused>>
       ELSE Return
  /\ UNCHANGED <<heap, tree, listVars, blockVars, usecounter, quotaleft,
                 cursor>>

(* An unused block: take it out of the list and of the tree. *)
Unlink ==
  /\ pc = "scan" /\ Unused(cache)
  /\ LET n == next[cache]
         p == ppnext[cache]
     IN /\ first' = IF p = Head THEN n ELSE first
        /\ next' = IF p = Head THEN next ELSE [next EXCEPT ![p] = n]
        /\ ppnext' = IF n = Nil THEN ppnext ELSE [ppnext EXCEPT ![n] = p]
  /\ tree' = tree \ {cache}
  /\ pc' = "read"
  /\ UNCHANGED <<heap, last, blockVars, usecounter, quotaleft, cursor,
                 callVars>>

(* The end of init_metablock_cursor: the block becomes the last of the list. *)
AppendUncleared(b) ==  \* fault: a recycled block keeps its next pointer
  /\ IF last = Nil
       THEN first' = b /\ ppnext' = [ppnext EXCEPT ![b] = Head] /\ UNCHANGED next
       ELSE /\ next' = [next EXCEPT ![last] = b]
            /\ ppnext' = [ppnext EXCEPT ![b] = last] /\ UNCHANGED first
  /\ last' = b
AppendLastFixed(b) ==  \* fault: a->metablocks.last is set once
  IF last = Nil
    THEN /\ first' = b /\ ppnext' = [ppnext EXCEPT ![b] = Head] /\ last' = b
         /\ UNCHANGED next
    ELSE /\ next' = [next EXCEPT ![last] = b, ![b] = Nil]
         /\ ppnext' = [ppnext EXCEPT ![b] = last] /\ UNCHANGED <<first, last>>
Append(b) ==
  /\ IF last = Nil
       THEN first' = b /\ ppnext' = [ppnext EXCEPT ![b] = Head] /\ UNCHANGED next
       ELSE /\ next' = [next EXCEPT ![last] = b, ![b] = Nil]
            /\ ppnext' = [ppnext EXCEPT ![b] = last] /\ UNCHANGED first
  /\ last' = b

(* The metablock was read and unpacked: publish the block. *)
Install ==
  /\ pc = "read"
  /\ data' = [data EXCEPT ![cache] = fulloffset]
  /\ quotaleft' = IF leftused THEN quotaleft - 1 ELSE quotaleft
  /\ thisblocksoffset' = [thisblocksoffset EXCEPT ![cache] = fulloffset]
  /\ Attach(who, cache)
  /\ tree' = tree \cup {cache}
  /\ Append(cache)
  /\ Return
  /\ UNCHANGED heap

(* The error path of init_metablock_cursor: quotaleft grows by one and the
   block is freed, whichever way it was obtained. *)
FreeLeaking(b) ==  \* fault: the block is not freed
  quotaleft' = quotaleft + 1 /\ UNCHANGED <<heap, next, ppnext, blockVars>>
FreeKeepingQuota(b) ==  \* fault: quotaleft is not raised
  heap' = heap \ {b} /\ Forget(b) /\ UNCHANGED quotaleft
Free(b) ==
  /\ quotaleft' = quotaleft + 1
  /\ heap' = heap \ {b}
  /\ Forget(b)

(* A read or the decompression failed. *)
ReadFails ==
  /\ pc = "read" /\ quotaleft < QuotaBound
  /\ Free(cache)
  /\ Return
  /\ UNCHANGED <<tree, first, last, usecounter, cursor>>

(* deinit_archive: free the blocks of the list, one after the other. *)
StartFree ==
  /\ pc = "idle"
  /\ cache' = first /\ pc' = "free"
  /\ UNCHANGED <<heap, tree, listVars, blockVars, usecounter, quotaleft,
                 cursor, who, fulloffset, leftused>>

FreeNext ==
  /\ pc = "free" /\ cache # Nil
  /\ cache' = next[cache] /\ heap' = heap \ {cache}
  /\ UNCHANGED <<tree, listVars, blockVars, usecounter, quotaleft, cursor, pc,
                 who, fulloffset, leftused>>

FreeDone ==
  /\ pc = "free" /\ cache = Nil
  /\ pc' = "done"
  /\ UNCHANGED <<heap, tree, listVars, blockVars, usecounter, quotaleft,
                 cursor, callVars>>

-----------------------------------------------------------------------------
(* What the shell asks for, and what the code does by itself once called. *)
Client ==
  \/ \E c \in Cursor : CloseCursor(c) \/ AdvanceCursor(c)
  \/ \E c \in Cursor, o \in Offset : OpenCursor(c, o)
  \/ StartFree

Internal ==
  \/ Hit \/ Allocate \/ AllocateFails
  \/ StartScan \/ ScanNext \/ Unlink
  \/ Install \/ ReadFails
  \/ FreeNext \/ FreeDone

Next == Client \/ Internal

Spec == Init /\ [][Next]_vars

(* A started call keeps running: it is straight-line code of one thread. *)
FairSpec == Spec /\ WF_vars(Internal)

-----------------------------------------------------------------------------
(* Properties.  Running: deinit_archive has not begun. *)
Running == pc \notin {"free", "done"}

(* Every variable has a value of its C type. *)
TypeOK ==
  /\ heap \subseteq Block /\ tree \subseteq Block
  /\ first \in Block \cup {Nil} /\ last \in Block \cup {Nil}
  /\ next \in [Block -> Block \cup {Nil}]
  /\ ppnext \in [Block -> Block \cup {Nil, Head}]
  /\ thisblocksoffset \in [Block -> Offset \cup {Nil}]
  /\ data \in [Block -> Offset \cup {Nil}]
  /\ usecounter \in [Block -> Nat]
  /\ quotaleft \in Nat
  /\ cursor \in [Cursor -> Block \cup {Nil}]
  /\ pc \in {"idle", "lookup", "scan", "read", "free", "done"}
  /\ who \in Cursor \cup {Nil} /\ fulloffset \in Offset \cup {Nil}
  /\ cache \in Block \cup {Nil} /\ leftused \in BOOLEAN

(* s enumerates the blocks of the tree in the order of the list: first and
   last are its ends, next and ppnext its links in both directions. *)
IsList(s, n) ==
  /\ \A i, j \in 1..n : s[i] = s[j] => i = j
  /\ \A b \in tree : \E i \in 1..n : s[i] = b
  /\ first = IF n = 0 THEN Nil ELSE s[1]
  /\ last = IF n = 0 THEN Nil ELSE s[n]
  /\ \A i \in 1..n :
       /\ next[s[i]] = IF i = n THEN Nil ELSE s[i + 1]
       /\ ppnext[s[i]] = IF i = 1 THEN Head ELSE s[i - 1]

(* The list walked from a->metablocks.first holds exactly the blocks of the
   tree, well linked, and a->metablocks.last is its end.  Recycling the last
   block would break it: init_metablock_cursor does not move .last back when
   it unlinks a block. *)
ListShape ==
  Running => LET n == Cardinality(tree)
             IN \E s \in [1..n -> tree] : IsList(s, n)

(* The cursors that point at b when the cursors are as in f. *)
PinsOf(f, b) == {c \in Cursor : f[c] = b}

(* usecounter is the number of cursors on the block: no call leaks a count
   or drops one twice. *)
PinsCounted ==
  \A b \in tree : usecounter[b] = Cardinality(PinsOf(cursor, b))

(* The tree has one block per offset, holding that offset's metablock: a
   lookup has one answer and the answer is right. *)
TreeKeyed ==
  /\ \A b \in tree : data[b] \in Offset /\ data[b] = thisblocksoffset[b]
  /\ \A b, d \in tree : thisblocksoffset[b] = thisblocksoffset[d] => b = d

(* The scan for a block to recycle finds one, and not the last of the list:
   "Metablock cache limit exceeded" is never reached when the quota is
   larger than the number of cursors. *)
ScanSucceeds ==
  pc = "scan" => \/ usecounter[cache] > 0 /\ next[cache] # Nil
                 \/ usecounter[cache] = 0 /\ cache # last

(* No error path loses quota: what is left plus the blocks in use is never
   below what init_archive granted. *)
QuotaNotLost ==
  Running =>
    LET recycled == IF pc = "read" /\ ~leftused THEN 1 ELSE 0
    IN quotaleft + Cardinality(tree) + recycled >= Quota

(* Between calls every allocated block is in the tree, and during a read
   only the block being filled is not: error paths neither leak a block nor
   free one that the tree still holds. *)
HeapOwned ==
  Running => heap = tree \cup (IF pc = "read" THEN {cache} ELSE {})

(* deinit_archive frees every block, and never one twice. *)
AllFreed ==
  /\ pc = "done" => heap = {}
  /\ pc = "free" /\ cache # Nil => cache \in heap

(* A block that a cursor points at is neither refilled nor freed nor
   unlinked by any step of the code before the cursor leaves it. *)
PinnedUntouched ==
  [][\A c \in Cursor :
       Running' /\ cursor[c] # Nil /\ cursor'[c] = cursor[c] =>
         /\ cursor[c] \in heap' \cap tree'
         /\ data'[cursor[c]] = data[cursor[c]]]_vars

(* Every call returns: the scan and the free loop end. *)
CallsReturn == pc # "idle" ~> pc \in {"idle", "done"}

(* archive.c says of the quota: "maximum .left number of cache blocks". *)
QuotaIsMaximum == Cardinality(tree) <= Quota

-----------------------------------------------------------------------------
(* The inductive invariant.  TypeOK alone is not inductive: that a count
   never drops below zero, or that the scan never meets the null pointer,
   rests on what follows. *)

(* The arguments and the locals of the running call. *)
CallOK ==
  /\ pc \in {"lookup", "scan", "read"} =>
       who \in Cursor /\ cursor[who] = Nil /\ fulloffset \in Offset
  /\ pc \in {"scan", "read"} => Found(fulloffset) = {}
  /\ pc = "scan" => quotaleft = 0 /\ ~leftused
  /\ pc = "read" => /\ cache \in Block \ tree
                    /\ usecounter[cache] = 0
                    /\ leftused => quotaleft > 0
                    /\ tree = {} => next[cache] = Nil

CursorsInTree == \A c \in Cursor : cursor[c] # Nil => cursor[c] \in tree

(* Where the scan is in the list, all blocks before it being pinned, and
   where the free loop is, only the blocks before it being freed. *)
ScanAt(s, n) ==
  pc = "scan" => \E k \in 1..n : /\ s[k] = cache
                                /\ \A i \in 1..n : i < k => usecounter[s[i]] > 0

FreeAt(s, n) ==
  pc = "free" => \/ cache = Nil /\ heap = {}
                 \/ \E k \in 1..n : /\ s[k] = cache
                                    /\ heap = {s[i] : i \in k..n}

ListInv ==
  \E s \in [1..Cardinality(tree) -> tree] :
    /\ IsList(s, Cardinality(tree))
    /\ ScanAt(s, Cardinality(tree))
    /\ FreeAt(s, Cardinality(tree))

IInv ==
  /\ TypeOK
  /\ IsFiniteSet(tree)
  /\ CallOK
  /\ TreeKeyed
  /\ CursorsInTree
  /\ PinsCounted
  /\ ListInv
  /\ HeapOwned
  /\ pc = "done" => heap = {}
  /\ QuotaNotLost

-----------------------------------------------------------------------------
(* What the cache promises, and how its state maps to that. *)
View == [c \in Cursor |-> IF Running /\ cursor[c] # Nil
                            THEN data[cursor[c]] ELSE Nil]

Resident == IF Running THEN {data[b] : b \in tree} ELSE {}

Promise == INSTANCE BlockCache WITH view <- View, resident <- Resident

(* The cache implements BlockCache. *)
ImplementsBlockCache == Promise!Spec
=============================================================================
