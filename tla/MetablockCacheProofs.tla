------------------------ MODULE MetablockCacheProofs ------------------------
(***************************************************************************)
(* Proofs about MetablockCache: IInv is inductive, whatever the blocks,    *)
(* the offsets, the cursors and the quota, and what follows from it.       *)
(***************************************************************************)
EXTENDS MetablockCache, FiniteSetTheorems, TLAPS

-----------------------------------------------------------------------------
(* Counting the cursors of a block. *)

LEMMA PinsFinite ==
  ASSUME NEW f, NEW b
  PROVE  IsFiniteSet(PinsOf(f, b)) /\ Cardinality(PinsOf(f, b)) \in Nat
  BY FS_Subset, FS_CardinalityType, ConstantsAssumption DEF PinsOf

(* A cursor that leaves its block is one pin less there, and nowhere else. *)
LEMMA PinRemoved ==
  ASSUME NEW f \in [Cursor -> Block \cup {Nil}],
         NEW c \in Cursor, f[c] # Nil
  PROVE  LET g == [f EXCEPT ![c] = Nil] IN
         /\ Cardinality(PinsOf(f, f[c])) > 0
         /\ \A b \in Block : Cardinality(PinsOf(g, b)) =
              Cardinality(PinsOf(f, b)) - (IF b = f[c] THEN 1 ELSE 0)
<1> DEFINE g == [f EXCEPT ![c] = Nil]
<1>1. Cardinality(PinsOf(f, f[c])) > 0
  <2>1. PinsOf(f, f[c]) # {}
    BY DEF PinsOf
  <2> QED BY <2>1, PinsFinite, FS_EmptySet
<1>2. ASSUME NEW b \in Block
      PROVE  Cardinality(PinsOf(g, b)) =
               Cardinality(PinsOf(f, b)) - (IF b = f[c] THEN 1 ELSE 0)
  <2>1. PinsOf(g, b) = PinsOf(f, b) \ {c}
    BY ConstantsAssumption DEF PinsOf
  <2>2. c \in PinsOf(f, b) <=> b = f[c]
    BY DEF PinsOf
  <2> HIDE DEF g
  <2> QED BY <2>1, <2>2, PinsFinite, FS_RemoveElement, SMTT(30)
<1> QED BY <1>1, <1>2

(* A cursor that enters a block is one pin more there, and nowhere else. *)
LEMMA PinAdded ==
  ASSUME NEW f \in [Cursor -> Block \cup {Nil}],
         NEW c \in Cursor, f[c] = Nil, NEW d \in Block
  PROVE  LET g == [f EXCEPT ![c] = d] IN
         \A b \in Block : Cardinality(PinsOf(g, b)) =
           Cardinality(PinsOf(f, b)) + (IF b = d THEN 1 ELSE 0)
<1> DEFINE g == [f EXCEPT ![c] = d]
<1>1. ASSUME NEW b \in Block
      PROVE  Cardinality(PinsOf(g, b)) =
               Cardinality(PinsOf(f, b)) + (IF b = d THEN 1 ELSE 0)
  <2>1. c \notin PinsOf(f, b)
    BY ConstantsAssumption DEF PinsOf
  <2>2. CASE b = d
    <3>1. PinsOf(g, b) = PinsOf(f, b) \cup {c}
      BY <2>2, ConstantsAssumption DEF PinsOf
    <3> HIDE DEF g
    <3> QED BY <2>1, <2>2, <3>1, PinsFinite, FS_AddElement
  <2>3. CASE b # d
    <3>1. PinsOf(g, b) = PinsOf(f, b)
      BY <2>3, ConstantsAssumption DEF PinsOf
    <3> HIDE DEF g
    <3> QED BY <2>3, <3>1, PinsFinite
  <2> QED BY <2>2, <2>3
<1> QED BY <1>1

-----------------------------------------------------------------------------
(* The blocks that cursors point at are fewer than the cursors, when one    *)
(* cursor is closed: this is what the quota assumption is for.              *)
LEMMA PinnedAreFew ==
  ASSUME TypeOK, PinsCounted, IsFiniteSet(tree),
         NEW w \in Cursor, cursor[w] = Nil,
         NEW B \in SUBSET tree, \A b \in B : usecounter[b] > 0
  PROVE  Cardinality(B) < Cardinality(Cursor)
<1> DEFINE C == {c \in Cursor : cursor[c] \in B}
           f == [c \in C |-> cursor[c]]
<1>1. IsFiniteSet(C) /\ Cardinality(C) < Cardinality(Cursor)
  <2>1. C \subseteq Cursor \ {w}
    BY ConstantsAssumption DEF TypeOK
  <2>2. /\ IsFiniteSet(Cursor \ {w})
        /\ Cardinality(Cursor \ {w}) = Cardinality(Cursor) - 1
    BY FS_RemoveElement, ConstantsAssumption
  <2>3. IsFiniteSet(C) /\ Cardinality(C) <= Cardinality(Cursor \ {w})
    BY <2>1, <2>2, FS_Subset
  <2>4. Cardinality(Cursor) \in Nat /\ Cardinality(C) \in Nat
    BY <2>3, FS_CardinalityType, ConstantsAssumption
  <2> HIDE DEF C
  <2> QED BY <2>2, <2>3, <2>4
<1>2. f \in Surjection(C, B)
  <2>1. ASSUME NEW b \in B PROVE \E c \in C : f[c] = b
    <3>1. Cardinality(PinsOf(cursor, b)) > 0
      BY DEF PinsCounted
    <3>2. PinsOf(cursor, b) # {}
      BY <3>1, FS_EmptySet
    <3> QED BY <3>2 DEF PinsOf
  <2> QED BY <2>1 DEF Surjection
<1>3. Cardinality(B) <= Cardinality(C)
  <2> HIDE DEF C, f
  <2> QED BY <1>1, <1>2, FS_Surjection
<1>4. Cardinality(B) \in Nat /\ Cardinality(C) \in Nat /\ Cardinality(Cursor) \in Nat
  BY <1>1, FS_Subset, FS_CardinalityType, ConstantsAssumption
<1> HIDE DEF C
<1> QED BY <1>1, <1>3, <1>4

-----------------------------------------------------------------------------
(* The scan is never at the end of the list: the blocks before it are all   *)
(* in use, and the list has more blocks than there are cursors.             *)
LEMMA ScanNotAtEnd ==
  ASSUME IInv, pc = "scan"
  PROVE  cache \in tree /\ next[cache] # Nil /\ cache # last
<1> DEFINE n == Cardinality(tree)
<1>1. PICK s \in [1..n -> tree] : IsList(s, n) /\ ScanAt(s, n)
  BY DEF IInv, ListInv
<1>2. n \in Nat /\ IsFiniteSet(tree) /\ tree \subseteq Block
  BY FS_CardinalityType DEF IInv, TypeOK
<1>3. PICK k \in 1..n : /\ s[k] = cache
                        /\ \A i \in 1..n : i < k => usecounter[s[i]] > 0
  BY <1>1 DEF ScanAt
<1>4. n >= Quota
  BY <1>2 DEF IInv, QuotaNotLost, CallOK, Running
<1>5. k # n
  <2> SUFFICES ASSUME k = n PROVE FALSE
    OBVIOUS
  <2> DEFINE B == tree \ {cache}
  <2>1. \A b \in B : usecounter[b] > 0
    BY <1>1, <1>2, <1>3 DEF IsList
  <2>2. Cardinality(B) = n - 1
    BY <1>2, <1>3, FS_RemoveElement
  <2>3. who \in Cursor /\ cursor[who] = Nil
    BY DEF IInv, CallOK
  <2>4. Cardinality(B) < Cardinality(Cursor)
    <3> HIDE DEF B
    <3> QED BY <2>1, <2>3, PinnedAreFew DEF IInv, B
  <2>5. Cardinality(Cursor) \in Nat
    BY FS_CardinalityType, ConstantsAssumption
  <2> HIDE DEF B, n
  <2> QED BY <2>2, <2>4, <2>5, <1>2, <1>4, QuotaAssumption
<1>6. cache = s[k] /\ k < n
  BY <1>2, <1>3, <1>5
<1>7. next[cache] = s[k + 1] /\ last = s[n] /\ s[k + 1] \in tree
  BY <1>1, <1>2, <1>6 DEF IsList
<1> HIDE DEF n
<1>8. cache # last
  BY <1>1, <1>2, <1>6, <1>7 DEF IsList
<1> QED BY <1>2, <1>6, <1>7, <1>8, ConstantsAssumption

-----------------------------------------------------------------------------
(* The initial state. *)

LEMMA InitInv == Init => IInv
<1> SUFFICES ASSUME Init PROVE IInv
  OBVIOUS
<1> USE DEF Init
<1>1. TypeOK
  BY QuotaAssumption DEF TypeOK
<1>2. IsFiniteSet(tree) /\ Cardinality(tree) = 0
  BY FS_EmptySet
<1>3. CallOK /\ TreeKeyed /\ CursorsInTree /\ PinsCounted /\ HeapOwned
  BY DEF CallOK, TreeKeyed, CursorsInTree, PinsCounted, HeapOwned, Running
<1>4. ListInv
  <2> DEFINE s == [i \in 1..0 |-> Nil]
  <2>1. s \in [1..0 -> tree]
    OBVIOUS
  <2>2. IsList(s, 0) /\ ScanAt(s, 0) /\ FreeAt(s, 0)
    BY DEF IsList, ScanAt, FreeAt
  <2> QED BY <1>2, <2>1, <2>2 DEF ListInv
<1>5. QuotaNotLost
  BY <1>2, QuotaAssumption DEF QuotaNotLost
<1> QED BY <1>1, <1>2, <1>3, <1>4, <1>5 DEF IInv

-----------------------------------------------------------------------------
(* One lemma per action: it preserves IInv. *)

(* An action that leaves the list of the tree's blocks alone, and is not    *)
(* followed by a step of the scan or of the free loop.                      *)
LEMMA ListKept ==
  ASSUME ListInv, UNCHANGED <<tree, first, last>>,
         \A b \in tree : next'[b] = next[b] /\ ppnext'[b] = ppnext[b],
         pc' \notin {"scan", "free"}
  PROVE  ListInv'
<1> DEFINE n == Cardinality(tree)
<1>1. PICK s \in [1..n -> tree] : IsList(s, n)
  BY DEF ListInv
<1>2. IsList(s, n)'
  BY <1>1 DEF IsList
<1>3. ScanAt(s, n)' /\ FreeAt(s, n)'
  BY DEF ScanAt, FreeAt
<1> QED BY <1>1, <1>2, <1>3 DEF ListInv

LEMMA CloseCursorStep ==
  ASSUME IInv, NEW c \in Cursor, CloseCursor(c)
  PROVE  IInv'
<1> USE DEF CloseCursor, Leave, listVars, blockVars, callVars
<1> DEFINE b == cursor[c]
<1>1. b \in tree /\ b \in Block
  BY DEF IInv, CursorsInTree, TypeOK
<1>2. usecounter[b] > 0
  BY <1>1, PinRemoved DEF IInv, PinsCounted, TypeOK
<1>3. TypeOK'
  BY <1>1, <1>2 DEF IInv, TypeOK
<1>4. PinsCounted'
  <2>1. \A d \in Block : Cardinality(PinsOf(cursor', d)) =
          Cardinality(PinsOf(cursor, d)) - (IF d = b THEN 1 ELSE 0)
    BY PinRemoved DEF IInv, TypeOK
  <2> SUFFICES ASSUME NEW d \in tree'
               PROVE  usecounter'[d] = Cardinality(PinsOf(cursor', d))
    BY DEF PinsCounted, PinsOf
  <2>2. d \in tree /\ d \in Block
    BY DEF IInv, TypeOK
  <2>3. usecounter[d] = Cardinality(PinsOf(cursor, d))
    BY <2>2 DEF IInv, PinsCounted
  <2>4. Cardinality(PinsOf(cursor, d)) \in Nat
    BY PinsFinite
  <2>5. usecounter'[d] = usecounter[d] - (IF d = b THEN 1 ELSE 0)
    BY <1>1, <2>2 DEF IInv, TypeOK
  <2> QED BY <2>1, <2>2, <2>3, <2>4, <2>5
<1>5. CallOK' /\ TreeKeyed' /\ CursorsInTree'
  BY DEF IInv, TypeOK, CallOK, TreeKeyed, CursorsInTree
<1>6. ListInv'
  BY ListKept DEF IInv
<1>7. HeapOwned' /\ QuotaNotLost' /\ IsFiniteSet(tree)' /\ (pc = "done" => heap = {})'
  BY DEF IInv, HeapOwned, QuotaNotLost, Running
<1> QED BY <1>3, <1>4, <1>5, <1>6, <1>7 DEF IInv

LEMMA OpenCursorStep ==
  ASSUME IInv, NEW c \in Cursor, NEW o \in Offset, OpenCursor(c, o)
  PROVE  IInv'
<1> USE DEF OpenCursor, listVars, blockVars, callVars
<1>1. TypeOK' /\ CallOK' /\ TreeKeyed' /\ CursorsInTree' /\ PinsCounted'
  BY DEF IInv, TypeOK, CallOK, TreeKeyed, CursorsInTree, PinsCounted, PinsOf
<1>2. ListInv'
  BY ListKept DEF IInv
<1>3. HeapOwned' /\ QuotaNotLost' /\ IsFiniteSet(tree)' /\ (pc = "done" => heap = {})'
  BY DEF IInv, HeapOwned, QuotaNotLost, Running
<1> QED BY <1>1, <1>2, <1>3 DEF IInv

LEMMA AdvanceCursorStep ==
  ASSUME IInv, NEW c \in Cursor, AdvanceCursor(c)
  PROVE  IInv'
<1> USE DEF AdvanceCursor, Leave, listVars, blockVars, callVars
<1> DEFINE b == cursor[c]
<1>1. b \in tree /\ b \in Block
  BY DEF IInv, CursorsInTree, TypeOK
<1>2. usecounter[b] > 0
  BY <1>1, PinRemoved DEF IInv, PinsCounted, TypeOK
<1>3. fulloffset' \in Offset
  BY <1>1, ConstantsAssumption DEF IInv, TreeKeyed
<1>4. TypeOK'
  BY <1>1, <1>2, <1>3 DEF IInv, TypeOK
<1>5. PinsCounted'
  <2>1. \A d \in Block : Cardinality(PinsOf(cursor', d)) =
          Cardinality(PinsOf(cursor, d)) - (IF d = b THEN 1 ELSE 0)
    BY PinRemoved DEF IInv, TypeOK
  <2> SUFFICES ASSUME NEW d \in tree'
               PROVE  usecounter'[d] = Cardinality(PinsOf(cursor', d))
    BY DEF PinsCounted, PinsOf
  <2>2. d \in tree /\ d \in Block
    BY DEF IInv, TypeOK
  <2>3. usecounter[d] = Cardinality(PinsOf(cursor, d))
    BY <2>2 DEF IInv, PinsCounted
  <2>4. Cardinality(PinsOf(cursor, d)) \in Nat
    BY PinsFinite
  <2>5. usecounter'[d] = usecounter[d] - (IF d = b THEN 1 ELSE 0)
    BY <1>1, <2>2 DEF IInv, TypeOK
  <2> QED BY <2>1, <2>2, <2>3, <2>4, <2>5
<1>6. CallOK' /\ TreeKeyed' /\ CursorsInTree'
  BY <1>3 DEF IInv, TypeOK, CallOK, TreeKeyed, CursorsInTree
<1>7. ListInv'
  BY ListKept DEF IInv
<1>8. HeapOwned' /\ QuotaNotLost' /\ IsFiniteSet(tree)' /\ (pc = "done" => heap = {})'
  BY DEF IInv, HeapOwned, QuotaNotLost, Running
<1> QED BY <1>4, <1>5, <1>6, <1>7, <1>8 DEF IInv

LEMMA HitStep ==
  ASSUME IInv, Hit
  PROVE  IInv'
<1> USE DEF Hit, Attach, Return, listVars, blockVars
<1>1. PICK b \in Found(fulloffset) :
        /\ usecounter' = [usecounter EXCEPT ![b] = @ + 1]
        /\ cursor' = [cursor EXCEPT ![who] = b]
  OBVIOUS
<1>2. b \in tree /\ b \in Block /\ who \in Cursor /\ cursor[who] = Nil
  BY <1>1 DEF IInv, TypeOK, CallOK, Found
<1>3. TypeOK'
  <2>1. leftused' \in BOOLEAN
    OBVIOUS
  <2> QED BY <1>1, <1>2, <2>1 DEF IInv, TypeOK
<1>4. PinsCounted'
  <2>1. \A d \in Block : Cardinality(PinsOf(cursor', d)) =
          Cardinality(PinsOf(cursor, d)) + (IF d = b THEN 1 ELSE 0)
    <3>1. cursor \in [Cursor -> Block \cup {Nil}]
      BY DEF IInv, TypeOK
    <3> HIDE DEF Hit, Attach
    <3> QED BY <1>1, <1>2, <3>1, PinAdded, ZenonT(60)
  <2> SUFFICES ASSUME NEW d \in tree'
               PROVE  usecounter'[d] = Cardinality(PinsOf(cursor', d))
    BY DEF PinsCounted, PinsOf
  <2>2. d \in tree /\ d \in Block
    BY DEF IInv, TypeOK
  <2>3. usecounter[d] = Cardinality(PinsOf(cursor, d))
    BY <2>2 DEF IInv, PinsCounted
  <2>4. Cardinality(PinsOf(cursor, d)) \in Nat
    BY PinsFinite
  <2>5. usecounter'[d] = usecounter[d] + (IF d = b THEN 1 ELSE 0)
    BY <1>1, <1>2, <2>2 DEF IInv, TypeOK
  <2> QED BY <2>1, <2>2, <2>3, <2>4, <2>5
<1>5. CallOK' /\ TreeKeyed' /\ CursorsInTree'
  BY <1>1, <1>2 DEF IInv, TypeOK, CallOK, TreeKeyed, CursorsInTree
<1>6. ListInv'
  BY ListKept DEF IInv
<1>7. HeapOwned' /\ QuotaNotLost' /\ IsFiniteSet(tree)' /\ (pc = "done" => heap = {})'
  BY DEF IInv, HeapOwned, QuotaNotLost, Running
<1> QED BY <1>3, <1>4, <1>5, <1>6, <1>7 DEF IInv

LEMMA AllocateStep ==
  ASSUME IInv, Allocate
  PROVE  IInv'
<1> USE DEF Allocate, Forget
<1>1. PICK b \in Block \ heap :
        /\ heap' = heap \cup {b} /\ cache' = b
        /\ next' = [next EXCEPT ![b] = Nil]
        /\ ppnext' = [ppnext EXCEPT ![b] = Nil]
        /\ thisblocksoffset' = [thisblocksoffset EXCEPT ![b] = Nil]
        /\ data' = [data EXCEPT ![b] = Nil]
        /\ usecounter' = [usecounter EXCEPT ![b] = 0]
  OBVIOUS
<1>2. /\ pc = "lookup" /\ Found(fulloffset) = {} /\ quotaleft > 0
      /\ leftused' = TRUE /\ pc' = "read"
      /\ UNCHANGED <<tree, first, last, quotaleft, cursor, who, fulloffset>>
  OBVIOUS
<1> HIDE DEF Allocate, Forget
<1>3. b \notin tree /\ heap' = tree \cup {b}
  BY <1>1, <1>2 DEF IInv, HeapOwned, Running
<1>4. TypeOK'
  <2>1. leftused' \in BOOLEAN
    BY <1>2
  <2> QED BY <1>1, <1>2, <2>1 DEF IInv, TypeOK
<1>5. CallOK'
  BY <1>1, <1>2, <1>3 DEF IInv, CallOK, TypeOK, Found
<1>6. TreeKeyed' /\ CursorsInTree'
  BY <1>1, <1>2, <1>3 DEF IInv, TreeKeyed, CursorsInTree, TypeOK
<1>7. PinsCounted'
  BY <1>1, <1>2, <1>3 DEF IInv, PinsCounted, TypeOK, PinsOf
<1>8. ListInv'
  BY <1>1, <1>2, <1>3, ListKept DEF IInv, TypeOK
<1>9. HeapOwned' /\ IsFiniteSet(tree)' /\ (pc = "done" => heap = {})'
  BY <1>1, <1>2, <1>3 DEF IInv, HeapOwned
<1>10. QuotaNotLost'
  BY <1>2 DEF IInv, QuotaNotLost, Running
<1> QED BY <1>4, <1>5, <1>6, <1>7, <1>8, <1>9, <1>10 DEF IInv

LEMMA AllocateFailsStep ==
  ASSUME IInv, AllocateFails
  PROVE  IInv'
<1> USE DEF AllocateFails, Return, listVars, blockVars
<1>1. TypeOK'
  <2>1. leftused' \in BOOLEAN
    OBVIOUS
  <2> QED BY <2>1 DEF IInv, TypeOK
<1>2. CallOK' /\ TreeKeyed' /\ CursorsInTree' /\ PinsCounted'
  BY DEF IInv, TypeOK, CallOK, TreeKeyed, CursorsInTree, PinsCounted, PinsOf
<1>3. ListInv'
  BY ListKept DEF IInv
<1>4. HeapOwned' /\ QuotaNotLost' /\ IsFiniteSet(tree)' /\ (pc = "done" => heap = {})'
  BY DEF IInv, HeapOwned, QuotaNotLost, Running
<1> QED BY <1>1, <1>2, <1>3, <1>4 DEF IInv

(* The list is not empty when the quota is used up: the scan starts at a    *)
(* block.                                                                   *)
LEMMA StartScanStep ==
  ASSUME IInv, StartScan
  PROVE  IInv'
<1> USE DEF StartScan, listVars, blockVars
<1> DEFINE n == Cardinality(tree)
<1>1. PICK s \in [1..n -> tree] : IsList(s, n)
  BY DEF IInv, ListInv
<1>2. n \in Nat /\ n >= 1
  <2>1. n \in Nat /\ Cardinality(Cursor) \in Nat
    BY FS_CardinalityType, ConstantsAssumption DEF IInv
  <2>2. n >= Quota
    BY <2>1, QuotaAssumption DEF IInv, QuotaNotLost, Running
  <2> QED BY <2>1, <2>2, QuotaAssumption
<1>3. first = s[1] /\ first \in tree
  BY <1>1, <1>2 DEF IsList
<1>4. TypeOK'
  <2>1. leftused' \in BOOLEAN
    OBVIOUS
  <2> QED BY <1>3, <2>1 DEF IInv, TypeOK
<1>5. CallOK' /\ TreeKeyed' /\ CursorsInTree' /\ PinsCounted'
  BY DEF IInv, TypeOK, CallOK, Found, TreeKeyed, CursorsInTree, PinsCounted, PinsOf
<1>6. ListInv'
  <2>1. IsList(s, n)'
    BY <1>1 DEF IsList
  <2>2. ScanAt(s, n)' /\ FreeAt(s, n)'
    BY <1>2, <1>3 DEF ScanAt, FreeAt
  <2>3. tree' = tree
    OBVIOUS
  <2> QED BY <1>1, <2>1, <2>2, <2>3 DEF ListInv
<1>7. HeapOwned' /\ QuotaNotLost' /\ IsFiniteSet(tree)' /\ (pc = "done" => heap = {})'
  BY DEF IInv, HeapOwned, QuotaNotLost, Running
<1> QED BY <1>4, <1>5, <1>6, <1>7 DEF IInv

LEMMA ScanNextStep ==
  ASSUME IInv, ScanNext
  PROVE  IInv'
<1> DEFINE n == Cardinality(tree)
<1>1. /\ pc = "scan" /\ usecounter[cache] > 0 /\ next[cache] # Nil
      /\ cache' = next[cache] /\ UNCHANGED <<pc, who, fulloffset, leftused>>
      /\ UNCHANGED <<heap, tree, listVars, blockVars, usecounter, quotaleft, cursor>>
  <2>1. usecounter[cache] \in Nat /\ cache \in tree /\ next[cache] # Nil
    BY ScanNotAtEnd DEF ScanNext, IInv, TypeOK
  <2> QED BY <2>1 DEF ScanNext, Unused
<1>2. PICK s \in [1..n -> tree] : IsList(s, n) /\ ScanAt(s, n)
  BY DEF IInv, ListInv
<1>3. n \in Nat
  BY FS_CardinalityType DEF IInv
<1>4. PICK k \in 1..n : /\ s[k] = cache
                        /\ \A i \in 1..n : i < k => usecounter[s[i]] > 0
  BY <1>1, <1>2 DEF ScanAt
<1>5. k + 1 \in 1..n /\ cache' = s[k + 1]
  BY <1>1, <1>2, <1>3, <1>4 DEF IsList
<1> USE <1>1 DEF listVars, blockVars
<1>6. TypeOK' /\ CallOK' /\ TreeKeyed' /\ CursorsInTree' /\ PinsCounted'
  BY <1>2, <1>5 DEF IInv, TypeOK, CallOK, Found, TreeKeyed, CursorsInTree, PinsCounted, PinsOf
<1>7. ListInv'
  <2>1. IsList(s, n)'
    BY <1>2 DEF IsList
  <2>2. ScanAt(s, n)' /\ FreeAt(s, n)'
    BY <1>3, <1>4, <1>5 DEF ScanAt, FreeAt
  <2>3. tree' = tree
    OBVIOUS
  <2> QED BY <1>2, <2>1, <2>2, <2>3 DEF ListInv
<1>8. HeapOwned' /\ QuotaNotLost' /\ IsFiniteSet(tree)' /\ (pc = "done" => heap = {})'
  BY DEF IInv, HeapOwned, QuotaNotLost, Running
<1> QED BY <1>6, <1>7, <1>8 DEF IInv

(* Taking element k of the list out of it moves the later ones down by one. *)
LEMMA UnlinkStep ==
  ASSUME IInv, Unlink
  PROVE  IInv'
<1>0. PICK n \in Nat : n = Cardinality(tree)
  BY FS_CardinalityType DEF IInv
<1>1. /\ pc = "scan" /\ pc' = "read" /\ usecounter[cache] = 0
      /\ UNCHANGED <<heap, last, blockVars, usecounter, quotaleft, cursor, callVars>>
      /\ tree' = tree \ {cache}
  BY DEF Unlink, Unused
<1>2. PICK s \in [1..n -> tree] : IsList(s, n) /\ ScanAt(s, n)
  BY <1>0 DEF IInv, ListInv
<1>3. n \in Nat /\ IsFiniteSet(tree) /\ tree \subseteq Block
  BY DEF IInv, TypeOK
<1>4. PICK k \in 1..n : s[k] = cache
  BY <1>1, <1>2 DEF ScanAt
<1>5. cache \in tree /\ cache \in Block /\ next[cache] # Nil /\ k < n
  <2>1. cache \in tree /\ next[cache] # Nil
    BY <1>1, ScanNotAtEnd
  <2> QED BY <2>1, <1>2, <1>3, <1>4 DEF IsList
<1>6. next[cache] = s[k + 1] /\ ppnext[cache] = IF k = 1 THEN Head ELSE s[k - 1]
  BY <1>2, <1>3, <1>4, <1>5 DEF IsList
<1>7. /\ first' = IF k = 1 THEN s[2] ELSE first
      /\ next' = IF k = 1 THEN next ELSE [next EXCEPT ![s[k - 1]] = s[k + 1]]
      /\ ppnext' = [ppnext EXCEPT ![s[k + 1]] = IF k = 1 THEN Head ELSE s[k - 1]]
  <2>1. \A i \in 1..n : s[i] # Head /\ s[i] # Nil
    BY <1>2, <1>3, ConstantsAssumption
  <2>2. LET d == next[cache]
            p == ppnext[cache]
        IN /\ first' = IF p = Head THEN d ELSE first
           /\ next' = IF p = Head THEN next ELSE [next EXCEPT ![p] = d]
           /\ ppnext' = [ppnext EXCEPT ![d] = p]
    BY <1>5 DEF Unlink
  <2>3. CASE k = 1
    BY <1>6, <2>2, <2>3
  <2>4. CASE k # 1
    <3>1. k - 1 \in 1..n
      BY <1>3, <2>4
    <3>2. s[k - 1] # Head
      BY <2>1, <3>1
    <3> QED BY <1>6, <2>2, <2>4, <3>2
  <2> QED BY <2>3, <2>4
<1>8. Cardinality(tree') = n - 1 /\ IsFiniteSet(tree')
  BY <1>0, <1>1, <1>3, <1>5, FS_RemoveElement
<1>9. TypeOK'
  <2>1. leftused' \in BOOLEAN
    BY <1>1 DEF IInv, TypeOK, callVars
  <2>2. /\ first' \in Block \cup {Nil}
        /\ next' \in [Block -> Block \cup {Nil}]
        /\ ppnext' \in [Block -> Block \cup {Nil, Head}]
    <3>1. s[k + 1] \in Block /\ (k # 1 => s[k - 1] \in Block)
      BY <1>2, <1>3, <1>5
    <3>2. k = 1 => s[2] \in Block
      BY <3>1
    <3> QED BY <1>7, <3>1, <3>2 DEF IInv, TypeOK
  <2> QED BY <1>1, <2>1, <2>2 DEF IInv, TypeOK, callVars, blockVars
<1>10. CallOK' /\ TreeKeyed' /\ PinsCounted'
  <2>1. leftused' = leftused /\ who' = who /\ fulloffset' = fulloffset /\ cache' = cache
    BY <1>1 DEF callVars
  <2>2. tree' # {}
    BY <1>3, <1>5, <1>8, FS_EmptySet
  <2> QED BY <1>1, <1>5, <2>1, <2>2 DEF IInv, TypeOK, CallOK, Found, TreeKeyed, PinsCounted,
          PinsOf, blockVars
<1>11. CursorsInTree'
  <2>1. PinsOf(cursor, cache) = {}
    BY <1>1, <1>5, PinsFinite, FS_EmptySet DEF IInv, PinsCounted
  <2> QED BY <1>1, <2>1 DEF IInv, CursorsInTree, PinsOf
<1>12. ListInv'
  <2>0. PICK z : z = [i \in 1..(n - 1) |-> IF i < k THEN s[i] ELSE s[i + 1]]
    OBVIOUS
  <2>1. z \in [1..(n - 1) -> tree']
    BY <2>0, <1>1, <1>2, <1>3, <1>4, <1>5 DEF IsList
  <2>2. ASSUME NEW i \in 1..(n - 1), NEW j \in 1..(n - 1), z[i] = z[j]
        PROVE  i = j
    <3> DEFINE h(m) == IF m < k THEN m ELSE m + 1
    <3>1. h(i) \in 1..n /\ h(j) \in 1..n /\ z[i] = s[h(i)] /\ z[j] = s[h(j)]
      BY <2>0, <1>3
    <3>2. h(i) = h(j)
      <4>1. \A a, c \in 1..n : s[a] = s[c] => a = c
        BY <1>2 DEF IsList
      <4> HIDE DEF h
      <4> QED BY <2>2, <3>1, <4>1
    <3>3. CASE i < k /\ j < k
      BY <3>2, <3>3
    <3>4. CASE i < k /\ ~(j < k)
      BY <1>3, <3>2, <3>4
    <3>5. CASE ~(i < k) /\ j < k
      BY <1>3, <3>2, <3>5
    <3>6. CASE ~(i < k) /\ ~(j < k)
      BY <1>3, <3>2, <3>6
    <3> QED BY <3>3, <3>4, <3>5, <3>6
  <2>3. ASSUME NEW b \in tree' PROVE \E i \in 1..(n - 1) : z[i] = b
    <3>1. PICK j \in 1..n : s[j] = b
      BY <1>1, <1>2 DEF IsList
    <3>2. j # k
      BY <1>1, <1>4, <3>1
    <3>3. CASE j < k
      <4>1. z[j] = b /\ j \in 1..(n - 1)
        BY <2>0, <1>3, <1>5, <3>1, <3>3
      <4> QED BY <4>1
    <3>4. CASE j > k
      <4>1. z[j - 1] = b /\ j - 1 \in 1..(n - 1)
        BY <2>0, <1>3, <1>5, <3>1, <3>4
      <4> QED BY <4>1
    <3> QED BY <1>3, <3>2, <3>3, <3>4
  <2>4. first' = (IF n - 1 = 0 THEN Nil ELSE z[1]) /\ last' = (IF n - 1 = 0 THEN Nil ELSE z[n - 1])
    BY <2>0, <1>1, <1>2, <1>3, <1>4, <1>5, <1>7 DEF IsList
  <2>5. ASSUME NEW i \in 1..(n - 1)
        PROVE  next'[z[i]] = IF i = n - 1 THEN Nil ELSE z[i + 1]
    <3>1. /\ next \in [Block -> Block \cup {Nil}]
          /\ \A j \in 1..n : next[s[j]] = IF j = n THEN Nil ELSE s[j + 1]
          /\ \A j, m \in 1..n : s[j] = s[m] => j = m
          /\ \A j \in 1..n : s[j] \in Block
      BY <1>2, <1>3 DEF IInv, TypeOK, IsList
    <3>2. CASE i < k - 1
      BY <2>0, <1>3, <1>5, <1>7, <3>1, <3>2
    <3>3. CASE i = k - 1
      BY <2>0, <1>3, <1>5, <1>7, <3>1, <3>3
    <3>4. CASE i >= k
      BY <2>0, <1>3, <1>5, <1>7, <3>1, <3>4
    <3> QED BY <1>3, <3>2, <3>3, <3>4
  <2>6. ASSUME NEW i \in 1..(n - 1)
        PROVE  ppnext'[z[i]] = IF i = 1 THEN Head ELSE z[i - 1]
    <3>1. /\ ppnext \in [Block -> Block \cup {Nil, Head}]
          /\ \A j \in 1..n : ppnext[s[j]] = IF j = 1 THEN Head ELSE s[j - 1]
          /\ \A j, m \in 1..n : s[j] = s[m] => j = m
          /\ \A j \in 1..n : s[j] \in Block
      BY <1>2, <1>3 DEF IInv, TypeOK, IsList
    <3>2. CASE i < k
      BY <2>0, <1>3, <1>5, <1>7, <3>1, <3>2
    <3>3. CASE i = k
      BY <2>0, <1>3, <1>5, <1>7, <3>1, <3>3
    <3>4. CASE i > k
      BY <2>0, <1>3, <1>5, <1>7, <3>1, <3>4
    <3> QED BY <1>3, <3>2, <3>3, <3>4
  <2>7. IsList(z, Cardinality(tree))'
    <3> QED BY <1>8, <2>2, <2>3, <2>4, <2>5, <2>6 DEF IsList
  <2>8. ScanAt(z, Cardinality(tree))' /\ FreeAt(z, Cardinality(tree))'
    BY <1>1 DEF ScanAt, FreeAt
  <2> QED BY <1>8, <2>1, <2>7, <2>8 DEF ListInv
<1>13. HeapOwned' /\ (pc = "done" => heap = {})'
  BY <1>1, <1>5 DEF IInv, HeapOwned, Running, callVars
<1>14. QuotaNotLost'
  <2>1. quotaleft' = 0 /\ n >= Quota
    BY <1>0, <1>1 DEF IInv, CallOK, QuotaNotLost, Running
  <2>2. ~leftused'
    BY <1>1 DEF IInv, CallOK, callVars
  <2>3. (IF pc' = "read" /\ ~leftused' THEN 1 ELSE 0) = 1
    BY <1>1, <2>2
  <2> QED BY <1>3, <1>8, <2>1, <2>3, QuotaAssumption DEF QuotaNotLost
<1> QED BY <1>8, <1>9, <1>10, <1>11, <1>12, <1>13, <1>14 DEF IInv

(* A block installed is appended to the list. *)
LEMMA InstallStep ==
  ASSUME IInv, Install
  PROVE  IInv'
<1>0. PICK n \in Nat : n = Cardinality(tree)
  BY FS_CardinalityType DEF IInv
<1>1. /\ pc = "read" /\ pc' = "idle" /\ cache' = Nil /\ who' = Nil /\ fulloffset' = Nil
      /\ data' = [data EXCEPT ![cache] = fulloffset]
      /\ thisblocksoffset' = [thisblocksoffset EXCEPT ![cache] = fulloffset]
      /\ cursor' = [cursor EXCEPT ![who] = cache]
      /\ usecounter' = [usecounter EXCEPT ![cache] = @ + 1]
      /\ tree' = tree \cup {cache} /\ last' = cache /\ heap' = heap
  BY DEF Install, Attach, Append, Return
<1>2. leftused' = FALSE /\ quotaleft' = IF leftused THEN quotaleft - 1 ELSE quotaleft
  BY DEF Install, Attach, Append, Return
<1>3. PICK s \in [1..n -> tree] : IsList(s, n)
  BY <1>0 DEF IInv, ListInv
<1>4. /\ IsFiniteSet(tree) /\ tree \subseteq Block
      /\ cache \in Block /\ cache \notin tree
      /\ who \in Cursor /\ cursor[who] = Nil /\ fulloffset \in Offset
      /\ usecounter[cache] = 0 /\ Found(fulloffset) = {}
      /\ heap = tree \cup {cache}
  BY <1>1 DEF IInv, TypeOK, CallOK, HeapOwned, Running
<1>5. Cardinality(tree') = n + 1 /\ IsFiniteSet(tree')
  BY <1>0, <1>1, <1>4, FS_AddElement
<1>6. /\ first' = IF n = 0 THEN cache ELSE first
      /\ next' \in [Block -> Block \cup {Nil}]
      /\ ppnext' \in [Block -> Block \cup {Nil, Head}]
      /\ next'[cache] = Nil
      /\ n # 0 => next'[s[n]] = cache
      /\ ppnext'[cache] = IF n = 0 THEN Head ELSE s[n]
      /\ \A b \in tree : ppnext'[b] = ppnext[b] /\ (b # last => next'[b] = next[b])
  <2>1. next \in [Block -> Block \cup {Nil}] /\ ppnext \in [Block -> Block \cup {Nil, Head}]
    BY DEF IInv, TypeOK
  <2>2. CASE n = 0
    <3>1. tree = {} /\ last = Nil
      BY <1>0, <1>3, <1>4, <2>2, FS_EmptySet DEF IsList
    <3>2. first' = cache /\ ppnext' = [ppnext EXCEPT ![cache] = Head] /\ next' = next
      BY <3>1 DEF Install, Append
    <3>3. next[cache] = Nil
      BY <1>1, <3>1 DEF IInv, CallOK
    <3> QED BY <1>4, <2>1, <2>2, <3>1, <3>2, <3>3
  <2>3. CASE n # 0
    <3>1. last = s[n] /\ last \in tree /\ last # Nil
      BY <1>3, <1>4, <2>3, ConstantsAssumption DEF IsList
    <3>2. /\ first' = first
          /\ next' = [next EXCEPT ![last] = cache, ![cache] = Nil]
          /\ ppnext' = [ppnext EXCEPT ![cache] = last]
      BY <3>1 DEF Install, Append
    <3> QED BY <1>4, <2>1, <2>3, <3>1, <3>2
  <2> QED BY <2>2, <2>3
<1>7. TypeOK'
  <2>1. leftused' \in BOOLEAN
    BY <1>2
  <2>2. quotaleft' \in Nat
    BY <1>1, <1>2 DEF IInv, TypeOK, CallOK
  <2>3. first' \in Block \cup {Nil}
    BY <1>4, <1>6 DEF IInv, TypeOK
  <2>4. heap' \subseteq Block /\ tree' \subseteq Block
    BY <1>1, <1>4
  <2>5. /\ thisblocksoffset' \in [Block -> Offset \cup {Nil}]
        /\ data' \in [Block -> Offset \cup {Nil}]
        /\ usecounter' \in [Block -> Nat]
        /\ cursor' \in [Cursor -> Block \cup {Nil}]
    BY <1>1, <1>4 DEF IInv, TypeOK
  <2> QED BY <1>1, <1>4, <1>6, <2>1, <2>2, <2>3, <2>4, <2>5 DEF TypeOK
<1>8. CallOK' /\ TreeKeyed' /\ CursorsInTree'
  BY <1>1, <1>4 DEF IInv, TypeOK, CallOK, Found, TreeKeyed, CursorsInTree
<1>9. PinsCounted'
  <2>1. cursor \in [Cursor -> Block \cup {Nil}]
    BY DEF IInv, TypeOK
  <2>2. \A d \in Block : Cardinality(PinsOf(cursor', d)) =
          Cardinality(PinsOf(cursor, d)) + (IF d = cache THEN 1 ELSE 0)
    <3>1. \A d \in Block : Cardinality(PinsOf([cursor EXCEPT ![who] = cache], d)) =
            Cardinality(PinsOf(cursor, d)) + (IF d = cache THEN 1 ELSE 0)
      BY <1>4, <2>1, PinAdded
    <3> QED BY <1>1, <3>1
  <2>3. Cardinality(PinsOf(cursor, cache)) = 0
    <3>1. PinsOf(cursor, cache) = {}
      BY <1>4, ConstantsAssumption DEF IInv, CursorsInTree, PinsOf
    <3> QED BY <3>1, FS_EmptySet
  <2> SUFFICES ASSUME NEW d \in tree'
               PROVE  usecounter'[d] = Cardinality(PinsOf(cursor', d))
    BY DEF PinsCounted, PinsOf
  <2>4. CASE d = cache
    <3>1. usecounter'[d] = 1
      BY <1>1, <1>4, <2>4 DEF IInv, TypeOK
    <3> QED BY <1>4, <2>2, <2>3, <2>4, <3>1
  <2>5. CASE d # cache
    <3>1. d \in tree /\ d \in Block /\ usecounter'[d] = usecounter[d]
      BY <1>1, <1>4, <2>5 DEF IInv, TypeOK
    <3>2. usecounter[d] = Cardinality(PinsOf(cursor, d))
      BY <3>1 DEF IInv, PinsCounted
    <3>3. Cardinality(PinsOf(cursor, d)) \in Nat
      BY PinsFinite
    <3> QED BY <2>2, <2>5, <3>1, <3>2, <3>3
  <2> QED BY <2>4, <2>5
<1>10. ListInv'
  <2>1. PICK z : z = [i \in 1..(n + 1) |-> IF i = n + 1 THEN cache ELSE s[i]]
    OBVIOUS
  <2>2. /\ \A i, j \in 1..n : s[i] = s[j] => i = j
        /\ \A b \in tree : \E i \in 1..n : s[i] = b
        /\ first = (IF n = 0 THEN Nil ELSE s[1]) /\ last = (IF n = 0 THEN Nil ELSE s[n])
        /\ \A i \in 1..n : next[s[i]] = IF i = n THEN Nil ELSE s[i + 1]
        /\ \A i \in 1..n : ppnext[s[i]] = IF i = 1 THEN Head ELSE s[i - 1]
        /\ \A i \in 1..n : s[i] \in tree /\ s[i] # cache
    BY <1>3, <1>4, SMTT(30) DEF IsList
  <2>3. z \in [1..(n + 1) -> tree'] /\ z[n + 1] = cache /\ \A i \in 1..n : z[i] = s[i]
    BY <1>1, <1>3, <2>1
  <2>4. ASSUME NEW i \in 1..(n + 1), NEW j \in 1..(n + 1), z[i] = z[j]
        PROVE  i = j
    <3>1. i = n + 1 \/ i \in 1..n
      OBVIOUS
    <3>2. j = n + 1 \/ j \in 1..n
      OBVIOUS
    <3> QED BY <2>2, <2>3, <2>4, <3>1, <3>2
  <2>5. ASSUME NEW b \in tree' PROVE \E i \in 1..(n + 1) : z[i] = b
    <3>1. CASE b = cache
      <4>1. n + 1 \in 1..(n + 1)
        OBVIOUS
      <4> QED BY <2>3, <3>1, <4>1
    <3>2. CASE b # cache
      <4>1. PICK i \in 1..n : s[i] = b
        BY <1>1, <2>2, <3>2
      <4>2. i \in 1..(n + 1)
        OBVIOUS
      <4> QED BY <2>3, <4>1, <4>2
    <3> QED BY <3>1, <3>2
  <2>6. first' = z[1] /\ last' = z[n + 1]
    BY <1>1, <1>6, <2>2, <2>3
  <2>7. ASSUME NEW i \in 1..(n + 1)
        PROVE  next'[z[i]] = IF i = n + 1 THEN Nil ELSE z[i + 1]
    <3>1. CASE i = n + 1
      BY <1>6, <2>3, <3>1
    <3>2. CASE i = n
      BY <1>6, <2>3, <3>2
    <3>3. CASE i < n
      <4>1. i \in 1..n /\ i + 1 \in 1..n /\ s[i] # last
        BY <2>2, <3>3
      <4> QED BY <1>6, <2>2, <2>3, <3>3, <4>1
    <3> QED BY <3>1, <3>2, <3>3
  <2>8. ASSUME NEW i \in 1..(n + 1)
        PROVE  ppnext'[z[i]] = IF i = 1 THEN Head ELSE z[i - 1]
    <3>1. CASE i = n + 1
      BY <1>6, <2>3, <3>1
    <3>2. CASE i <= n
      <4>1. i \in 1..n /\ (i # 1 => i - 1 \in 1..n)
        BY <3>2
      <4> QED BY <1>6, <2>2, <2>3, <4>1
    <3> QED BY <3>1, <3>2
  <2>9. IsList(z, Cardinality(tree))'
    BY <1>5, <2>4, <2>5, <2>6, <2>7, <2>8 DEF IsList
  <2>10. ScanAt(z, Cardinality(tree))' /\ FreeAt(z, Cardinality(tree))'
    BY <1>1 DEF ScanAt, FreeAt
  <2> QED BY <1>5, <2>3, <2>9, <2>10 DEF ListInv
<1>11. HeapOwned' /\ (pc = "done" => heap = {})'
  BY <1>1, <1>4 DEF HeapOwned
<1>12. QuotaNotLost'
  <2>1. pc' # "read" /\ quotaleft \in Nat /\ Running
    BY <1>1 DEF IInv, TypeOK, Running
  <2>2. CASE leftused
    <3>1. quotaleft + n >= Quota
      BY <1>0, <1>1, <2>1, <2>2 DEF IInv, QuotaNotLost
    <3> QED BY <1>2, <1>5, <2>1, <2>2, <3>1, QuotaAssumption DEF QuotaNotLost
  <2>3. CASE ~leftused
    <3>1. quotaleft + n + 1 >= Quota
      BY <1>0, <1>1, <2>1, <2>3 DEF IInv, QuotaNotLost
    <3> QED BY <1>2, <1>5, <2>1, <2>3, <3>1, QuotaAssumption DEF QuotaNotLost
  <2> QED BY <2>2, <2>3
<1> QED BY <1>5, <1>7, <1>8, <1>9, <1>10, <1>11, <1>12 DEF IInv

LEMMA ReadFailsStep ==
  ASSUME IInv, ReadFails
  PROVE  IInv'
<1>1. /\ pc = "read" /\ pc' = "idle" /\ who' = Nil /\ fulloffset' = Nil /\ cache' = Nil
      /\ quotaleft' = quotaleft + 1 /\ heap' = heap \ {cache}
      /\ next' = [next EXCEPT ![cache] = Nil]
      /\ ppnext' = [ppnext EXCEPT ![cache] = Nil]
      /\ thisblocksoffset' = [thisblocksoffset EXCEPT ![cache] = Nil]
      /\ data' = [data EXCEPT ![cache] = Nil]
      /\ UNCHANGED <<tree, first, last, usecounter, cursor>>
  BY DEF ReadFails, Free, Forget, Return
<1>2. leftused' \in BOOLEAN
  BY DEF ReadFails, Free, Forget, Return
<1>3. cache \in Block /\ cache \notin tree /\ heap' = tree /\ tree \subseteq Block
  BY <1>1 DEF IInv, CallOK, HeapOwned, TypeOK, Running
<1>4. TypeOK'
  BY <1>1, <1>2, <1>3 DEF IInv, TypeOK
<1>5. CallOK' /\ CursorsInTree' /\ PinsCounted'
  BY <1>1 DEF IInv, CallOK, CursorsInTree, PinsCounted, PinsOf
<1>6. TreeKeyed'
  BY <1>1, <1>3 DEF IInv, TypeOK, TreeKeyed
<1>7. ListInv'
  BY <1>1, <1>3, ListKept DEF IInv, TypeOK
<1>8. HeapOwned' /\ IsFiniteSet(tree)' /\ (pc = "done" => heap = {})'
  BY <1>1, <1>3 DEF IInv, HeapOwned
<1>9. QuotaNotLost'
  <2>1. Cardinality(tree) \in Nat /\ quotaleft \in Nat /\ Running
    BY <1>1, FS_CardinalityType DEF IInv, TypeOK, Running
  <2>2. quotaleft + Cardinality(tree) + 1 >= Quota
    <3>1. CASE leftused
      BY <2>1, <3>1, QuotaAssumption DEF IInv, QuotaNotLost
    <3>2. CASE ~leftused
      BY <1>1, <2>1, <3>2, QuotaAssumption DEF IInv, QuotaNotLost
    <3> QED BY <3>1, <3>2
  <2> QED BY <1>1, <2>1, <2>2, QuotaAssumption DEF QuotaNotLost
<1> QED BY <1>4, <1>5, <1>6, <1>7, <1>8, <1>9 DEF IInv

(* The free loop starts with every block of the list ahead of it.           *)
LEMMA StartFreeStep ==
  ASSUME IInv, StartFree
  PROVE  IInv'
<1> USE DEF StartFree, listVars, blockVars
<1>0. PICK n \in Nat : n = Cardinality(tree)
  BY FS_CardinalityType DEF IInv
<1>1. PICK s \in [1..n -> tree] : IsList(s, n)
  BY <1>0 DEF IInv, ListInv
<1>2. heap = tree /\ tree \subseteq Block
  BY DEF IInv, HeapOwned, TypeOK, Running
<1>3. n = 0 => first = Nil /\ heap = {}
  BY <1>0, <1>1, <1>2, FS_EmptySet DEF IInv, IsList
<1>4. n # 0 => first = s[1] /\ first \in tree
  BY <1>1 DEF IsList
<1>5. heap = {s[i] : i \in 1..n}
  BY <1>1, <1>2 DEF IsList
<1>6. TypeOK' /\ CallOK' /\ TreeKeyed' /\ CursorsInTree' /\ PinsCounted'
  <2>1. first \in Block \cup {Nil}
    BY DEF IInv, TypeOK
  <2>2. TypeOK'
    BY <2>1 DEF IInv, TypeOK
  <2> QED BY <2>2 DEF IInv, CallOK, TreeKeyed, CursorsInTree, PinsCounted, PinsOf
<1>7. ListInv'
  <2>1. IsList(s, Cardinality(tree))'
    BY <1>0, <1>1 DEF IsList
  <2>2. ScanAt(s, Cardinality(tree))'
    BY DEF ScanAt
  <2>3. FreeAt(s, Cardinality(tree))'
    <3>1. CASE n = 0
      BY <1>3, <3>1 DEF FreeAt
    <3>2. CASE n # 0
      <4>1. 1 \in 1..n /\ s[1] = cache' /\ heap' = {s[i] : i \in 1..n}
        BY <1>4, <1>5, <3>2
      <4> QED BY <1>0, <4>1 DEF FreeAt
    <3> QED BY <3>1, <3>2
  <2>4. tree' = tree
    OBVIOUS
  <2> QED BY <1>0, <1>1, <2>1, <2>2, <2>3, <2>4 DEF ListInv
<1>8. HeapOwned' /\ QuotaNotLost' /\ IsFiniteSet(tree)' /\ (pc = "done" => heap = {})'
  BY DEF IInv, HeapOwned, QuotaNotLost, Running
<1> QED BY <1>6, <1>7, <1>8 DEF IInv

LEMMA FreeNextStep ==
  ASSUME IInv, FreeNext
  PROVE  IInv'
<1> USE DEF FreeNext, listVars, blockVars
<1>0. PICK n \in Nat : n = Cardinality(tree)
  BY FS_CardinalityType DEF IInv
<1>1. PICK s \in [1..n -> tree] : IsList(s, n) /\ FreeAt(s, n)
  BY <1>0 DEF IInv, ListInv
<1>2. PICK k \in 1..n : s[k] = cache /\ heap = {s[i] : i \in k..n}
  BY <1>1 DEF FreeAt
<1>3. cache \in Block /\ cache' = IF k = n THEN Nil ELSE s[k + 1]
  BY <1>1, <1>2 DEF IsList, IInv, TypeOK
<1>4. heap' = {s[i] : i \in (k + 1)..n}
  <2>1. \A i, j \in 1..n : s[i] = s[j] => i = j
    BY <1>1 DEF IsList
  <2>2. \A i \in k..n : i \in 1..n /\ (i = k \/ i \in (k + 1)..n)
    OBVIOUS
  <2>3. \A i \in (k + 1)..n : i \in k..n /\ i # k /\ i \in 1..n
    OBVIOUS
  <2> QED BY <1>2, <2>1, <2>2, <2>3
<1>5. TypeOK'
  <2>1. cache' \in Block \cup {Nil} /\ heap' \subseteq Block
    BY DEF IInv, TypeOK
  <2> QED BY <2>1 DEF IInv, TypeOK
<1>6. CallOK' /\ TreeKeyed' /\ CursorsInTree' /\ PinsCounted'
  BY DEF IInv, CallOK, TreeKeyed, CursorsInTree, PinsCounted, PinsOf
<1>7. ListInv'
  <2>1. IsList(s, Cardinality(tree))'
    BY <1>0, <1>1 DEF IsList
  <2>2. ScanAt(s, Cardinality(tree))'
    BY DEF ScanAt
  <2>3. FreeAt(s, Cardinality(tree))'
    <3>1. CASE k = n
      <4>1. heap' = {} /\ cache' = Nil
        BY <1>3, <1>4, <3>1
      <4> QED BY <4>1 DEF FreeAt
    <3>2. CASE k # n
      <4>1. k + 1 \in 1..n /\ s[k + 1] = cache'
        BY <1>3, <3>2
      <4> QED BY <1>0, <1>4, <4>1 DEF FreeAt
    <3> QED BY <3>1, <3>2
  <2>4. tree' = tree
    OBVIOUS
  <2> QED BY <1>0, <1>1, <2>1, <2>2, <2>3, <2>4 DEF ListInv
<1>8. HeapOwned' /\ QuotaNotLost' /\ IsFiniteSet(tree)' /\ (pc = "done" => heap = {})'
  BY DEF IInv, HeapOwned, QuotaNotLost, Running
<1> QED BY <1>5, <1>6, <1>7, <1>8 DEF IInv

LEMMA FreeDoneStep ==
  ASSUME IInv, FreeDone
  PROVE  IInv'
<1> USE DEF FreeDone, listVars, blockVars, callVars
<1>1. heap = {}
  <2>1. PICK s \in [1..Cardinality(tree) -> tree] : FreeAt(s, Cardinality(tree))
    BY DEF IInv, ListInv
  <2>2. Nil \notin tree
    BY ConstantsAssumption DEF IInv, TypeOK
  <2> QED BY <2>1, <2>2 DEF FreeAt
<1>2. TypeOK' /\ CallOK' /\ TreeKeyed' /\ CursorsInTree' /\ PinsCounted'
  BY DEF IInv, TypeOK, CallOK, TreeKeyed, CursorsInTree, PinsCounted, PinsOf
<1>3. ListInv'
  BY ListKept DEF IInv
<1>4. HeapOwned' /\ QuotaNotLost' /\ IsFiniteSet(tree)' /\ (pc = "done" => heap = {})'
  BY <1>1 DEF IInv, HeapOwned, QuotaNotLost, Running
<1> QED BY <1>2, <1>3, <1>4 DEF IInv

-----------------------------------------------------------------------------
(* The theorems. *)

LEMMA NextInv == IInv /\ [Next]_vars => IInv'
<1> SUFFICES ASSUME IInv, [Next]_vars PROVE IInv'
  OBVIOUS
<1>1. CASE Client
  <2>1. ASSUME NEW c \in Cursor, CloseCursor(c) PROVE IInv'
    BY <2>1, CloseCursorStep
  <2>2. ASSUME NEW c \in Cursor, AdvanceCursor(c) PROVE IInv'
    BY <2>2, AdvanceCursorStep
  <2>3. ASSUME NEW c \in Cursor, NEW o \in Offset, OpenCursor(c, o) PROVE IInv'
    BY <2>3, OpenCursorStep
  <2> QED BY <1>1, <2>1, <2>2, <2>3, StartFreeStep DEF Client
<1>2. CASE Internal
  BY <1>2, HitStep, AllocateStep, AllocateFailsStep, StartScanStep, ScanNextStep,
     UnlinkStep, InstallStep, ReadFailsStep, FreeNextStep, FreeDoneStep DEF Internal
<1>3. CASE UNCHANGED vars
  <2> USE <1>3 DEF vars, listVars, blockVars, callVars
  <2>1. TypeOK' /\ CallOK' /\ TreeKeyed' /\ CursorsInTree' /\ PinsCounted'
    BY DEF IInv, TypeOK, CallOK, Found, TreeKeyed, CursorsInTree, PinsCounted, PinsOf
  <2>2. ListInv'
    <3>1. PICK s \in [1..Cardinality(tree) -> tree] :
            /\ IsList(s, Cardinality(tree))
            /\ ScanAt(s, Cardinality(tree)) /\ FreeAt(s, Cardinality(tree))
      BY DEF IInv, ListInv
    <3>2. /\ IsList(s, Cardinality(tree))'
          /\ ScanAt(s, Cardinality(tree))' /\ FreeAt(s, Cardinality(tree))'
      BY <3>1 DEF IsList, ScanAt, FreeAt
    <3>3. tree' = tree
      OBVIOUS
    <3> QED BY <3>1, <3>2, <3>3 DEF ListInv
  <2>3. HeapOwned' /\ IsFiniteSet(tree)' /\ (pc = "done" => heap = {})'
    BY DEF IInv, HeapOwned, Running
  <2>4. QuotaNotLost'
    BY DEF IInv, QuotaNotLost, Running
  <2> QED BY <2>1, <2>2, <2>3, <2>4 DEF IInv
<1> QED BY <1>1, <1>2, <1>3 DEF Next

(* IInv holds in every reachable state of the cache, for any set of blocks,
   offsets and cursors, and any quota larger than the number of cursors. *)
THEOREM InvariantHolds == Spec => []IInv
  BY InitInv, NextInv, PTL DEF Spec

(* Every variable keeps its type: a use counter never drops below zero and the
   scan never follows a null pointer. *)
THEOREM TypeCorrect == Spec => []TypeOK
<1>1. IInv => TypeOK
  BY DEF IInv
<1> QED BY <1>1, InvariantHolds, PTL

(* The doubly linked list always enumerates the tree: not resetting .last when a
   block is unlinked is harmless. *)
THEOREM ListWellFormed == Spec => []ListShape
<1>1. IInv => ListShape
  BY DEF IInv, ListInv, ListShape
<1> QED BY <1>1, InvariantHolds, PTL

(* usecounter counts the cursors of a block. *)
THEOREM PinsAreCounted == Spec => []PinsCounted
<1>1. IInv => PinsCounted
  BY DEF IInv
<1> QED BY <1>1, InvariantHolds, PTL

(* A lookup has at most one answer, holding the metablock asked for. *)
THEOREM KeysAreUnique == Spec => []TreeKeyed
<1>1. IInv => TreeKeyed
  BY DEF IInv
<1> QED BY <1>1, InvariantHolds, PTL

(* "Metablock cache limit exceeded" cannot happen, and the last block of the list
   is never the one recycled. *)
THEOREM RecyclingSucceeds == Spec => []ScanSucceeds
<1>1. IInv => ScanSucceeds
  <2> SUFFICES ASSUME IInv, pc = "scan"
               PROVE  \/ usecounter[cache] > 0 /\ next[cache] # Nil
                      \/ usecounter[cache] = 0 /\ cache # last
    BY DEF ScanSucceeds
  <2>1. cache \in tree /\ next[cache] # Nil /\ cache # last
    BY ScanNotAtEnd
  <2>2. usecounter[cache] \in Nat
    BY <2>1 DEF IInv, TypeOK
  <2> QED BY <2>1, <2>2
<1> QED BY <1>1, InvariantHolds, PTL

(* deinit_archive frees every block once. *)
THEOREM EverythingIsFreed == Spec => []AllFreed
<1>1. IInv => AllFreed
  <2> SUFFICES ASSUME IInv, pc = "free", cache # Nil
               PROVE  cache \in heap
    BY DEF AllFreed, IInv
  <2>1. PICK s \in [1..Cardinality(tree) -> tree] : FreeAt(s, Cardinality(tree))
    BY DEF IInv, ListInv
  <2>2. PICK k \in 1..Cardinality(tree) :
          s[k] = cache /\ heap = {s[i] : i \in k..Cardinality(tree)}
    BY <2>1 DEF FreeAt
  <2>3. Cardinality(tree) \in Nat
    BY FS_CardinalityType DEF IInv
  <2>4. k \in k..Cardinality(tree)
    BY <2>3
  <2> QED BY <2>2, <2>4
<1> QED BY <1>1, InvariantHolds, PTL

(* No error path leaks a block or frees one that the tree holds. *)
THEOREM HeapIsOwned == Spec => []HeapOwned
<1>1. IInv => HeapOwned
  BY DEF IInv
<1> QED BY <1>1, InvariantHolds, PTL

(* No error path loses quota. *)
THEOREM QuotaIsKept == Spec => []QuotaNotLost
<1>1. IInv => QuotaNotLost
  BY DEF IInv
<1> QED BY <1>1, InvariantHolds, PTL

-----------------------------------------------------------------------------
(* What one step does to the blocks that cursors are on. *)
LEMMA StepKeepsPinned ==
  ASSUME IInv, Next, Running',
         NEW c \in Cursor, cursor[c] # Nil, cursor'[c] = cursor[c]
  PROVE  cursor[c] \in heap' \cap tree' /\ data'[cursor[c]] = data[cursor[c]]
<1> DEFINE b == cursor[c]
<1> USE DEF listVars, blockVars, callVars, Leave, Forget, Free, Append, Attach
<1>1. Running
  <2>1. CASE ~Running
    BY <2>1 DEF Running, Next, Client, Internal, CloseCursor, AdvanceCursor, OpenCursor,
       StartFree, Hit, Allocate, AllocateFails, StartScan, ScanNext, Unlink, Install,
       ReadFails, FreeNext, FreeDone
  <2> QED BY <2>1
<1>2. b \in tree /\ b \in heap /\ b \in Block /\ usecounter[b] > 0
  <2>1. b \in tree /\ b \in Block
    BY DEF IInv, CursorsInTree, TypeOK
  <2>2. b \in heap
    BY <1>1, <2>1 DEF IInv, HeapOwned
  <2>3. usecounter[b] > 0
    BY <2>1, PinRemoved DEF IInv, PinsCounted, TypeOK
  <2> QED BY <2>1, <2>2, <2>3
<1>3. CASE pc = "read" /\ (Install \/ ReadFails)
  <2>1. b # cache
    BY <1>2, <1>3 DEF IInv, CallOK
  <2> QED BY <1>2, <1>3, <2>1 DEF IInv, TypeOK, Install, ReadFails
<1>4. CASE Allocate
  <2>1. PICK d \in Block \ heap :
          heap' = heap \cup {d} /\ data' = [data EXCEPT ![d] = Nil]
    BY <1>4 DEF Allocate
  <2>2. tree' = tree /\ d # b
    BY <1>2, <1>4 DEF Allocate
  <2> QED BY <1>2, <2>1, <2>2 DEF IInv, TypeOK
<1>5. CASE Unlink
  BY <1>2, <1>5 DEF Unlink, Unused
<1>6. CASE Client \/ Hit \/ AllocateFails \/ StartScan \/ ScanNext \/ FreeDone
  <2>1. UNCHANGED <<heap, tree, data>>
    BY <1>6 DEF Client, CloseCursor, AdvanceCursor, OpenCursor, StartFree, Hit,
       AllocateFails, StartScan, ScanNext, FreeDone
  <2> QED BY <1>2, <2>1
<1>7. CASE FreeNext
  BY <1>1, <1>7 DEF FreeNext, Running
<1> QED BY <1>3, <1>4, <1>5, <1>6, <1>7 DEF Next, Internal, Install, ReadFails

(* A block that a cursor is on is neither refilled, freed nor taken out of the
   tree until the cursor leaves it. *)
THEOREM PinnedBlocksUntouched == Spec => PinnedUntouched
<1>1. IInv /\ [Next]_vars =>
        [\A c \in Cursor :
           Running' /\ cursor[c] # Nil /\ cursor'[c] = cursor[c] =>
             /\ cursor[c] \in heap' \cap tree'
             /\ data'[cursor[c]] = data[cursor[c]]]_vars
  BY StepKeepsPinned
<1> QED BY <1>1, InvariantHolds, PTL DEF Spec, PinnedUntouched

-----------------------------------------------------------------------------
(* The refinement: each step of the cache is a step of BlockCache or leaves *)
(* what BlockCache sees alone.                                              *)

LEMMA RefinesInit == Init => Promise!Init
  BY DEF Init, Promise!Init, View, Resident, Running

(* A step that moves no cursor and changes no block of the tree is not seen. *)
LEMMA Unseen ==
  ASSUME IInv, Running, Running', cursor' = cursor, tree' = tree,
         \A b \in tree : data'[b] = data[b]
  PROVE  UNCHANGED Promise!vars
<1>1. View' = View
  BY DEF IInv, CursorsInTree, View
<1>2. Resident' = Resident
  BY DEF Resident
<1> QED BY <1>1, <1>2 DEF Promise!vars

LEMMA RefinesStep ==
  ASSUME IInv, [Next]_vars
  PROVE  [Promise!Next]_(Promise!vars)
<1> USE DEF listVars, blockVars, callVars, Leave, Forget, Free, Append, Attach
<1>0. /\ \A b \in tree : data[b] \in Offset /\ data[b] = thisblocksoffset[b]
      /\ tree \subseteq Block /\ cursor \in [Cursor -> Block \cup {Nil}]
      /\ data \in [Block -> Offset \cup {Nil}]
      /\ \A c \in Cursor : cursor[c] # Nil => cursor[c] \in tree
      /\ Nil \notin Offset /\ Nil \notin Block
  BY ConstantsAssumption DEF IInv, TreeKeyed, TypeOK, CursorsInTree
<1>1. ASSUME NEW c \in Cursor, CloseCursor(c) \/ AdvanceCursor(c)
      PROVE  Promise!Next
  <2>1. /\ pc = "idle" /\ pc' \in {"idle", "lookup"} /\ cursor[c] # Nil
        /\ cursor' = [cursor EXCEPT ![c] = Nil] /\ tree' = tree /\ data' = data
    BY <1>1 DEF CloseCursor, AdvanceCursor
  <2>2. View[c] # Nil
    BY <1>0, <2>1 DEF View, Running
  <2>3. View' = [View EXCEPT ![c] = Nil] /\ Resident' = Resident
    BY <1>0, <2>1, ZenonT(60) DEF View, Resident, Running
  <2> QED BY <2>2, <2>3 DEF Promise!Next, Promise!Close
<1>2. CASE \E c \in Cursor, o \in Offset : OpenCursor(c, o)
  <2>1. Running /\ Running' /\ cursor' = cursor /\ tree' = tree /\ data' = data
    BY <1>2 DEF OpenCursor, Running
  <2> QED BY <2>1, Unseen
<1>3. CASE StartFree
  <2>1. ~Running'
    BY <1>3 DEF StartFree, Running
  <2>2. View' = [c \in Cursor |-> Nil] /\ Resident' = {}
    BY <2>1 DEF View, Resident
  <2> QED BY <2>2 DEF Promise!Next, Promise!Stop
<1>4. CASE Hit
  <2>1. PICK b \in Found(fulloffset) : cursor' = [cursor EXCEPT ![who] = b]
    BY <1>4 DEF Hit
  <2>2. /\ who \in Cursor /\ cursor[who] = Nil /\ fulloffset \in Offset
        /\ Running /\ Running' /\ tree' = tree /\ data' = data
    BY <1>4 DEF Hit, Return, IInv, CallOK, Running
  <2>3. b \in tree /\ data[b] = fulloffset
    BY <1>0, <2>1 DEF Found
  <2>4. View[who] = Nil /\ View' = [View EXCEPT ![who] = fulloffset]
    BY <1>0, <2>1, <2>2, <2>3 DEF View
  <2>5. Resident' = Resident \cup {fulloffset}
    BY <2>2, <2>3 DEF Resident
  <2> QED BY <2>2, <2>4, <2>5 DEF Promise!Next, Promise!Open
<1>5. CASE Install
  <2>1. /\ who \in Cursor /\ cursor[who] = Nil /\ fulloffset \in Offset
        /\ cache \in Block /\ cache \notin tree
        /\ Running /\ Running' /\ tree' = tree \cup {cache}
        /\ data' = [data EXCEPT ![cache] = fulloffset]
        /\ cursor' = [cursor EXCEPT ![who] = cache]
    BY <1>5 DEF Install, Return, IInv, CallOK, Running
  <2>2. data'[cache] = fulloffset /\ \A b \in tree : data'[b] = data[b]
    BY <1>0, <2>1
  <2>3. View[who] = Nil /\ View' = [View EXCEPT ![who] = fulloffset]
    BY <1>0, <2>1, <2>2 DEF View
  <2>4. Resident' = Resident \cup {fulloffset}
    BY <2>1, <2>2 DEF Resident
  <2> QED BY <2>1, <2>3, <2>4 DEF Promise!Next, Promise!Open
<1>6. CASE Unlink
  <2>1. /\ cache \in tree /\ usecounter[cache] = 0 /\ Running /\ Running'
        /\ tree' = tree \ {cache} /\ data' = data /\ cursor' = cursor
    BY <1>6, ScanNotAtEnd DEF Unlink, Unused, Running
  <2>2. \A c \in Cursor : cursor[c] # cache
    <3>1. PinsOf(cursor, cache) = {}
      BY <2>1, PinsFinite, FS_EmptySet DEF IInv, PinsCounted
    <3> QED BY <3>1 DEF PinsOf
  <2>3. View' = View
    BY <2>1 DEF View
  <2>4. \A b \in tree : data[b] = data[cache] => b = cache
    BY <2>1 DEF IInv, TreeKeyed
  <2>5. Resident' = Resident \ {data[cache]} /\ data[cache] \in Resident
    BY <2>1, <2>4 DEF Resident
  <2>6. \A c \in Cursor : View[c] # data[cache]
    BY <1>0, <2>1, <2>2, <2>4 DEF View
  <2> QED BY <2>3, <2>5, <2>6 DEF Promise!Next, Promise!Evict, Promise!Seen
<1>7. CASE Allocate \/ AllocateFails \/ StartScan \/ ScanNext \/ ReadFails
  <2>1. Running /\ Running' /\ cursor' = cursor /\ tree' = tree
    BY <1>7 DEF Allocate, AllocateFails, StartScan, ScanNext, ReadFails, Return, Running
  <2>2. ASSUME NEW b \in tree PROVE data'[b] = data[b]
    <3>1. CASE Allocate
      BY <1>0, <3>1 DEF Allocate, IInv, HeapOwned, Running
    <3>2. CASE ReadFails
      BY <1>0, <3>2 DEF ReadFails, IInv, CallOK
    <3>3. CASE AllocateFails \/ StartScan \/ ScanNext
      BY <3>3 DEF AllocateFails, StartScan, ScanNext
    <3> QED BY <1>7, <3>1, <3>2, <3>3
  <2> QED BY <2>1, <2>2, Unseen
<1>8. CASE FreeNext \/ FreeDone
  <2>1. ~Running /\ ~Running'
    BY <1>8 DEF FreeNext, FreeDone, Running
  <2> QED BY <2>1 DEF Promise!vars, View, Resident
<1>9. CASE UNCHANGED vars
  <2>1. UNCHANGED <<cursor, tree, data, pc>>
    BY <1>9 DEF vars
  <2> QED BY <2>1 DEF Promise!vars, View, Resident, Running
<1> QED BY <1>1, <1>2, <1>3, <1>4, <1>5, <1>6, <1>7, <1>8, <1>9 DEF Next, Client, Internal

(* The cache implements BlockCache: a cursor sees the metablock of the offset
   it was opened at until it leaves it, and what cursors see stays resident. *)
THEOREM Refinement == Spec => ImplementsBlockCache
  BY RefinesInit, RefinesStep, InvariantHolds, PTL
     DEF Spec, Promise!Spec, ImplementsBlockCache
=============================================================================
