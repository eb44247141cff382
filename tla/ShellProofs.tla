---------------------------- MODULE ShellProofs -----------------------------
(***************************************************************************)
(* Proofs about Shell, for every set of metablocks: the inductive          *)
(* invariant IInv, the properties of the run, and that the commands use    *)
(* the cache as BlockCache with two cursors.                               *)
(***************************************************************************)
EXTENDS Shell, FiniteSetTheorems, TLAPS

Users(o) == {s \in Slot : cursor[s] = o}

(* Where in the program each cursor may be open. *)
CursorInv ==
  /\ cursor["fragment"] # Nil => pc = "fragment"
  /\ cursor["id"] # Nil => pc = "id"
  /\ cursor["inode"] # Nil => pc \in {"load", "fread", "fragment", "tail", "unwind"}
  /\ cursor["dir"] # Nil => pc \notin {"fread", "fragment", "tail", "unwind"}

(* What is held where in main. *)
ReleaseInv ==
  /\ closes \in {0, 1}
  /\ fd /\ pc # "exited" => closes = 0
  /\ ~fd /\ closes = 0 =>
       pc \in {"start", "error", "deinit", "exited"} /\ buffers = "none"
  /\ pc = "exited" /\ fd => closes = 1
  /\ pc = "start" => ~fd /\ closes = 0 /\ buffers = "none"
  /\ pc = "archive" => fd /\ buffers = "none"
  /\ pc \notin {"start", "error", "deinit", "exited"} => fd
  /\ pc \in {"deinit", "exited"} => buffers # "held" /\ resident = {}

IInv == TypeOK /\ UsesCounted /\ CursorInv /\ ReleaseInv

-----------------------------------------------------------------------------
(* The table of the cursors that routines use. *)
LEMMA SlotTable ==
  /\ DOMAIN SlotOf = {"load", "fread", "id", "fragment", "list", "item", "find"}
  /\ SlotOf["load"] = "inode" /\ SlotOf["fread"] = "inode"
  /\ SlotOf["id"] = "id" /\ SlotOf["fragment"] = "fragment"
  /\ SlotOf["list"] = "dir" /\ SlotOf["item"] = "dir" /\ SlotOf["find"] = "dir"
BY DEF SlotOf

(* The cursors on a block are finitely many. *)
LEMMA UsersFinite == ASSUME NEW o PROVE IsFiniteSet(Users(o))
<1>1. IsFiniteSet({}) BY FS_EmptySet
<1>2. IsFiniteSet({} \cup {"dir"}) BY <1>1, FS_AddElement
<1>3. IsFiniteSet(({} \cup {"dir"}) \cup {"inode"}) BY <1>2, FS_AddElement
<1>4. IsFiniteSet((({} \cup {"dir"}) \cup {"inode"}) \cup {"id"}) BY <1>3, FS_AddElement
<1>5. IsFiniteSet(((({} \cup {"dir"}) \cup {"inode"}) \cup {"id"}) \cup {"fragment"})
  BY <1>4, FS_AddElement
<1>6. Slot = ((({} \cup {"dir"}) \cup {"inode"}) \cup {"id"}) \cup {"fragment"} BY DEF Slot
<1>7. IsFiniteSet(Slot) BY <1>5, <1>6
<1>. QED BY <1>7, FS_Subset DEF Users

(* A cursor that is open is counted. *)
LEMMA OpenIsCounted ==
  ASSUME UsesCounted, TypeOK, NEW s \in Slot, cursor[s] # Nil
  PROVE  cursor[s] \in Offset /\ uses[cursor[s]] \in Nat \ {0}
<1>1. cursor[s] \in Offset BY DEF TypeOK
<1>2. uses[cursor[s]] = Cardinality(Users(cursor[s]))
  BY <1>1 DEF UsesCounted, Users
<1>3. s \in Users(cursor[s]) BY DEF Users
<1>4. Cardinality(Users(cursor[s])) # 0
  BY <1>3, UsersFinite, FS_EmptySet
<1>5. uses[cursor[s]] \in Nat BY <1>1 DEF TypeOK
<1>. QED BY <1>1, <1>2, <1>4, <1>5

(* What a step can do to the cache. *)
LEMMA CacheStep ==
  ASSUME TypeOK, [Next]_vars
  PROVE  \/ UNCHANGED cache
         \/ \E s \in Slot : Close(s)
         \/ \E o \in Offset : Open(o)
         \/ \E o \in Offset : Evict(o)
         \/ DeinitArchive
<1>1. CASE UNCHANGED vars BY <1>1 DEF vars
<1>2. CASE Main BY <1>2 DEF Main, OpenReader, OpenArchive, Command, Quit, DeinitReader
<1>3. CASE Routines
  <2>1. CASE Advance \/ LeafReturns
    BY <2>1, SlotTable DEF Advance, LeafReturns, Abandon, Mine, Slot
  <2>2. CASE StartList \/ StartFind \/ FindReturns
    BY <2>2 DEF StartList, StartFind, FindReturns, CloseFind, Slot
  <2>3. CASE ListDone \/ ListItem \/ ItemFails \/ NextId \/ Component
    BY <2>3 DEF ListDone, ListItem, ItemFails, NextId, Component, Slot
  <2>4. CASE FreadReturns \/ FragmentReturns \/ TailReturns
    BY <2>4 DEF FreadReturns, FragmentReturns, TailReturns, Slot
  <2>. QED BY <1>3, <2>1, <2>2, <2>3, <2>4 DEF Routines
<1>. QED BY <1>1, <1>2, <1>3 DEF Next

-----------------------------------------------------------------------------
(* The counters follow the cursors through each of these. *)
CacheOK ==
  /\ cursor \in [Slot -> Offset \cup {Nil}]
  /\ uses \in [Offset -> Nat] /\ resident \subseteq Offset
  /\ UsesCounted

LEMMA CloseCounts ==
  ASSUME TypeOK, UsesCounted, NEW s \in Slot, Close(s)
  PROVE  CacheOK'
<1>. USE DEF TypeOK, Close, Uncount, Clear
<1>1. cursor' \in [Slot -> Offset \cup {Nil}] /\ resident' \subseteq Offset
  OBVIOUS
<1>2. ASSUME NEW o \in Offset
      PROVE  uses'[o] \in Nat /\ uses'[o] = Cardinality(Users(o)')
  <2>1. uses[o] \in Nat /\ uses[o] = Cardinality(Users(o))
    BY DEF UsesCounted, Users
  <2>2. CASE o = cursor[s]
    <3>1. s \in Users(o) /\ Users(o)' = Users(o) \ {s}
      BY <2>2, NilAssumption DEF Users
    <3>2. Cardinality(Users(o)') = Cardinality(Users(o)) - 1
      BY <3>1, UsersFinite, FS_RemoveElement
    <3>3. uses[o] \in Nat \ {0} BY <2>2, OpenIsCounted, NilAssumption
    <3>4. uses'[o] = uses[o] - 1 BY <2>2
    <3>. QED BY <2>1, <3>2, <3>3, <3>4
  <2>3. CASE o # cursor[s]
    <3>1. Users(o)' = Users(o) BY <2>3, NilAssumption DEF Users
    <3>2. uses'[o] = uses[o] BY <2>3
    <3>. QED BY <2>1, <3>1, <3>2
  <2>. QED BY <2>2, <2>3
<1>3. uses' \in [Offset -> Nat] BY <1>2
<1>. QED BY <1>1, <1>2, <1>3 DEF CacheOK, UsesCounted, Users

LEMMA OpenCounts ==
  ASSUME TypeOK, UsesCounted, NEW new \in Offset, Open(new)
  PROVE  CacheOK'
<1>. DEFINE s == Mine
<1>1. s \in Slot /\ cursor[s] = Nil
  BY SlotTable DEF Open, Opening, Mine, Slot
<1>2. cursor' = [cursor EXCEPT ![s] = new] /\ uses' = [uses EXCEPT ![new] = @ + 1]
      /\ resident' = resident \cup {new}
  BY DEF Open
<1>. HIDE DEF s
<1>. USE DEF TypeOK
<1>3. cursor' \in [Slot -> Offset \cup {Nil}] /\ resident' \subseteq Offset
  BY <1>1, <1>2
<1>4. ASSUME NEW o \in Offset
      PROVE  uses'[o] \in Nat /\ uses'[o] = Cardinality(Users(o)')
  <2>1. uses[o] \in Nat /\ uses[o] = Cardinality(Users(o))
    BY DEF UsesCounted, Users
  <2>2. CASE o = new
    <3>1. s \notin Users(o) /\ Users(o)' = Users(o) \cup {s}
      BY <1>1, <1>2, <2>2, NilAssumption DEF Users
    <3>2. Cardinality(Users(o)') = Cardinality(Users(o)) + 1
      BY <3>1, UsersFinite, FS_AddElement
    <3>3. uses'[o] = uses[o] + 1 BY <1>2, <2>2
    <3>. QED BY <2>1, <3>2, <3>3
  <2>3. CASE o # new
    <3>1. Users(o)' = Users(o) BY <1>1, <1>2, <2>3, NilAssumption DEF Users
    <3>2. uses'[o] = uses[o] BY <1>2, <2>3
    <3>. QED BY <2>1, <3>1, <3>2
  <2>. QED BY <2>2, <2>3
<1>5. uses' \in [Offset -> Nat] BY <1>2, <1>4
<1>. QED BY <1>3, <1>4, <1>5 DEF CacheOK, UsesCounted, Users

(* When every block is freed, every cursor is gone. *)
LEMMA DeinitCounts ==
  ASSUME TypeOK, DeinitArchive
  PROVE  CacheOK'
<1>. USE DEF DeinitArchive
<1>1. cursor' \in [Slot -> Offset \cup {Nil}] /\ resident' \subseteq Offset
      /\ uses' \in [Offset -> Nat]
  OBVIOUS
<1>2. ASSUME NEW o \in Offset PROVE uses'[o] = Cardinality(Users(o)')
  <2>1. Users(o)' = {} BY NilAssumption DEF Users
  <2>. QED BY <2>1, FS_EmptySet
<1>. QED BY <1>1, <1>2 DEF CacheOK, UsesCounted, Users

LEMMA CacheInv ==
  ASSUME TypeOK, UsesCounted, [Next]_vars
  PROVE  CacheOK'
<1>1. CASE UNCHANGED cache
  BY <1>1 DEF CacheOK, TypeOK, UsesCounted, cache
<1>2. ASSUME NEW o \in Offset, Evict(o) PROVE CacheOK'
  BY <1>2 DEF Evict, CacheOK, TypeOK, UsesCounted
<1>. QED BY <1>1, <1>2, CacheStep, CloseCounts, OpenCounts, DeinitCounts

-----------------------------------------------------------------------------
(* Where the program goes, what is open there and what main holds. *)
LEMMA InitInv == Init => IInv
<1>1. ASSUME Init, NEW o \in Offset PROVE Cardinality(Users(o)) = 0
  <2>1. Users(o) = {} BY <1>1, NilAssumption DEF Init, Users
  <2>. QED BY <2>1, FS_EmptySet
<1>2. Init => UsesCounted
  <2>1. ASSUME Init, NEW o \in Offset PROVE uses[o] = 0 BY <2>1 DEF Init
  <2>. QED BY <1>1, <2>1 DEF UsesCounted, Users
<1>3. Init => TypeOK
  <2>1. Init => uses \in [Offset -> Nat] /\ cursor \in [Slot -> Offset \cup {Nil}]
    BY DEF Init
  <2>2. Init => fd \in BOOLEAN BY DEF Init
  <2>3. Init => closes \in Nat /\ resident \subseteq Offset BY DEF Init
  <2>. QED BY <2>1, <2>2, <2>3 DEF Init, TypeOK, Place, Returns
<1>4. Init => CursorInv /\ ReleaseInv BY DEF Init, CursorInv, ReleaseInv, Slot
<1>. QED BY <1>2, <1>3, <1>4 DEF IInv

(* The part of TypeOK that is not about the cache. *)
ControlOK ==
  /\ pc \in Place \cup DOMAIN SlotOf
  /\ then \in Returns /\ orelse \in {"prompt", "stepped", "error"}
  /\ cmd \in {"none", "id", "inode", "l", "ls", "s", "cd", "cat"}
  /\ fd \in BOOLEAN /\ closes \in Nat /\ buffers \in {"none", "held", "freed"}

OtherInv == ControlOK /\ CursorInv /\ ReleaseInv

(* Every routine keeps these, and so does main. *)
LEMMA RoutinesKeep ==
  ASSUME IInv, Routines
  PROVE  OtherInv'
<1>. USE SlotTable DEF IInv, OtherInv, ControlOK, TypeOK, CursorInv, ReleaseInv,
         Place, Returns, Goto, Call, control, reader, cache
<1>1. ASSUME NEW o \in Offset, Evict(o) PROVE OtherInv'
  BY <1>1 DEF Evict, Opening, Mine
<1>2. ASSUME NEW o \in Offset, Open(o) PROVE OtherInv'
  BY <1>2 DEF Open, Opening, Mine, Slot
<1>3. CASE Advance
  BY <1>3 DEF Advance, Close, Clear, Mine, Slot
<1>4. CASE LeafReturns
  BY <1>4 DEF LeafReturns, Abandon, Close, Clear, Mine, Slot
<1>5. CASE StartList \/ StartFind
  BY <1>5 DEF StartList, StartFind, Close, Clear, Slot
<1>6. CASE ListDone \/ ItemFails \/ NextId
  BY <1>6 DEF ListDone, ItemFails, NextId, Stepped
<1>7. CASE ListItem
  BY <1>7 DEF ListItem, Stepped, Close, Clear, Slot
<1>8. CASE FindReturns
  BY <1>8 DEF FindReturns, CloseFind, Close, Clear, Slot
<1>9. CASE Component
  BY <1>9 DEF Component
<1>10. CASE FreadReturns
  BY <1>10 DEF FreadReturns, Close, Clear, Slot
<1>11. CASE FragmentReturns
  BY <1>11 DEF FragmentReturns, Close, Clear, Slot
<1>12. CASE TailReturns
  BY <1>12 DEF TailReturns, Close, Clear, Slot
<1>. QED
  BY <1>1, <1>2, <1>3, <1>4, <1>5, <1>6, <1>7, <1>8, <1>9, <1>10, <1>11, <1>12
  DEF Routines

LEMMA MainKeeps ==
  ASSUME IInv, Main
  PROVE  OtherInv'
<1>. USE SlotTable DEF IInv, OtherInv, ControlOK, TypeOK, CursorInv, ReleaseInv,
         Place, Returns, Goto, Call, control, reader, cache
<1>1. CASE OpenReader BY <1>1 DEF OpenReader
<1>2. CASE OpenArchive BY <1>2 DEF OpenArchive
<1>3. ASSUME NEW name \in {"id", "inode", "l", "ls", "s", "cd", "cat"},
             Command(name)
      PROVE OtherInv'
  BY <1>3 DEF Command
<1>4. CASE Quit
  <2>1. fd /\ closes = 0 BY <1>4 DEF Quit
  <2>2. pc' = "error" /\ UNCHANGED <<then, orelse, cmd>> /\ UNCHANGED cache
        /\ UNCHANGED buffers /\ pc = "prompt"
    BY <1>4 DEF Quit
  <2>3. CASE closes' = closes + 1 /\ ForgetFd
    <3>1. closes' = 1 /\ closes' \in Nat BY <2>1, <2>3
    <3>2. fd' = FALSE /\ fd' \in BOOLEAN BY <2>3 DEF ForgetFd
    <3>. QED BY <2>2, <3>1, <3>2
  <2>4. CASE UNCHANGED <<fd, closes>>
    <3>1. closes' = 0 /\ closes' \in Nat BY <2>1, <2>4
    <3>2. fd' = TRUE /\ fd' \in BOOLEAN
      <4>1. fd \in BOOLEAN /\ fd' = fd BY <2>4
      <4>. QED BY <2>1, <4>1
    <3>. QED BY <2>2, <3>1, <3>2
  <2>5. (closes' = closes + 1 /\ ForgetFd) \/ UNCHANGED <<fd, closes>>
    BY <1>4 DEF Quit
  <2>. QED BY <2>3, <2>4, <2>5
<1>5. CASE DeinitArchive BY <1>5 DEF DeinitArchive, Slot
<1>6. CASE DeinitReader BY <1>6 DEF DeinitReader
<1>. QED BY <1>1, <1>2, <1>3, <1>4, <1>5, <1>6 DEF Main

LEMMA NextInv == IInv /\ [Next]_vars => IInv'
<1>. SUFFICES ASSUME IInv, [Next]_vars PROVE IInv' OBVIOUS
<1>1. OtherInv'
  <2>1. CASE UNCHANGED vars
    BY <2>1 DEF vars, control, cache, reader, IInv, OtherInv, ControlOK, TypeOK,
                CursorInv, ReleaseInv
  <2>. QED BY <2>1, RoutinesKeep, MainKeeps DEF Next
<1>2. CacheOK' BY CacheInv DEF IInv
<1>. QED BY <1>1, <1>2 DEF IInv, OtherInv, ControlOK, CacheOK, TypeOK

-----------------------------------------------------------------------------
(* The inductive invariant holds in every state, and with it the invariants
   of the run. *)
THEOREM Invariant == Spec => []IInv
<1>. QED BY InitInv, NextInv, PTL DEF Spec

(* Every variable has a value of its type; no usecounter drops below zero. *)
THEOREM TypeCorrect == Spec => []TypeOK
<1>1. IInv => TypeOK BY DEF IInv
<1>. QED BY <1>1, Invariant, PTL

(* A block is counted once for every cursor on it, whatever commands run and
   however they fail. *)
THEOREM CountersCorrect == Spec => []UsesCounted
<1>1. IInv => UsesCounted BY DEF IInv
<1>. QED BY <1>1, Invariant, PTL

(* The program ends with the descriptor closed once, if there was one, and
   with buffers and blocks freed. *)
THEOREM ReleasedOnce == Spec => []Released
<1>1. IInv => Released BY DEF IInv, TypeOK, ReleaseInv, Released
<1>. QED BY <1>1, Invariant, PTL

-----------------------------------------------------------------------------
(* The refinement. *)

(* Cursors that take turns: at most one of each pair is open. *)
TakeTurns ==
  /\ cursor["dir"] = Nil \/ cursor["fragment"] = Nil
  /\ cursor["inode"] = Nil \/ cursor["id"] = Nil

LEMMA TurnsTaken == CursorInv => TakeTurns
BY DEF CursorInv, TakeTurns

(* Closing an open cursor closes the one of the two that it is seen as. *)
LEMMA CloseRefines ==
  ASSUME TypeOK, TakeTurns, NEW s \in Slot, Close(s)
  PROVE  [Two!Next]_<<View, resident>>
<1>. USE DEF Close, Clear, TypeOK, TakeTurns, View, First
<1>1. CASE cursor[s] = Nil
  <2>1. cursor' = cursor BY <1>1
  <2>. QED BY <2>1
<1>2. CASE s \in {"dir", "fragment"} /\ cursor[s] # Nil
  <2>1. /\ cursor'["dir"] = Nil /\ cursor'["fragment"] = Nil
        /\ cursor["dir"] # Nil \/ cursor["fragment"] # Nil
        /\ cursor'["inode"] = cursor["inode"] /\ cursor'["id"] = cursor["id"]
    BY <1>2 DEF Slot
  <2>2. View[1] # Nil BY <2>1
  <2>3. View' = [View EXCEPT ![1] = Nil] BY <2>1
  <2>. QED BY <2>2, <2>3 DEF Two!Next, Two!Close
<1>3. CASE s \in {"inode", "id"} /\ cursor[s] # Nil
  <2>1. /\ cursor'["inode"] = Nil /\ cursor'["id"] = Nil
        /\ cursor["inode"] # Nil \/ cursor["id"] # Nil
        /\ cursor'["dir"] = cursor["dir"] /\ cursor'["fragment"] = cursor["fragment"]
    BY <1>3 DEF Slot
  <2>2. View[2] # Nil BY <2>1
  <2>3. View' = [View EXCEPT ![2] = Nil]
    <3>1. ASSUME NEW i \in {1, 2}
          PROVE  View'[i] = [View EXCEPT ![2] = Nil][i]
      <4>1. CASE i = 1 BY <2>1, <4>1
      <4>2. CASE i = 2 BY <2>1, <4>2
      <4>. QED BY <4>1, <4>2
    <3>. QED BY <3>1
  <2>. QED BY <2>2, <2>3 DEF Two!Next, Two!Close
<1>. QED BY <1>1, <1>2, <1>3 DEF Slot

(* Opening one opens the one it is seen as, which no other cursor uses. *)
LEMMA OpenRefines ==
  ASSUME TypeOK, TakeTurns', NEW o \in Offset, Open(o)
  PROVE  Two!Next
<1>. DEFINE s == Mine
<1>1. s \in Slot /\ cursor[s] = Nil
  BY SlotTable DEF Open, Opening, Mine, Slot
<1>2. cursor' = [cursor EXCEPT ![s] = o] /\ resident' = resident \cup {o}
  BY DEF Open
<1>. HIDE DEF s
<1>. USE DEF TypeOK, TakeTurns, View, First
<1>3. CASE s \in {"dir", "fragment"}
  <2>1. /\ cursor["dir"] = Nil /\ cursor["fragment"] = Nil
        /\ \/ cursor'["dir"] = o /\ cursor'["fragment"] = Nil
           \/ cursor'["dir"] = Nil /\ cursor'["fragment"] = o
        /\ cursor'["inode"] = cursor["inode"] /\ cursor'["id"] = cursor["id"]
    BY <1>1, <1>2, <1>3, NilAssumption DEF Slot
  <2>2. View[1] = Nil BY <2>1
  <2>3. View' = [View EXCEPT ![1] = o] BY <2>1, NilAssumption
  <2>. QED BY <1>2, <2>2, <2>3 DEF Two!Next, Two!Open
<1>4. CASE s \in {"inode", "id"}
  <2>1. /\ cursor["inode"] = Nil /\ cursor["id"] = Nil
        /\ \/ cursor'["inode"] = o /\ cursor'["id"] = Nil
           \/ cursor'["inode"] = Nil /\ cursor'["id"] = o
        /\ cursor'["dir"] = cursor["dir"] /\ cursor'["fragment"] = cursor["fragment"]
    BY <1>1, <1>2, <1>4, NilAssumption DEF Slot
  <2>2. View[2] = Nil BY <2>1
  <2>3. View' = [View EXCEPT ![2] = o]
    <3>1. ASSUME NEW i \in {1, 2}
          PROVE  View'[i] = [View EXCEPT ![2] = o][i]
      <4>1. CASE i = 1 BY <2>1, <4>1
      <4>2. CASE i = 2 BY <2>1, <4>2, NilAssumption
      <4>. QED BY <4>1, <4>2
    <3>. QED BY <3>1
  <2>. QED BY <1>2, <2>2, <2>3 DEF Two!Next, Two!Open
<1>. QED BY <1>1, <1>3, <1>4 DEF Slot

(* A block whose counter is zero is one that neither of the two sees. *)
LEMMA EvictRefines ==
  ASSUME TypeOK, UsesCounted, NEW o \in Offset, Evict(o)
  PROVE  Two!Next
<1>1. o \in resident /\ uses[o] = 0 /\ resident' = resident \ {o} /\ View' = View
  BY DEF Evict, View, First
<1>2. \A s \in Slot : cursor[s] # o
  BY <1>1, OpenIsCounted, NilAssumption
<1>3. o \notin Two!Seen
  BY <1>2, NilAssumption DEF Two!Seen, View, First, Slot
<1>. QED BY <1>1, <1>3 DEF Two!Next, Two!Evict

LEMMA StepRefines ==
  ASSUME IInv, IInv', [Next]_vars
  PROVE  [Two!Next]_<<View, resident>>
<1>1. CASE UNCHANGED cache BY <1>1 DEF cache, View, First
<1>2. ASSUME NEW s \in Slot, Close(s) PROVE [Two!Next]_<<View, resident>>
  BY <1>2, CloseRefines, TurnsTaken DEF IInv
<1>3. ASSUME NEW o \in Offset, Open(o) PROVE Two!Next
  <2>1. TakeTurns' BY DEF IInv, CursorInv, TakeTurns
  <2>. QED BY <1>3, <2>1, OpenRefines DEF IInv
<1>4. ASSUME NEW o \in Offset, Evict(o) PROVE Two!Next
  BY <1>4, EvictRefines DEF IInv
<1>5. CASE DeinitArchive
  BY <1>5 DEF DeinitArchive, View, First, Slot, Two!Next, Two!Stop
<1>. QED BY <1>1, <1>2, <1>3, <1>4, <1>5, CacheStep DEF IInv

(* Whatever commands run, and however they fail, the program uses the cache
   as BlockCache describes it with two cursors: never more are open. *)
THEOREM TwoCursorsUsed == Spec => UsesTwoCursors
<1>1. Init => Two!Init BY DEF Init, Two!Init, View, First, Slot
<1>2. IInv /\ IInv' /\ [Next]_vars => [Two!Next]_Two!vars
  BY StepRefines DEF Two!vars
<1>. QED BY <1>1, <1>2, Invariant, PTL DEF Spec, UsesTwoCursors, Two!Spec

=============================================================================
