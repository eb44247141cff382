----------------------------- MODULE PathProofs -----------------------------
(***************************************************************************)
(* Proofs about Directory, continued: cd X ends where its path leads, in   *)
(* every archive in which the entries of a directory have different names  *)
(* and for all paths without an empty component.                           *)
(***************************************************************************)
EXTENDS DirectoryProofs, NatSets

(* findentry takes the first entry of the name, which must be the only one
   for the path to lead to one directory. *)
NamesDiffer ==
  \A d \in DOMAIN Listing : \A i, j \in EntriesOf(d) :
    Listing[d][i].name = Listing[d][j].name => i = j

-----------------------------------------------------------------------------
(* f holds the states of a walk along the first n components of p. *)
IsWalk(f, start, p, n) ==
  /\ f[0] = start
  /\ \A i \in 0..n - 1 : f[i + 1] = Follow(f[i], p[i + 1])

LEMMA WalkExists ==
  ASSUME NEW start, NEW p \in Seq(STRING)
  PROVE  \E f : IsWalk(f, start, p, Len(p))
<1>. DEFINE T == {n \in Nat : \E f : IsWalk(f, start, p, n)}
<1>1. 0 \in T
  <2>. DEFINE f == [i \in {0} |-> start]
  <2>1. IsWalk(f, start, p, 0) BY DEF IsWalk
  <2>. QED BY <2>1
<1>2. ASSUME NEW n \in T PROVE n + 1 \in T
  <2>1. PICK f : IsWalk(f, start, p, n) OBVIOUS
  <2>. DEFINE g == [i \in 0..n + 1 |-> IF i = n + 1 THEN Follow(f[n], p[n + 1]) ELSE f[i]]
  <2>2. IsWalk(g, start, p, n + 1) BY <2>1 DEF IsWalk
  <2>. QED BY <2>2
<1>3. T \in SUBSET Nat OBVIOUS
<1>. HIDE DEF T
<1>4. T = Nat BY <1>1, <1>2, <1>3, NatSetInduction
<1>. QED BY <1>4, LenProperties DEF T

(* Walk follows the components one after the other. *)
LEMMA WalkIs ==
  ASSUME NEW start, NEW p \in Seq(STRING)
  PROVE  \E f : IsWalk(f, start, p, Len(p)) /\ Walk(start, p) = f[Len(p)]
<1>. DEFINE Def(f) == [i \in 0..Len(p) |-> IF i = 0 THEN start ELSE Follow(f[i - 1], p[i])]
            walk == CHOOSE f : f = Def(f)
<1>0. Len(p) \in Nat BY LenProperties
<1>1. PICK f : IsWalk(f, start, p, Len(p)) BY WalkExists
<1>2. \E g : g = Def(g)
  <2>. DEFINE g == [i \in 0..Len(p) |-> f[i]]
  <2>1. g = Def(g) BY <1>0, <1>1 DEF IsWalk
  <2>. QED BY <2>1
<1>3. Walk(start, p) = walk[Len(p)] BY Zenon DEF Walk
<1>. HIDE DEF Def
<1>4. walk = Def(walk) BY <1>2
<1>. HIDE DEF walk
<1>5. IsWalk(walk, start, p, Len(p)) BY <1>0, <1>4 DEF Def, IsWalk
<1>. QED BY <1>3, <1>5

LEMMA WalkEmpty ==
  ASSUME NEW start
  PROVE  Walk(start, <<>>) = start
<1>. DEFINE p == <<>>
<1>1. p \in Seq(STRING) /\ Len(p) = 0 BY EmptySeq
<1>. HIDE DEF p
<1>2. PICK f : IsWalk(f, start, p, Len(p)) /\ Walk(start, p) = f[Len(p)]
  BY <1>1, WalkIs, Zenon
<1>3. f[0] = start BY <1>2, Zenon DEF IsWalk
<1>4. f[Len(p)] = f[0] BY <1>1
<1>. QED BY <1>2, <1>3, <1>4, Zenon DEF p

LEMMA WalkStep ==
  ASSUME NEW start, NEW p \in Seq(STRING), p # <<>>
  PROVE  Walk(start, p) = Walk(Follow(start, Head(p)), Tail(p))
<1>1. /\ Tail(p) \in Seq(STRING) /\ Len(p) \in Nat \ {0}
      /\ Len(Tail(p)) = Len(p) - 1 /\ Head(p) = p[1]
      /\ \A i \in 1..Len(Tail(p)) : Tail(p)[i] = p[i + 1]
  BY HeadTailProperties, EmptySeq, LenProperties
<1>2. PICK f : IsWalk(f, start, p, Len(p)) /\ Walk(start, p) = f[Len(p)]
  BY WalkIs
<1>3. PICK g : /\ IsWalk(g, Follow(start, Head(p)), Tail(p), Len(Tail(p)))
               /\ Walk(Follow(start, Head(p)), Tail(p)) = g[Len(Tail(p))]
  BY <1>1, WalkIs
<1>. DEFINE T == {n \in Nat : n <= Len(Tail(p)) => f[n + 1] = g[n]}
<1>4. 0 \in T
  <2>1. f[1] = Follow(f[0], p[1]) /\ f[0] = start BY <1>1, <1>2 DEF IsWalk
  <2>2. g[0] = Follow(start, Head(p)) BY <1>3 DEF IsWalk
  <2>. QED BY <1>1, <2>1, <2>2
<1>5. ASSUME NEW n \in T PROVE n + 1 \in T
  <2>. SUFFICES ASSUME n + 1 <= Len(Tail(p)) PROVE f[n + 1 + 1] = g[n + 1]
    OBVIOUS
  <2>1. n \in Nat /\ n \in 0..Len(Tail(p)) - 1 /\ n + 1 \in 0..Len(p) - 1
        /\ n + 1 \in 1..Len(Tail(p))
    BY <1>1
  <2>2. f[n + 1] = g[n] BY <1>1, <2>1
  <2>3. f[n + 1 + 1] = Follow(f[n + 1], p[n + 1 + 1]) BY <1>2, <2>1 DEF IsWalk
  <2>4. g[n + 1] = Follow(g[n], Tail(p)[n + 1]) BY <1>3, <2>1 DEF IsWalk
  <2>. QED BY <1>1, <2>1, <2>2, <2>3, <2>4
<1>6. T \in SUBSET Nat OBVIOUS
<1>. HIDE DEF T
<1>7. T = Nat BY <1>4, <1>5, <1>6, NatSetInduction
<1>8. f[Len(Tail(p)) + 1] = g[Len(Tail(p))] BY <1>1, <1>7 DEF T
<1>. QED BY <1>1, <1>2, <1>3, <1>8

(* A walk that has stopped stays where it is. *)
LEMMA WalkStopped ==
  ASSUME NEW start, start.stopped, NEW p \in Seq(STRING)
  PROVE  Walk(start, p) = start
<1>0. Len(p) \in Nat BY LenProperties
<1>1. PICK f : IsWalk(f, start, p, Len(p)) /\ Walk(start, p) = f[Len(p)]
  BY WalkIs
<1>. DEFINE T == {n \in Nat : n <= Len(p) => f[n] = start}
<1>2. 0 \in T BY <1>1 DEF IsWalk
<1>3. ASSUME NEW n \in T PROVE n + 1 \in T
  <2>. SUFFICES ASSUME n + 1 <= Len(p) PROVE f[n + 1] = start OBVIOUS
  <2>1. n \in 0..Len(p) - 1 /\ f[n] = start BY <1>0
  <2>2. f[n + 1] = Follow(start, p[n + 1]) BY <1>1, <2>1 DEF IsWalk
  <2>3. Follow(start, p[n + 1]) = start BY Zenon DEF Follow
  <2>. QED BY <2>2, <2>3
<1>4. T \in SUBSET Nat OBVIOUS
<1>. HIDE DEF T
<1>5. Len(p) \in T BY <1>0, <1>2, <1>3, <1>4, NatSetInduction
<1>. QED BY <1>0, <1>1, <1>5 DEF T

-----------------------------------------------------------------------------
(* Where a component leads. *)
At(stack) == [stack |-> stack, stopped |-> FALSE]

LEMMA FollowSame ==
  ASSUME NEW stack
  PROVE  Follow(At(stack), ".") = At(stack)
BY Zenon DEF Follow

LEMMA FollowBack ==
  ASSUME NEW stack
  PROVE  Follow(At(stack), "..") = At(IF stack = <<>> THEN stack ELSE Front(stack))
<1>1. ~At(stack).stopped /\ At(stack).stack = stack BY DEF At
<1>2. ".." # "." OBVIOUS
<1>3. Follow(At(stack), "..") =
        [At(stack) EXCEPT !.stack = IF @ = <<>> THEN @ ELSE Front(@)]
  BY <1>1, <1>2, Zenon DEF Follow
<1>. QED BY <1>3 DEF At

LEMMA FollowStops ==
  ASSUME NEW stack, NEW name \in STRING \ {".", ".."},
         Subdirectory(Top(stack), name) = {}
  PROVE  Follow(At(stack), name) = [stack |-> stack, stopped |-> TRUE]
<1>1. ~At(stack).stopped /\ At(stack).stack = stack BY DEF At
<1>2. Follow(At(stack), name) = [At(stack) EXCEPT !.stopped = TRUE]
  BY <1>1 DEF Follow
<1>. QED BY <1>2 DEF At

LEMMA FollowEnters ==
  ASSUME NEW stack, NEW name \in STRING \ {".", ".."}, NEW d,
         Subdirectory(Top(stack), name) = {d}
  PROVE  Follow(At(stack), name) = At(Append(stack, <<name, d>>))
<1>1. ~At(stack).stopped /\ At(stack).stack = stack BY DEF At
<1>2. (CHOOSE q \in {d} : TRUE) = d OBVIOUS
<1>3. Follow(At(stack), name) = [At(stack) EXCEPT !.stack = Append(@, <<name, d>>)]
  BY <1>1, <1>2 DEF Follow
<1>. QED BY <1>3 DEF At

(* What is left of the path when a component is done. *)
LEMMA ResolveEmpty ==
  ASSUME NEW stack
  PROVE  Resolve(stack, <<>>) = stack
BY WalkEmpty DEF Resolve

LEMMA ResolveStep ==
  ASSUME NEW stack, NEW p \in Seq(STRING), p # <<>>, NEW after,
         Follow(At(stack), Head(p)) = At(after)
  PROVE  Resolve(stack, p) = Resolve(after, Tail(p))
BY WalkStep DEF Resolve, At

LEMMA ResolveStopped ==
  ASSUME NEW stack, NEW p \in Seq(STRING), p # <<>>,
         Follow(At(stack), Head(p)) = [stack |-> stack, stopped |-> TRUE]
  PROVE  Resolve(stack, p) = stack
<1>. DEFINE stop == [stack |-> stack, stopped |-> TRUE]
<1>1. Tail(p) \in Seq(STRING) BY HeadTailProperties
<1>2. stop.stopped /\ stop.stack = stack OBVIOUS
<1>3. Walk(At(stack), p) = Walk(stop, Tail(p)) BY WalkStep
<1>. HIDE DEF stop
<1>4. Walk(stop, Tail(p)) = stop BY <1>1, <1>2, WalkStopped
<1>. QED BY <1>2, <1>3, <1>4 DEF Resolve, At

-----------------------------------------------------------------------------
(* The stack of the pwd. *)
StackItem == STRING \X (Nat \X Nat)

LEMMA StackTyped ==
  ASSUME PwdTyped, Len(pwdname) = depth
  PROVE  /\ Stack \in Seq(StackItem) /\ Len(Stack) = depth /\ depth \in Nat
         /\ \A i \in 1..depth : Stack[i] = <<pwdname[i], dirlist[i]>>
         /\ Stack = <<>> <=> depth = 0
<1>1. depth \in Nat /\ \A i \in 1..depth : i \in 0..MaxDepth
  BY NamesAssumption DEF PwdTyped, NamesAssumption
<1>2. \A i \in 1..depth : pwdname[i] \in STRING /\ dirlist[i] \in Nat \X Nat
  BY <1>1, ElementOfSeq DEF PwdTyped
<1>3. Stack \in [1..depth -> StackItem] BY <1>2 DEF Stack, StackItem
<1>4. Stack \in Seq(StackItem) /\ Len(Stack) = depth BY <1>1, <1>3
<1>5. Stack = <<>> <=> depth = 0 BY <1>4, EmptySeq
<1>. QED BY <1>1, <1>4, <1>5 DEF Stack

LEMMA TopIsPwd ==
  ASSUME PwdTyped, PwdInv, pc # "exited"
  PROVE  Top(Stack) = dirlist[depth]
<1>1. Len(pwdname) = depth /\ dirlist[0] = Root BY DEF PwdInv
<1>2. CASE depth = 0 BY <1>1, <1>2, StackTyped DEF Top
<1>3. CASE depth # 0
  <2>1. depth \in 1..depth BY <1>1, <1>3, StackTyped
  <2>2. Stack # <<>> /\ Last(Stack) = <<pwdname[depth], dirlist[depth]>>
    BY <1>1, <1>3, <2>1, StackTyped DEF Last
  <2>. QED BY <2>2 DEF Top
<1>. QED BY <1>2, <1>3

LEMMA RootStack == depth' = 0 => Stack' = <<>>
BY DEF Stack

LEMMA BackStack ==
  ASSUME TypeOK, PwdInv, pc # "exited", Back
  PROVE  Stack' = IF Stack = <<>> THEN Stack ELSE Front(Stack)
<1>1. Len(pwdname) = depth /\ PwdTyped BY TypeParts DEF PwdInv
<1>2. CASE depth = 0
  BY <1>1, <1>2, StackTyped DEF Back, pwdVars, Stack
<1>3. CASE depth # 0
  <2>1. depth' = depth - 1 /\ pwdname' = Front(pwdname) /\ dirlist' = dirlist
    BY <1>3 DEF Back
  <2>2. \A i \in 1..depth - 1 : pwdname'[i] = pwdname[i]
    BY <1>1, <1>3, <2>1, FrontOfPwd
  <2>3. Stack' = [i \in 1..depth - 1 |-> <<pwdname[i], dirlist[i]>>]
    BY <2>1, <2>2 DEF Stack
  <2>4. Stack # <<>> /\ Stack \in Seq(StackItem) /\ Len(Stack) = depth /\ depth \in Nat
    BY <1>1, <1>3, StackTyped
  <2>5. Front(Stack) = [i \in 1..depth - 1 |-> Stack[i]]
    BY <1>3, <2>4 DEF Front
  <2>6. \A i \in 1..depth - 1 : Stack[i] = <<pwdname[i], dirlist[i]>>
    BY <1>1, <2>4, StackTyped
  <2>. QED BY <2>3, <2>4, <2>5, <2>6
<1>. QED BY <1>2, <1>3

LEMMA EnterStack ==
  ASSUME IInv, NameInv, PwdInv, CdEnter
  PROVE  Stack' = Append(Stack, <<Head(path), EntryPointer'>>)
<1>1. /\ pwdname' = Append(pwdname, Head(path)) /\ depth' = depth + 1
      /\ dirlist' = [dirlist EXCEPT ![depth + 1] = EntryPointer'] /\ pc = "cdfind"
  BY DEF CdEnter
<1>2. PwdTyped /\ path \in Seq(STRING) /\ path # <<>> /\ depth < MaxDepth
  BY <1>1, TypeParts DEF IInv, SearchInv
<1>3. Head(path) \in STRING BY <1>2, PathTail
<1>4. Len(pwdname) = depth BY <1>1 DEF PwdInv
<1>5. /\ Stack \in Seq(StackItem) /\ Len(Stack) = depth /\ depth \in Nat
      /\ \A i \in 1..depth : Stack[i] = <<pwdname[i], dirlist[i]>>
  BY <1>2, <1>4, StackTyped
<1>6. /\ pwdname'[depth + 1] = Head(path)
      /\ \A i \in 1..depth : pwdname'[i] = pwdname[i]
  BY <1>1, <1>2, <1>3, <1>4, AppendProperties DEF PwdTyped
<1>7. /\ dirlist'[depth + 1] = EntryPointer'
      /\ \A i \in 1..depth : dirlist'[i] = dirlist[i]
  <2>1. depth + 1 \in 0..MaxDepth /\ \A i \in 1..depth : i \in 0..MaxDepth
    BY <1>2, <1>5, NamesAssumption DEF NamesAssumption
  <2>. QED BY <1>1, <1>2, <1>5, <2>1 DEF PwdTyped
<1>8. Stack' = [i \in 1..depth + 1 |->
                 IF i = depth + 1 THEN <<Head(path), EntryPointer'>> ELSE Stack[i]]
  <2>1. Stack' = [i \in 1..depth + 1 |-> <<pwdname'[i], dirlist'[i]>>]
    BY <1>1 DEF Stack
  <2>2. \A i \in 1..depth + 1 : i # depth + 1 => i \in 1..depth BY <1>5
  <2>. QED BY <1>5, <1>6, <1>7, <2>1, <2>2
<1>9. Append(Stack, <<Head(path), EntryPointer'>>) =
        [i \in 1..depth + 1 |->
          IF i = depth + 1 THEN <<Head(path), EntryPointer'>> ELSE Stack[i]]
  <2>1. <<Head(path), EntryPointer'>> \in StackItem
    <3>1. EntryPointer' \in Nat \X Nat
      BY FindsEntry, ArchiveAssumption DEF CdEnter, ArchiveAssumption
    <3>. QED BY <1>3, <3>1 DEF StackItem
  <2>. QED BY <1>5, <2>1
<1>. QED BY <1>8, <1>9

(* The search ends with the only subdirectory of the name, or there is none. *)
LEMMA FoundIsOnly ==
  ASSUME NamesDiffer, IInv, NameInv, pc = "cdfind", Finds(Head(path)), UNCHANGED listed
  PROVE  /\ entry'.isdir => Subdirectory(listed, Head(path)) = {EntryPointer'}
         /\ ~entry'.isdir => Subdirectory(listed, Head(path)) = {}
<1>1. /\ pos + 1 \in EntriesOf(listed) /\ listed \in DOMAIN Listing
      /\ entry' = Listing[listed][pos + 1] /\ entry'.name = Head(path)
      /\ EntryPointer' = Target(listed, pos + 1)
  BY FindsEntry
<1>2. \A i \in EntriesOf(listed) : Listing[listed][i].name = Head(path) => i = pos + 1
  BY <1>1 DEF NamesDiffer
<1>. QED BY <1>1, <1>2 DEF Subdirectory

LEMMA MissingIsNone ==
  ASSUME IInv, NameInv, pc = "cdfind", FindsNothing
  PROVE  Subdirectory(listed, Head(path)) = {}
<1>1. pos = Len(Listing[listed]) /\ listed \in DOMAIN Listing
  BY DEF FindsNothing, AtEnd, IInv, TypeOK, IsDir
<1>2. \A i \in EntriesOf(listed) : i \in EntriesUpTo(listed, pos)
  BY <1>1, ListingTyped DEF EntriesUpTo, EntriesOf
<1>. QED BY <1>2 DEF NameInv, Subdirectory

-----------------------------------------------------------------------------
(* What is left of the path leads from the pwd to where it all leads. *)
ResolveInv ==
  /\ pc \in {"idle", "list", "catfind"} => Stack = goal
  /\ pc \in {"chdir", "cdfind"} => Resolve(Stack, path) = goal

(* What does not change the pwd and does not follow a path. *)
LEMMA ResolveQuiet ==
  ASSUME ResolveInv,
         \/ \E next \in {"idle", "list"} : List(next)
         \/ Step \/ ListLoop \/ CdFails \/ Exit \/ CdFind \/ CdFindStep
         \/ \E name \in File : Cat(name)
         \/ CatFindStep \/ CatFile \/ CatMissing
  PROVE  ResolveInv'
<1>1. UNCHANGED <<depth, dirlist, pwdname, goal>>
  BY DEF List, Step, ListLoop, ListStep, CdFails, Exit, CdFind, CdFindStep, Cat,
         CatFindStep, CatFile, CatMissing, pwdVars
<1>2. Stack' = Stack BY <1>1 DEF Stack
<1>3. \/ pc' = "exited"
      \/ pc \in {"idle", "list", "catfind"} /\ pc' \in {"idle", "list", "catfind"}
      \/ pc \in {"chdir", "cdfind"} /\ pc' \in {"chdir", "cdfind"} /\ path' = path
  BY DEF List, Step, ListLoop, ListStep, CdFails, Exit, CdFind, CdFindStep, Cat,
         CatFindStep, CatFile, CatMissing
<1>. QED BY <1>1, <1>2, <1>3 DEF ResolveInv

LEMMA ResolveCd ==
  ASSUME NEW p \in Path, NEW isabsolute \in BOOLEAN, Cd(p, isabsolute)
  PROVE  ResolveInv'
<1>1. path' = p /\ pc' = "chdir"
      /\ goal' = Resolve(IF isabsolute THEN <<>> ELSE Stack, p)
  BY DEF Cd
<1>2. CASE isabsolute
  <2>1. Stack' = <<>> BY <1>2, RootStack DEF Cd, SetRoot
  <2>. QED BY <1>1, <1>2, <2>1 DEF ResolveInv
<1>3. CASE ~isabsolute
  <2>1. Stack' = Stack BY <1>3 DEF Cd, pwdVars, Stack
  <2>. QED BY <1>1, <1>3, <2>1 DEF ResolveInv
<1>. QED BY <1>2, <1>3

LEMMA ResolveFollow ==
  ASSUME NamesDiffer, IInv, NameInv, PwdInv, ResolveInv,
         CdSame \/ CdBack \/ CdEnter
  PROVE  ResolveInv'
<1>1. /\ path \in Seq(STRING) /\ path # <<>> /\ pc \in {"chdir", "cdfind"}
      /\ TypeOK /\ PwdTyped
  BY TypeParts DEF IInv, SearchInv, CdSame, CdBack, CdEnter
<1>2. path' = Tail(path) /\ pc' = "chdir" /\ goal' = goal
  BY EnterPwd DEF CdSame, CdBack, CdEnter
<1>3. Follow(At(Stack), Head(path)) = At(Stack')
  <2>1. CASE CdSame
    <3>1. Head(path) = "." /\ UNCHANGED <<depth, dirlist, pwdname>>
      BY <2>1 DEF CdSame, pwdVars
    <3>2. Stack' = Stack BY <3>1 DEF Stack
    <3>. QED BY <3>1, <3>2, FollowSame
  <2>2. CASE CdBack
    BY <1>1, <2>2, BackStack, FollowBack DEF CdBack
  <2>3. CASE CdEnter
    <3>1. pc = "cdfind" /\ Finds(Head(path)) /\ entry'.isdir /\ listed' = listed
      BY <2>3 DEF CdEnter
    <3>2. Head(path) \in STRING \ {".", ".."}
      BY <1>1, <3>1, PathTail DEF NameInv
    <3>3. Top(Stack) = listed
      BY <1>1, <3>1, TopIsPwd DEF IInv, SearchInv, InodeIsPwd
    <3>4. Subdirectory(Top(Stack), Head(path)) = {EntryPointer'}
      BY <3>1, <3>3, FoundIsOnly
    <3>5. Stack' = Append(Stack, <<Head(path), EntryPointer'>>)
      BY <2>3, EnterStack
    <3>. QED BY <3>2, <3>4, <3>5, FollowEnters
  <2>. QED BY <2>1, <2>2, <2>3
<1>4. Resolve(Stack, path) = Resolve(Stack', Tail(path))
  BY <1>1, <1>3, ResolveStep
<1>. QED BY <1>1, <1>2, <1>4 DEF ResolveInv

LEMMA ResolveStops ==
  ASSUME NamesDiffer, IInv, NameInv, PwdInv, ResolveInv, CdStops \/ CdDone
  PROVE  ResolveInv'
<1>1. /\ pc' = "idle" /\ goal' = goal /\ pc \in {"chdir", "cdfind"}
      /\ UNCHANGED <<depth, dirlist, pwdname, listed>>
  BY DEF CdStops, CdDone, pwdVars
<1>2. Stack' = Stack BY <1>1 DEF Stack
<1>3. Resolve(Stack, path) = Stack
  <2>1. CASE CdDone BY <2>1, ResolveEmpty DEF CdDone
  <2>2. CASE CdStops
    <3>1. pc = "cdfind" /\ ((Finds(Head(path)) /\ ~entry'.isdir) \/ FindsNothing)
      BY <2>2 DEF CdStops
    <3>2. path \in Seq(STRING) /\ path # <<>> /\ PwdTyped
      BY <3>1, TypeParts DEF IInv, SearchInv
    <3>3. Head(path) \in STRING \ {".", ".."}
      BY <3>1, <3>2, PathTail DEF NameInv
    <3>4. Top(Stack) = listed
      BY <3>1, <3>2, TopIsPwd DEF IInv, SearchInv, InodeIsPwd
    <3>5. Subdirectory(Top(Stack), Head(path)) = {}
      BY <1>1, <3>1, <3>4, FoundIsOnly, MissingIsNone
    <3>. QED BY <3>2, <3>3, <3>5, FollowStops, ResolveStopped
  <2>. QED BY <2>1, <2>2
<1>. QED BY <1>1, <1>2, <1>3 DEF ResolveInv

LEMMA ResolveNext ==
  ASSUME NamesDiffer, IInv, NameInv, PwdInv, ResolveInv, [Next]_vars
  PROVE  ResolveInv'
<1>1. CASE CdRoot
  <2>1. pc' = "idle" /\ goal' = <<>> /\ Stack' = <<>>
    BY <1>1, RootStack DEF CdRoot, SetRoot
  <2>. QED BY <2>1 DEF ResolveInv
<1>2. CASE UNCHANGED vars
  <2>1. UNCHANGED <<depth, dirlist, pwdname, pc, path, goal>>
    BY <1>2 DEF vars, pwdVars
  <2>2. Stack' = Stack BY <2>1 DEF Stack
  <2>. QED BY <2>1, <2>2 DEF ResolveInv
<1>. QED BY <1>1, <1>2, ResolveQuiet, ResolveCd, ResolveFollow, ResolveStops
         DEF Next, Command, Loop

LEMMA ResolveInit == Init => ResolveInv
<1>. SUFFICES ASSUME Init PROVE ResolveInv OBVIOUS
<1>1. Stack = <<>> BY DEF Init, Stack
<1>. QED BY <1>1 DEF Init, ResolveInv

(* cd X ends where X leads: through the subdirectories that its components
   name, one up at "..", and as far as there are such directories.  At every
   component on the way, the rest of the path leads there from the pwd. *)
THEOREM CdGoesWhereThePathLeads ==
  ASSUME NoEmptyComponent, NamesDiffer
  PROVE  Spec => []CdResolves
<1>. DEFINE Inv == IInv /\ NameInv /\ PwdInv /\ ResolveInv
<1>1. Init => Inv BY InitIInv, NamesInit, ResolveInit
<1>2. Inv /\ [Next]_vars => Inv' BY NextIInv, NamesNext, ResolveNext
<1>3. Inv => CdResolves BY DEF ResolveInv, CdResolves
<1>. QED BY <1>1, <1>2, <1>3, PTL DEF Spec
=============================================================================
