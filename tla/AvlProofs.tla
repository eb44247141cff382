----------------------------- MODULE AvlProofs ------------------------------
(***************************************************************************)
(* Theorems about AvlTree: whatever is added and removed, the tree is in   *)
(* order and balanced, the search is exact, the functions report how the   *)
(* depth changed, and the tree is the set of keys that the cache takes it  *)
(* for (KeySet).  For every set of keys and every bound on the height.     *)
(*                                                                         *)
(* First what the recursive functions are, then induction over trees, then *)
(* what makes a tree sound, the rotations, a subtree that grew or shrank,  *)
(* and the functions of the code from the inside out.                      *)
(***************************************************************************)
EXTENDS AvlTree, NatSets

-----------------------------------------------------------------------------
(* The trees, level by level. *)
LEMMA TreesAre ==
  /\ Trees[0] = {Nil}
  /\ \A n \in 0..MaxHeight - 1 : Trees[n + 1] = {Nil} \cup Nodes(Trees[n])
<1>. DEFINE Up(S) == {Nil} \cup Nodes(S)
            Is(f, n) == f[0] = {Nil} /\ \A m \in 1..n : f[m] = Up(f[m - 1])
            T == {n \in Nat : \E f : Is(f, n)}
            Def(f) == [n \in 0..MaxHeight |-> IF n = 0 THEN {Nil} ELSE Up(f[n - 1])]
            trees == CHOOSE f : f = Def(f)
<1>0. MaxHeight \in Nat BY TreeAssumption
<1>6. Trees = trees BY Zenon DEF Trees
<1>. HIDE DEF Up
<1>1. 0 \in T
  <2>. DEFINE f == [n \in {0} |-> {Nil}]
  <2>1. Is(f, 0) OBVIOUS
  <2>. QED BY <2>1
<1>2. ASSUME NEW n \in T PROVE n + 1 \in T
  <2>1. PICK f : Is(f, n) OBVIOUS
  <2>. DEFINE g == [m \in 0..n + 1 |-> IF m = n + 1 THEN Up(f[n]) ELSE f[m]]
  <2>2. Is(g, n + 1) BY <2>1
  <2>. HIDE DEF Is, g
  <2>. QED BY <2>2
<1>3. T = Nat
  <2>. HIDE DEF T
  <2>. QED BY <1>1, <1>2, NatSetInduction DEF T
<1>4. PICK f : Is(f, MaxHeight) BY <1>0, <1>3
<1>5. \E g : g = Def(g)
  <2>. DEFINE g == [n \in 0..MaxHeight |-> f[n]]
  <2>1. ASSUME NEW n \in 0..MaxHeight
        PROVE  g[n] = IF n = 0 THEN {Nil} ELSE Up(g[n - 1])
    <3>1. n # 0 => n \in 1..MaxHeight /\ n - 1 \in 0..MaxHeight BY <1>0
    <3>. QED BY <1>4, <3>1
  <2>2. g = [n \in 0..MaxHeight |-> g[n]] OBVIOUS
  <2>. HIDE DEF g
  <2>3. g = Def(g) BY <2>1, <2>2, Zenon
  <2>. QED BY <2>3
<1>. HIDE DEF Def
<1>7. trees = Def(trees) BY <1>5
<1>. HIDE DEF trees
<1>8. ASSUME NEW n \in 0..MaxHeight
      PROVE  trees[n] = IF n = 0 THEN {Nil} ELSE Up(trees[n - 1])
  BY <1>7, Zenon DEF Def
<1>9. ASSUME NEW n \in 0..MaxHeight - 1 PROVE trees[n + 1] = Up(trees[n])
  <2>1. n + 1 \in 1..MaxHeight /\ n + 1 - 1 = n BY <1>0
  <2>2. n + 1 \in 0..MaxHeight /\ n + 1 # 0 BY <1>0
  <2>. QED BY <1>8, <2>1, <2>2
<1>10. trees[0] = {Nil}
  <2>1. 0 \in 0..MaxHeight BY <1>0
  <2>. QED BY <1>8, <2>1
<1>. QED BY <1>6, <1>9, <1>10 DEF Up

(* With more levels there are more trees. *)
LEMMA TreesGrow ==
  ASSUME NEW n \in 0..MaxHeight, NEW m \in 0..n
  PROVE  Trees[m] \subseteq Trees[n]
<1>. DEFINE T == {l \in Nat : l < MaxHeight => Trees[l] \subseteq Trees[l + 1]}
            U == {d \in Nat : m + d <= MaxHeight => Trees[m] \subseteq Trees[m + d]}
<1>0. MaxHeight \in Nat BY TreeAssumption
<1>1. 0 \in T BY <1>0, TreesAre
<1>2. ASSUME NEW l \in T PROVE l + 1 \in T
  <2>. SUFFICES ASSUME l + 1 < MaxHeight PROVE Trees[l + 1] \subseteq Trees[l + 1 + 1]
    OBVIOUS
  <2>1. l \in 0..MaxHeight - 1 /\ l + 1 \in 0..MaxHeight - 1 BY <1>0
  <2>2. Trees[l] \subseteq Trees[l + 1] BY <1>0, <2>1
  <2>3. Nodes(Trees[l]) \subseteq Nodes(Trees[l + 1]) BY <2>2 DEF Nodes
  <2>. QED BY <2>1, <2>3, TreesAre
<1>3. T = Nat
  <2>. HIDE DEF T
  <2>. QED BY <1>1, <1>2, NatSetInduction DEF T
<1>4. 0 \in U OBVIOUS
<1>5. ASSUME NEW d \in U PROVE d + 1 \in U
  <2>. SUFFICES ASSUME m + d + 1 <= MaxHeight PROVE Trees[m] \subseteq Trees[m + d + 1]
    OBVIOUS
  <2>1. m + d \in T BY <1>3
  <2>2. Trees[m + d] \subseteq Trees[m + d + 1] BY <1>0, <2>1
  <2>. QED BY <1>0, <2>2
<1>6. U = Nat
  <2>. HIDE DEF U
  <2>. QED BY <1>4, <1>5, NatSetInduction DEF U
<1>7. n - m \in U BY <1>6
<1>. QED BY <1>0, <1>7

(* The subtrees of a node are trees of one level less. *)
LEMMA Down ==
  ASSUME NEW n \in 0..MaxHeight - 1, NEW t \in Trees[n + 1], t # Nil
  PROVE  t \in Nodes(Trees[n])
BY TreesAre

(* What a tree that is not empty is made of. *)
LEMMA TreeNodes ==
  ASSUME NEW t \in Tree, t # Nil
  PROVE  /\ t \in Nodes(Tree) /\ t = Node(t.key, t.balance, t.left, t.right)
         /\ t.key \in Key /\ t.key \in Int /\ t.balance \in Int
         /\ t.left \in Tree /\ t.right \in Tree
<1>0. MaxHeight \in Nat /\ Trees[0] = {Nil} BY TreeAssumption, TreesAre
<1>1. MaxHeight # 0 BY <1>0 DEF Tree
<1>2. MaxHeight - 1 \in 0..MaxHeight - 1 /\ MaxHeight - 1 + 1 = MaxHeight
  BY <1>0, <1>1
<1>3. t \in Nodes(Trees[MaxHeight - 1]) BY <1>2, Down DEF Tree
<1>4. Trees[MaxHeight - 1] \subseteq Tree BY <1>0, <1>2, TreesGrow DEF Tree
<1>5. t \in Nodes(Tree) BY <1>3, <1>4 DEF Nodes
<1>. HIDE DEF Tree
<1>6. Key \subseteq Int BY TreeAssumption
<1>. QED BY <1>5, <1>6 DEF Nodes, Node

-----------------------------------------------------------------------------
(* The recursive functions of AvlTree do what they say: each is defined level
   by level, from its values at the two subtrees. *)

(* The height of a tree.  T are the levels up to which such a function exists:
   the one for n gives the one for n + 1. *)
LEMMA HeightIs ==
  \A t \in Tree :
    Height[t] = IF t = Nil THEN 0 ELSE 1 + Greater(Height[t.left], Height[t.right])
<1>. DEFINE Body(f, t) == IF t = Nil THEN 0 ELSE 1 + Greater(f[t.left], f[t.right])
            Exists(n) == \E f : \A t \in Trees[n] : f[t] = Body(f, t)
            T == {n \in Nat : n <= MaxHeight => Exists(n)}
            Def(f) == [t \in Tree |-> Body(f, t)]
            fn == CHOOSE f : f = Def(f)
<1>0. MaxHeight \in Nat BY TreeAssumption
<1>1. 0 \in T
  <2>. DEFINE f == [t \in {Nil} |-> 0]
  <2>1. \A t \in Trees[0] : f[t] = Body(f, t) BY TreesAre
  <2>. QED BY <2>1
<1>2. ASSUME NEW n \in T PROVE n + 1 \in T
  <2>1. CASE ~(n + 1 <= MaxHeight)
    <3>. HIDE DEF Exists
    <3>. QED BY <2>1
  <2>2. CASE n + 1 <= MaxHeight
    <3>1. n \in 0..MaxHeight - 1 /\ n <= MaxHeight BY <1>0, <2>2
    <3>2. PICK f : \A t \in Trees[n] : f[t] = Body(f, t) BY <3>1
    <3>. DEFINE g == [t \in Trees[n + 1] |-> Body(f, t)]
    <3>3. ASSUME NEW t \in Trees[n] PROVE g[t] = f[t]
      <4>1. t \in Trees[n + 1] BY <1>0, <3>1, TreesGrow
      <4>. QED BY <3>2, <4>1, Zenon
    <3>4. ASSUME NEW t \in Trees[n + 1] PROVE g[t] = Body(g, t)
      <4>1. t # Nil => t.left \in Trees[n] /\ t.right \in Trees[n]
        BY <3>1, Down DEF Nodes
      <4>2. g[t] = Body(f, t) OBVIOUS
      <4>. HIDE DEF g
      <4>. QED BY <3>3, <4>1, <4>2, Zenon
    <3>5. Exists(n + 1) BY <3>4, Zenon
    <3>. HIDE DEF Exists
    <3>. QED BY <3>5
  <2>. QED BY <2>1, <2>2
<1>3. T = Nat
  <2>. HIDE DEF T
  <2>. QED BY <1>1, <1>2, NatSetInduction DEF T
<1>4. PICK f : \A t \in Tree : f[t] = Body(f, t)
  <2>1. MaxHeight \in T BY <1>0, <1>3, Zenon
  <2>2. Exists(MaxHeight)
    <3>. HIDE DEF Exists
    <3>. QED BY <1>0, <2>1
  <2>. QED BY <2>2, Zenon DEF Tree
<1>5. \E g : g = Def(g)
  <2>. DEFINE g == [t \in Tree |-> f[t]]
  <2>1. ASSUME NEW t \in Tree PROVE Body(g, t) = Body(f, t)
    <3>1. t # Nil => t.left \in Tree /\ t.right \in Tree BY TreeNodes
    <3>. QED BY <3>1, Zenon
  <2>2. g = [t \in Tree |-> Body(g, t)] BY <1>4, <2>1, Zenon
  <2>. HIDE DEF g
  <2>. QED BY <2>2
<1>6. Height = fn BY Zenon DEF Height
<1>. HIDE DEF Def
<1>7. fn = Def(fn) BY <1>5
<1>. HIDE DEF fn
<1>8. \A t \in Tree : fn[t] = Body(fn, t) BY <1>7, Zenon DEF Def
<1>. QED BY <1>6, <1>8, Zenon

(* The nodes of a tree. *)
LEMMA SubtreesIs ==
  \A t \in Tree :
    Subtrees[t] = IF t = Nil THEN {}
                  ELSE {t} \cup Subtrees[t.left] \cup Subtrees[t.right]
<1>. DEFINE Body(f, t) == IF t = Nil THEN {} ELSE {t} \cup f[t.left] \cup f[t.right]
            Exists(n) == \E f : \A t \in Trees[n] : f[t] = Body(f, t)
            T == {n \in Nat : n <= MaxHeight => Exists(n)}
            Def(f) == [t \in Tree |-> Body(f, t)]
            fn == CHOOSE f : f = Def(f)
<1>0. MaxHeight \in Nat BY TreeAssumption
<1>1. 0 \in T
  <2>. DEFINE f == [t \in {Nil} |-> {}]
  <2>1. \A t \in Trees[0] : f[t] = Body(f, t) BY TreesAre
  <2>. QED BY <2>1
<1>2. ASSUME NEW n \in T PROVE n + 1 \in T
  <2>1. CASE ~(n + 1 <= MaxHeight)
    <3>. HIDE DEF Exists
    <3>. QED BY <2>1
  <2>2. CASE n + 1 <= MaxHeight
    <3>1. n \in 0..MaxHeight - 1 /\ n <= MaxHeight BY <1>0, <2>2
    <3>2. PICK f : \A t \in Trees[n] : f[t] = Body(f, t) BY <3>1
    <3>. DEFINE g == [t \in Trees[n + 1] |-> Body(f, t)]
    <3>3. ASSUME NEW t \in Trees[n] PROVE g[t] = f[t]
      <4>1. t \in Trees[n + 1] BY <1>0, <3>1, TreesGrow
      <4>. QED BY <3>2, <4>1, Zenon
    <3>4. ASSUME NEW t \in Trees[n + 1] PROVE g[t] = Body(g, t)
      <4>1. t # Nil => t.left \in Trees[n] /\ t.right \in Trees[n]
        BY <3>1, Down DEF Nodes
      <4>2. g[t] = Body(f, t) OBVIOUS
      <4>. HIDE DEF g
      <4>. QED BY <3>3, <4>1, <4>2, Zenon
    <3>5. Exists(n + 1) BY <3>4, Zenon
    <3>. HIDE DEF Exists
    <3>. QED BY <3>5
  <2>. QED BY <2>1, <2>2
<1>3. T = Nat
  <2>. HIDE DEF T
  <2>. QED BY <1>1, <1>2, NatSetInduction DEF T
<1>4. PICK f : \A t \in Tree : f[t] = Body(f, t)
  <2>1. MaxHeight \in T BY <1>0, <1>3, Zenon
  <2>2. Exists(MaxHeight)
    <3>. HIDE DEF Exists
    <3>. QED BY <1>0, <2>1
  <2>. QED BY <2>2, Zenon DEF Tree
<1>5. \E g : g = Def(g)
  <2>. DEFINE g == [t \in Tree |-> f[t]]
  <2>1. ASSUME NEW t \in Tree PROVE Body(g, t) = Body(f, t)
    <3>1. t # Nil => t.left \in Tree /\ t.right \in Tree BY TreeNodes
    <3>. QED BY <3>1, Zenon
  <2>2. g = [t \in Tree |-> Body(g, t)] BY <1>4, <2>1, Zenon
  <2>. HIDE DEF g
  <2>. QED BY <2>2
<1>6. Subtrees = fn BY Zenon DEF Subtrees
<1>. HIDE DEF Def
<1>7. fn = Def(fn) BY <1>5
<1>. HIDE DEF fn
<1>8. \A t \in Tree : fn[t] = Body(fn, t) BY <1>7, Zenon DEF Def
<1>. QED BY <1>6, <1>8, Zenon

(* find_cache_metablock. *)
LEMMA FindIs ==
  ASSUME NEW k
  PROVE  \A t \in Tree :
           Find(t, k) = IF t = Nil THEN Nil
                        ELSE IF k < t.key THEN Find(t.left, k)
                        ELSE IF k > t.key THEN Find(t.right, k)
                        ELSE t
<1>. DEFINE Body(f, t) == IF t = Nil THEN Nil
                          ELSE IF k < t.key THEN f[t.left]
                          ELSE IF k > t.key THEN f[t.right]
                          ELSE t
            Exists(n) == \E f : \A t \in Trees[n] : f[t] = Body(f, t)
            T == {n \in Nat : n <= MaxHeight => Exists(n)}
            Def(f) == [t \in Tree |-> Body(f, t)]
            fn == CHOOSE f : f = Def(f)
<1>0. MaxHeight \in Nat BY TreeAssumption
<1>1. 0 \in T
  <2>. DEFINE f == [t \in {Nil} |-> Nil]
  <2>1. \A t \in Trees[0] : f[t] = Body(f, t) BY TreesAre
  <2>. QED BY <2>1
<1>2. ASSUME NEW n \in T PROVE n + 1 \in T
  <2>1. CASE ~(n + 1 <= MaxHeight)
    <3>. HIDE DEF Exists
    <3>. QED BY <2>1
  <2>2. CASE n + 1 <= MaxHeight
    <3>1. n \in 0..MaxHeight - 1 /\ n <= MaxHeight BY <1>0, <2>2
    <3>2. PICK f : \A t \in Trees[n] : f[t] = Body(f, t) BY <3>1
    <3>. DEFINE g == [t \in Trees[n + 1] |-> Body(f, t)]
    <3>3. ASSUME NEW t \in Trees[n] PROVE g[t] = f[t]
      <4>1. t \in Trees[n + 1] BY <1>0, <3>1, TreesGrow
      <4>. QED BY <3>2, <4>1, Zenon
    <3>4. ASSUME NEW t \in Trees[n + 1] PROVE g[t] = Body(g, t)
      <4>1. t # Nil => t.left \in Trees[n] /\ t.right \in Trees[n]
        BY <3>1, Down DEF Nodes
      <4>2. g[t] = Body(f, t) OBVIOUS
      <4>. HIDE DEF g
      <4>. QED BY <3>3, <4>1, <4>2, Zenon
    <3>5. Exists(n + 1) BY <3>4, Zenon
    <3>. HIDE DEF Exists
    <3>. QED BY <3>5
  <2>. QED BY <2>1, <2>2
<1>3. T = Nat
  <2>. HIDE DEF T
  <2>. QED BY <1>1, <1>2, NatSetInduction DEF T
<1>4. PICK f : \A t \in Tree : f[t] = Body(f, t)
  <2>1. MaxHeight \in T BY <1>0, <1>3, Zenon
  <2>2. Exists(MaxHeight)
    <3>. HIDE DEF Exists
    <3>. QED BY <1>0, <2>1
  <2>. QED BY <2>2, Zenon DEF Tree
<1>5. \E g : g = Def(g)
  <2>. DEFINE g == [t \in Tree |-> f[t]]
  <2>1. ASSUME NEW t \in Tree PROVE Body(g, t) = Body(f, t)
    <3>1. t # Nil => t.left \in Tree /\ t.right \in Tree BY TreeNodes
    <3>. QED BY <3>1, Zenon
  <2>2. g = [t \in Tree |-> Body(g, t)] BY <1>4, <2>1, Zenon
  <2>. HIDE DEF g
  <2>. QED BY <2>2
<1>6. \A t : Find(t, k) = fn[t] BY Zenon DEF Find
<1>. HIDE DEF Def
<1>7. fn = Def(fn) BY <1>5
<1>. HIDE DEF fn
<1>8. \A t \in Tree : fn[t] = Body(fn, t) BY <1>7, Zenon DEF Def
<1>. QED BY <1>6, <1>8, Zenon

(* addnode. *)
LEMMA AddNodeIs ==
  ASSUME NEW k
  PROVE  \A t \in Tree :
           AddNode(t, k) = IF t = Nil THEN Result(Node(k, 0, Nil, Nil), 1)
                           ELSE IF k < t.key THEN AddedLeft(t, AddNode(t.left, k))
                           ELSE AddedRight(t, AddNode(t.right, k))
<1>. DEFINE Body(f, t) == IF t = Nil THEN Result(Node(k, 0, Nil, Nil), 1)
                          ELSE IF k < t.key THEN AddedLeft(t, f[t.left])
                          ELSE AddedRight(t, f[t.right])
            Exists(n) == \E f : \A t \in Trees[n] : f[t] = Body(f, t)
            T == {n \in Nat : n <= MaxHeight => Exists(n)}
            Def(f) == [t \in Tree |-> Body(f, t)]
            fn == CHOOSE f : f = Def(f)
<1>0. MaxHeight \in Nat BY TreeAssumption
<1>1. 0 \in T
  <2>. DEFINE f == [t \in {Nil} |-> Result(Node(k, 0, Nil, Nil), 1)]
  <2>1. \A t \in Trees[0] : f[t] = Body(f, t) BY TreesAre
  <2>. QED BY <2>1
<1>2. ASSUME NEW n \in T PROVE n + 1 \in T
  <2>1. CASE ~(n + 1 <= MaxHeight)
    <3>. HIDE DEF Exists
    <3>. QED BY <2>1
  <2>2. CASE n + 1 <= MaxHeight
    <3>1. n \in 0..MaxHeight - 1 /\ n <= MaxHeight BY <1>0, <2>2
    <3>2. PICK f : \A t \in Trees[n] : f[t] = Body(f, t) BY <3>1
    <3>. DEFINE g == [t \in Trees[n + 1] |-> Body(f, t)]
    <3>3. ASSUME NEW t \in Trees[n] PROVE g[t] = f[t]
      <4>1. t \in Trees[n + 1] BY <1>0, <3>1, TreesGrow
      <4>. QED BY <3>2, <4>1, Zenon
    <3>4. ASSUME NEW t \in Trees[n + 1] PROVE g[t] = Body(g, t)
      <4>1. t # Nil => t.left \in Trees[n] /\ t.right \in Trees[n]
        BY <3>1, Down DEF Nodes
      <4>2. g[t] = Body(f, t) OBVIOUS
      <4>. HIDE DEF g
      <4>. QED BY <3>3, <4>1, <4>2, Zenon
    <3>5. Exists(n + 1) BY <3>4, Zenon
    <3>. HIDE DEF Exists
    <3>. QED BY <3>5
  <2>. QED BY <2>1, <2>2
<1>3. T = Nat
  <2>. HIDE DEF T
  <2>. QED BY <1>1, <1>2, NatSetInduction DEF T
<1>4. PICK f : \A t \in Tree : f[t] = Body(f, t)
  <2>1. MaxHeight \in T BY <1>0, <1>3, Zenon
  <2>2. Exists(MaxHeight)
    <3>. HIDE DEF Exists
    <3>. QED BY <1>0, <2>1
  <2>. QED BY <2>2, Zenon DEF Tree
<1>5. \E g : g = Def(g)
  <2>. DEFINE g == [t \in Tree |-> f[t]]
  <2>1. ASSUME NEW t \in Tree PROVE Body(g, t) = Body(f, t)
    <3>1. t # Nil => t.left \in Tree /\ t.right \in Tree BY TreeNodes
    <3>. QED BY <3>1, Zenon
  <2>2. g = [t \in Tree |-> Body(g, t)] BY <1>4, <2>1, Zenon
  <2>. HIDE DEF g
  <2>. QED BY <2>2
<1>6. \A t : AddNode(t, k) = fn[t] BY Zenon DEF AddNode
<1>. HIDE DEF Def
<1>7. fn = Def(fn) BY <1>5
<1>. HIDE DEF fn
<1>8. \A t \in Tree : fn[t] = Body(fn, t) BY <1>7, Zenon DEF Def
<1>. QED BY <1>6, <1>8, Zenon

(* rmnode. *)
LEMMA RmNodeIs ==
  ASSUME NEW k
  PROVE  \A t \in Tree :
           RmNode(t, k) = IF t = Nil THEN Result(Nil, 0)
                          ELSE IF k = t.key THEN RemoveRoot(t)
                          ELSE IF k < t.key THEN TakenLeft(t, RmNode(t.left, k))
                          ELSE TakenRight(t, RmNode(t.right, k))
<1>. DEFINE Body(f, t) == IF t = Nil THEN Result(Nil, 0)
                          ELSE IF k = t.key THEN RemoveRoot(t)
                          ELSE IF k < t.key THEN TakenLeft(t, f[t.left])
                          ELSE TakenRight(t, f[t.right])
            Exists(n) == \E f : \A t \in Trees[n] : f[t] = Body(f, t)
            T == {n \in Nat : n <= MaxHeight => Exists(n)}
            Def(f) == [t \in Tree |-> Body(f, t)]
            fn == CHOOSE f : f = Def(f)
<1>0. MaxHeight \in Nat BY TreeAssumption
<1>1. 0 \in T
  <2>. DEFINE f == [t \in {Nil} |-> Result(Nil, 0)]
  <2>1. \A t \in Trees[0] : f[t] = Body(f, t) BY TreesAre
  <2>. QED BY <2>1
<1>2. ASSUME NEW n \in T PROVE n + 1 \in T
  <2>1. CASE ~(n + 1 <= MaxHeight)
    <3>. HIDE DEF Exists
    <3>. QED BY <2>1
  <2>2. CASE n + 1 <= MaxHeight
    <3>1. n \in 0..MaxHeight - 1 /\ n <= MaxHeight BY <1>0, <2>2
    <3>2. PICK f : \A t \in Trees[n] : f[t] = Body(f, t) BY <3>1
    <3>. DEFINE g == [t \in Trees[n + 1] |-> Body(f, t)]
    <3>3. ASSUME NEW t \in Trees[n] PROVE g[t] = f[t]
      <4>1. t \in Trees[n + 1] BY <1>0, <3>1, TreesGrow
      <4>. QED BY <3>2, <4>1, Zenon
    <3>4. ASSUME NEW t \in Trees[n + 1] PROVE g[t] = Body(g, t)
      <4>1. t # Nil => t.left \in Trees[n] /\ t.right \in Trees[n]
        BY <3>1, Down DEF Nodes
      <4>2. g[t] = Body(f, t) OBVIOUS
      <4>. HIDE DEF g
      <4>. QED BY <3>3, <4>1, <4>2, Zenon
    <3>5. Exists(n + 1) BY <3>4, Zenon
    <3>. HIDE DEF Exists
    <3>. QED BY <3>5
  <2>. QED BY <2>1, <2>2
<1>3. T = Nat
  <2>. HIDE DEF T
  <2>. QED BY <1>1, <1>2, NatSetInduction DEF T
<1>4. PICK f : \A t \in Tree : f[t] = Body(f, t)
  <2>1. MaxHeight \in T BY <1>0, <1>3, Zenon
  <2>2. Exists(MaxHeight)
    <3>. HIDE DEF Exists
    <3>. QED BY <1>0, <2>1
  <2>. QED BY <2>2, Zenon DEF Tree
<1>5. \E g : g = Def(g)
  <2>. DEFINE g == [t \in Tree |-> f[t]]
  <2>1. ASSUME NEW t \in Tree PROVE Body(g, t) = Body(f, t)
    <3>1. t # Nil => t.left \in Tree /\ t.right \in Tree BY TreeNodes
    <3>. QED BY <3>1, Zenon
  <2>2. g = [t \in Tree |-> Body(g, t)] BY <1>4, <2>1, Zenon
  <2>. HIDE DEF g
  <2>. QED BY <2>2
<1>6. \A t : RmNode(t, k) = fn[t] BY Zenon DEF RmNode
<1>. HIDE DEF Def
<1>7. fn = Def(fn) BY <1>5
<1>. HIDE DEF fn
<1>8. \A t \in Tree : fn[t] = Body(fn, t) BY <1>7, Zenon DEF Def
<1>. QED BY <1>6, <1>8, Zenon

(* extracthighest, which is only called on a tree that is not empty. *)
LEMMA ExtractHighestIs ==
  \A t \in Tree \ {Nil} :
    ExtractHighest[t] =
      IF t.right = Nil
        THEN Extracted(Result(t.left, 1), t.key)
        ELSE Extracted(TakenRight(t, ExtractHighest[t.right]),
                       ExtractHighest[t.right].node)
<1>. DEFINE Body(f, t) == IF t.right = Nil
                            THEN Extracted(Result(t.left, 1), t.key)
                            ELSE Extracted(TakenRight(t, f[t.right]), f[t.right].node)
            Exists(n) == \E f : \A t \in Trees[n] \ {Nil} : f[t] = Body(f, t)
            T == {n \in Nat : n <= MaxHeight => Exists(n)}
            Def(f) == [t \in Tree \ {Nil} |-> Body(f, t)]
            fn == CHOOSE f : f = Def(f)
<1>0. MaxHeight \in Nat BY TreeAssumption
<1>1. 0 \in T
  <2>1. Trees[0] \ {Nil} = {} BY TreesAre
  <2>. QED BY <2>1
<1>2. ASSUME NEW n \in T PROVE n + 1 \in T
  <2>1. CASE ~(n + 1 <= MaxHeight)
    <3>. HIDE DEF Exists
    <3>. QED BY <2>1
  <2>2. CASE n + 1 <= MaxHeight
    <3>1. n \in 0..MaxHeight - 1 /\ n <= MaxHeight BY <1>0, <2>2
    <3>2. PICK f : \A t \in Trees[n] \ {Nil} : f[t] = Body(f, t) BY <3>1
    <3>. DEFINE g == [t \in Trees[n + 1] \ {Nil} |-> Body(f, t)]
    <3>3. ASSUME NEW t \in Trees[n] \ {Nil} PROVE g[t] = f[t]
      <4>1. t \in Trees[n + 1] \ {Nil} BY <1>0, <3>1, TreesGrow
      <4>. QED BY <3>2, <4>1, Zenon
    <3>4. ASSUME NEW t \in Trees[n + 1] \ {Nil} PROVE g[t] = Body(g, t)
      <4>1. t # Nil => t.left \in Trees[n] /\ t.right \in Trees[n]
        BY <3>1, Down DEF Nodes
      <4>2. g[t] = Body(f, t) OBVIOUS
      <4>. HIDE DEF g
      <4>. QED BY <3>3, <4>1, <4>2, Zenon
    <3>5. Exists(n + 1) BY <3>4, Zenon
    <3>. HIDE DEF Exists
    <3>. QED BY <3>5
  <2>. QED BY <2>1, <2>2
<1>3. T = Nat
  <2>. HIDE DEF T
  <2>. QED BY <1>1, <1>2, NatSetInduction DEF T
<1>4. PICK f : \A t \in Tree \ {Nil} : f[t] = Body(f, t)
  <2>1. MaxHeight \in T BY <1>0, <1>3, Zenon
  <2>2. Exists(MaxHeight)
    <3>. HIDE DEF Exists
    <3>. QED BY <1>0, <2>1
  <2>. QED BY <2>2, Zenon DEF Tree
<1>5. \E g : g = Def(g)
  <2>. DEFINE g == [t \in Tree \ {Nil} |-> f[t]]
  <2>1. ASSUME NEW t \in Tree \ {Nil} PROVE Body(g, t) = Body(f, t)
    <3>1. t # Nil => t.left \in Tree /\ t.right \in Tree BY TreeNodes
    <3>. QED BY <3>1, Zenon
  <2>2. g = [t \in Tree \ {Nil} |-> Body(g, t)] BY <1>4, <2>1, Zenon
  <2>. HIDE DEF g
  <2>. QED BY <2>2
<1>6. ExtractHighest = fn BY Zenon DEF ExtractHighest
<1>. HIDE DEF Def
<1>7. fn = Def(fn) BY <1>5
<1>. HIDE DEF fn
<1>8. \A t \in Tree \ {Nil} : fn[t] = Body(fn, t) BY <1>7, Zenon DEF Def
<1>. QED BY <1>6, <1>8, Zenon

(* extractlowest. *)
LEMMA ExtractLowestIs ==
  \A t \in Tree \ {Nil} :
    ExtractLowest[t] =
      IF t.left = Nil
        THEN Extracted(Result(t.right, 1), t.key)
        ELSE Extracted(TakenLeft(t, ExtractLowest[t.left]),
                       ExtractLowest[t.left].node)
<1>. DEFINE Body(f, t) == IF t.left = Nil
                            THEN Extracted(Result(t.right, 1), t.key)
                            ELSE Extracted(TakenLeft(t, f[t.left]), f[t.left].node)
            Exists(n) == \E f : \A t \in Trees[n] \ {Nil} : f[t] = Body(f, t)
            T == {n \in Nat : n <= MaxHeight => Exists(n)}
            Def(f) == [t \in Tree \ {Nil} |-> Body(f, t)]
            fn == CHOOSE f : f = Def(f)
<1>0. MaxHeight \in Nat BY TreeAssumption
<1>1. 0 \in T
  <2>1. Trees[0] \ {Nil} = {} BY TreesAre
  <2>. QED BY <2>1
<1>2. ASSUME NEW n \in T PROVE n + 1 \in T
  <2>1. CASE ~(n + 1 <= MaxHeight)
    <3>. HIDE DEF Exists
    <3>. QED BY <2>1
  <2>2. CASE n + 1 <= MaxHeight
    <3>1. n \in 0..MaxHeight - 1 /\ n <= MaxHeight BY <1>0, <2>2
    <3>2. PICK f : \A t \in Trees[n] \ {Nil} : f[t] = Body(f, t) BY <3>1
    <3>. DEFINE g == [t \in Trees[n + 1] \ {Nil} |-> Body(f, t)]
    <3>3. ASSUME NEW t \in Trees[n] \ {Nil} PROVE g[t] = f[t]
      <4>1. t \in Trees[n + 1] \ {Nil} BY <1>0, <3>1, TreesGrow
      <4>. QED BY <3>2, <4>1, Zenon
    <3>4. ASSUME NEW t \in Trees[n + 1] \ {Nil} PROVE g[t] = Body(g, t)
      <4>1. t # Nil => t.left \in Trees[n] /\ t.right \in Trees[n]
        BY <3>1, Down DEF Nodes
      <4>2. g[t] = Body(f, t) OBVIOUS
      <4>. HIDE DEF g
      <4>. QED BY <3>3, <4>1, <4>2, Zenon
    <3>5. Exists(n + 1) BY <3>4, Zenon
    <3>. HIDE DEF Exists
    <3>. QED BY <3>5
  <2>. QED BY <2>1, <2>2
<1>3. T = Nat
  <2>. HIDE DEF T
  <2>. QED BY <1>1, <1>2, NatSetInduction DEF T
<1>4. PICK f : \A t \in Tree \ {Nil} : f[t] = Body(f, t)
  <2>1. MaxHeight \in T BY <1>0, <1>3, Zenon
  <2>2. Exists(MaxHeight)
    <3>. HIDE DEF Exists
    <3>. QED BY <1>0, <2>1
  <2>. QED BY <2>2, Zenon DEF Tree
<1>5. \E g : g = Def(g)
  <2>. DEFINE g == [t \in Tree \ {Nil} |-> f[t]]
  <2>1. ASSUME NEW t \in Tree \ {Nil} PROVE Body(g, t) = Body(f, t)
    <3>1. t # Nil => t.left \in Tree /\ t.right \in Tree BY TreeNodes
    <3>. QED BY <3>1, Zenon
  <2>2. g = [t \in Tree \ {Nil} |-> Body(g, t)] BY <1>4, <2>1, Zenon
  <2>. HIDE DEF g
  <2>. QED BY <2>2
<1>6. ExtractLowest = fn BY Zenon DEF ExtractLowest
<1>. HIDE DEF Def
<1>7. fn = Def(fn) BY <1>5
<1>. HIDE DEF fn
<1>8. \A t \in Tree \ {Nil} : fn[t] = Body(fn, t) BY <1>7, Zenon DEF Def
<1>. QED BY <1>6, <1>8, Zenon

-----------------------------------------------------------------------------
(* Induction over trees: a set of trees that has the empty tree, and every
   node over two of its members, has all of them. *)
LEMMA TreeInduction ==
  ASSUME NEW S \in SUBSET Tree, Nil \in S,
         \A t \in Tree \ {Nil} : t.left \in S /\ t.right \in S => t \in S
  PROVE  S = Tree
<1>. DEFINE T == {n \in Nat : n <= MaxHeight => Trees[n] \subseteq S}
<1>0. MaxHeight \in Nat BY TreeAssumption
<1>1. 0 \in T BY TreesAre
<1>2. ASSUME NEW n \in T, n + 1 <= MaxHeight PROVE Trees[n + 1] \subseteq S
  <2>1. n \in 0..MaxHeight - 1 /\ Trees[n] \subseteq S BY <1>0, <1>2
  <2>2. SUFFICES ASSUME NEW t \in Trees[n + 1], t # Nil PROVE t \in S OBVIOUS
  <2>3. t.left \in S /\ t.right \in S BY <2>1, <2>2, Down DEF Nodes
  <2>4. t \in Tree BY <1>0, <2>1, TreesGrow DEF Tree
  <2>. QED BY <2>2, <2>3, <2>4
<1>3. T = Nat
  <2>1. \A n \in T : n + 1 \in T BY <1>2
  <2>. HIDE DEF T
  <2>. QED BY <1>1, <2>1, NatSetInduction DEF T
<1>. QED BY <1>0, <1>3 DEF Tree

(* The empty tree is one. *)
LEMMA NilIsTree == Nil \in Tree
BY TreesAre, TreesGrow, TreeAssumption DEF Tree

(* A height counts the levels. *)
LEMMA Heights ==
  /\ Height[Nil] = 0
  /\ \A t \in Tree :
       /\ Height[t] \in Nat
       /\ t # Nil =>
            /\ Height[t] = 1 + Greater(Height[t.left], Height[t.right])
            /\ Height[t] # 0
<1>. DEFINE S == {t \in Tree : Height[t] \in Nat}
<1>1. Height[Nil] = 0 BY HeightIs, NilIsTree
<1>2. Nil \in S BY <1>1, NilIsTree
<1>3. ASSUME NEW t \in Tree \ {Nil}, t.left \in S, t.right \in S PROVE t \in S
  BY <1>3, HeightIs DEF Greater
<1>4. S = Tree
  <2>1. S \in SUBSET Tree OBVIOUS
  <2>. HIDE DEF S
  <2>. QED BY <1>2, <1>3, <2>1, TreeInduction
<1>5. ASSUME NEW t \in Tree, t # Nil
      PROVE  /\ Height[t] = 1 + Greater(Height[t.left], Height[t.right])
             /\ Height[t] # 0
  <2>1. Height[t.left] \in Nat /\ Height[t.right] \in Nat BY <1>4, <1>5, TreeNodes
  <2>. QED BY <1>5, <2>1, HeightIs DEF Greater
<1>. QED BY <1>1, <1>4, <1>5

(* No tree is higher than the bound. *)
LEMMA HeightBound ==
  ASSUME NEW t \in Tree
  PROVE  Height[t] <= MaxHeight
<1>. DEFINE T == {n \in Nat : n <= MaxHeight => \A x \in Trees[n] : Height[x] <= n}
<1>0. MaxHeight \in Nat BY TreeAssumption
<1>1. 0 \in T BY TreesAre, Heights
<1>2. ASSUME NEW n \in T, n + 1 <= MaxHeight, NEW x \in Trees[n + 1]
      PROVE  Height[x] <= n + 1
  <2>1. CASE x = Nil BY <2>1, Heights
  <2>2. CASE x # Nil
    <3>1. n \in 0..MaxHeight - 1 /\ n <= MaxHeight BY <1>0, <1>2
    <3>2. x.left \in Trees[n] /\ x.right \in Trees[n]
      BY <1>2, <2>2, <3>1, Down DEF Nodes
    <3>3. Height[x.left] <= n /\ Height[x.right] <= n BY <3>1, <3>2
    <3>4. x \in Tree BY <1>0, <1>2, <3>1, TreesGrow DEF Tree
    <3>5. /\ Height[x.left] \in Nat /\ Height[x.right] \in Nat
          /\ Height[x] = 1 + Greater(Height[x.left], Height[x.right])
      BY <2>2, <3>4, Heights, TreeNodes
    <3>. QED BY <3>3, <3>5 DEF Greater
  <2>. QED BY <2>1, <2>2
<1>3. T = Nat
  <2>1. \A n \in T : n + 1 \in T BY <1>2
  <2>. HIDE DEF T
  <2>. QED BY <1>1, <2>1, NatSetInduction DEF T
<1>. QED BY <1>0, <1>3 DEF Tree

(* A tree is among those of its height. *)
LEMMA TreeOfHeight ==
  ASSUME NEW n \in 0..MaxHeight, NEW t \in Tree, Height[t] <= n
  PROVE  t \in Trees[n]
<1>. DEFINE S == {x \in Tree : \A m \in 0..MaxHeight : Height[x] <= m => x \in Trees[m]}
<1>0. MaxHeight \in Nat BY TreeAssumption
<1>1. Nil \in S BY <1>0, NilIsTree, TreesAre, TreesGrow
<1>2. ASSUME NEW x \in Tree \ {Nil}, x.left \in S, x.right \in S PROVE x \in S
  <2>1. SUFFICES ASSUME NEW m \in 0..MaxHeight, Height[x] <= m PROVE x \in Trees[m]
    OBVIOUS
  <2>2. /\ Height[x.left] \in Nat /\ Height[x.right] \in Nat /\ Height[x] \in Nat
        /\ Height[x] = 1 + Greater(Height[x.left], Height[x.right])
    BY Heights, TreeNodes
  <2>3. /\ m - 1 \in 0..MaxHeight - 1 /\ m - 1 \in 0..MaxHeight
        /\ Height[x.left] <= m - 1 /\ Height[x.right] <= m - 1
    BY <1>0, <2>1, <2>2 DEF Greater
  <2>4. x.left \in Trees[m - 1] /\ x.right \in Trees[m - 1] BY <1>2, <2>3
  <2>5. x \in Nodes(Tree) BY TreeNodes
  <2>6. x \in Nodes(Trees[m - 1]) BY <2>4, <2>5 DEF Nodes
  <2>7. Trees[m - 1 + 1] = {Nil} \cup Nodes(Trees[m - 1]) BY <2>3, TreesAre
  <2>. QED BY <2>6, <2>7
<1>3. S = Tree
  <2>1. S \in SUBSET Tree OBVIOUS
  <2>. HIDE DEF S
  <2>. QED BY <1>1, <1>2, <2>1, TreeInduction
<1>. QED BY <1>3

(* The keys of a tree. *)
LEMMA ContentsAre ==
  /\ Contents(Nil) = {}
  /\ \A t \in Tree :
       /\ Contents(t) \subseteq Key /\ Contents(t) \subseteq Int
       /\ t # Nil => Contents(t) = {t.key} \cup Contents(t.left) \cup Contents(t.right)
<1>. DEFINE S == {t \in Tree : Contents(t) \subseteq Key}
<1>1. Contents(Nil) = {} BY SubtreesIs, NilIsTree DEF Contents
<1>2. ASSUME NEW t \in Tree, t # Nil
      PROVE  Contents(t) = {t.key} \cup Contents(t.left) \cup Contents(t.right)
  <2>1. Subtrees[t] = {t} \cup Subtrees[t.left] \cup Subtrees[t.right]
    BY <1>2, SubtreesIs
  <2>. QED BY <2>1, Zenon DEF Contents
<1>3. Nil \in S BY <1>1, NilIsTree
<1>4. ASSUME NEW t \in Tree \ {Nil}, t.left \in S, t.right \in S PROVE t \in S
  BY <1>2, <1>4, TreeNodes
<1>5. S = Tree
  <2>1. S \in SUBSET Tree OBVIOUS
  <2>. HIDE DEF S
  <2>. QED BY <1>3, <1>4, <2>1, TreeInduction
<1>6. \A t \in Tree : Contents(t) \subseteq Key BY <1>5
<1>. HIDE DEF S
<1>. QED BY <1>1, <1>2, <1>6, TreeAssumption

(* A node has the parts it is made of. *)
LEMMA NodeParts ==
  ASSUME NEW k, NEW b, NEW l, NEW rt
  PROVE  /\ Node(k, b, l, rt).key = k /\ Node(k, b, l, rt).balance = b
         /\ Node(k, b, l, rt).left = l /\ Node(k, b, l, rt).right = rt
         /\ \A x : /\ [Node(k, b, l, rt) EXCEPT !.left = x] = Node(k, b, x, rt)
                   /\ [Node(k, b, l, rt) EXCEPT !.right = x] = Node(k, b, l, x)
                   /\ [Node(k, b, l, rt) EXCEPT !.balance = x] = Node(k, x, l, rt)
BY DEF Node

(* A node over two trees that are not too high is a tree. *)
LEMMA NodeIsTree ==
  ASSUME NEW k \in Key, NEW b \in -1..1, NEW l \in Tree, NEW rt \in Tree,
         Height[l] < MaxHeight, Height[rt] < MaxHeight
  PROVE  Node(k, b, l, rt) \in Tree \ {Nil}
<1>0. MaxHeight \in Nat /\ Nil \notin Nodes(Tree) BY TreeAssumption
<1>1. Height[l] \in Nat /\ Height[rt] \in Nat BY Heights
<1>2. /\ MaxHeight - 1 \in 0..MaxHeight - 1 /\ MaxHeight - 1 \in 0..MaxHeight
      /\ MaxHeight - 1 + 1 = MaxHeight
      /\ Height[l] <= MaxHeight - 1 /\ Height[rt] <= MaxHeight - 1
  BY <1>0, <1>1
<1>3. l \in Trees[MaxHeight - 1] /\ rt \in Trees[MaxHeight - 1] BY <1>2, TreeOfHeight
<1>4. Node(k, b, l, rt) \in Nodes(Trees[MaxHeight - 1]) BY <1>3 DEF Node, Nodes
<1>5. Trees[MaxHeight - 1 + 1] = {Nil} \cup Nodes(Trees[MaxHeight - 1])
  BY <1>2, TreesAre
<1>6. Node(k, b, l, rt) \in Nodes(Tree) BY DEF Node, Nodes
<1>7. Node(k, b, l, rt) \in Trees[MaxHeight - 1 + 1] BY <1>4, <1>5, Zenon
<1>8. Node(k, b, l, rt) \in Tree BY <1>2, <1>7, Zenon DEF Tree
<1>. QED BY <1>0, <1>6, <1>8, Zenon

-----------------------------------------------------------------------------
(* Sound trees: in order, and balanced as their nodes say. *)
OrderedAt(t) == /\ \A k \in Contents(t.left) : k < t.key
                /\ \A k \in Contents(t.right) : t.key < k
BalancedAt(t) == t.balance = Height[t.left] - Height[t.right] /\ t.balance \in -1..1
Sound(t) == t \in Tree /\ \A s \in Subtrees[t] : OrderedAt(s) /\ BalancedAt(s)

Between(l, k, rt) == /\ \A x \in Contents(l) : x < k
                     /\ \A x \in Contents(rt) : k < x

(* The empty tree is sound. *)
LEMMA NilIsSound == Sound(Nil)
BY NilIsTree, SubtreesIs DEF Sound

(* What a sound tree is made of. *)
LEMMA SoundParts ==
  ASSUME NEW t, Sound(t), t # Nil
  PROVE  /\ Sound(t.left) /\ Sound(t.right) /\ t.key \in Key /\ t.key \in Int
         /\ t = Node(t.key, t.balance, t.left, t.right)
         /\ Between(t.left, t.key, t.right)
         /\ t.balance = Height[t.left] - Height[t.right] /\ t.balance \in -1..1
         /\ Height[t] = 1 + Greater(Height[t.left], Height[t.right])
         /\ Contents(t) = {t.key} \cup Contents(t.left) \cup Contents(t.right)
<1>1. t \in Tree BY DEF Sound
<1>2. Subtrees[t] = {t} \cup Subtrees[t.left] \cup Subtrees[t.right]
  BY <1>1, SubtreesIs
<1>3. Sound(t.left) /\ Sound(t.right) BY <1>1, <1>2, TreeNodes DEF Sound
<1>4. OrderedAt(t) /\ BalancedAt(t) BY <1>2 DEF Sound
<1>5. /\ t.key \in Key /\ t.key \in Int
      /\ t = Node(t.key, t.balance, t.left, t.right)
  BY <1>1, TreeNodes
<1>6. Height[t] = 1 + Greater(Height[t.left], Height[t.right]) BY <1>1, Heights
<1>7. Contents(t) = {t.key} \cup Contents(t.left) \cup Contents(t.right)
  BY <1>1, ContentsAre
<1>. QED BY <1>3, <1>4, <1>5, <1>6, <1>7 DEF OrderedAt, BalancedAt, Between

(* The types of what is said about a sound tree. *)
LEMMA SoundFacts ==
  ASSUME NEW t, Sound(t)
  PROVE  /\ t \in Tree /\ Height[t] \in Nat /\ (t = Nil) = (Height[t] = 0)
         /\ Contents(t) \subseteq Key /\ Contents(t) \subseteq Int
<1>1. t \in Tree BY DEF Sound
<1>. QED BY <1>1, Heights, ContentsAre

(* A node over two sound trees is sound if it stands between them and says
   how they compare. *)
LEMMA SoundNode ==
  ASSUME NEW k \in Key, NEW b, NEW l, NEW rt, Sound(l), Sound(rt),
         Height[l] < MaxHeight, Height[rt] < MaxHeight,
         b = Height[l] - Height[rt], b \in -1..1, Between(l, k, rt)
  PROVE  /\ Sound(Node(k, b, l, rt)) /\ Node(k, b, l, rt) # Nil
         /\ Height[Node(k, b, l, rt)] = 1 + Greater(Height[l], Height[rt])
         /\ Contents(Node(k, b, l, rt)) = {k} \cup Contents(l) \cup Contents(rt)
         /\ Node(k, b, l, rt).balance = b
<1>. DEFINE t == Node(k, b, l, rt)
<1>1. t \in Tree \ {Nil} BY NodeIsTree DEF Sound
<1>2. t.key = k /\ t.balance = b /\ t.left = l /\ t.right = rt BY NodeParts
<1>. HIDE DEF t
<1>3. Subtrees[t] = {t} \cup Subtrees[l] \cup Subtrees[rt] BY <1>1, <1>2, SubtreesIs
<1>4. OrderedAt(t) /\ BalancedAt(t) BY <1>2 DEF OrderedAt, BalancedAt, Between
<1>5. Sound(t) BY <1>1, <1>3, <1>4 DEF Sound
<1>6. Height[t] = 1 + Greater(Height[l], Height[rt]) BY <1>1, <1>2, Heights
<1>7. Contents(t) = {k} \cup Contents(l) \cup Contents(rt) BY <1>1, <1>2, ContentsAre
<1>. QED BY <1>1, <1>2, <1>5, <1>6, <1>7 DEF t

-----------------------------------------------------------------------------
(* The rotations: a subtree that is two levels higher than the other one.
   What comes out is sound, has the same keys, and is as high as the subtree
   was. *)
LEMMA RotateLeftLeft ==
  ASSUME NEW k \in Key, NEW b, NEW l, NEW rt, Sound(l), Sound(rt), l.balance = 1,
         Height[l] = Height[rt] + 2, Height[l] <= MaxHeight, Between(l, k, rt)
  PROVE  LET t == RebalanceLeftLeft(Node(k, b, l, rt))
         IN  /\ Sound(t) /\ Height[t] = Height[l]
             /\ Contents(t) = {k} \cup Contents(l) \cup Contents(rt)
<1>. DEFINE low == Node(k, 0, l.right, rt)
            t == Node(l.key, 0, l.left, low)
<1>0. MaxHeight \in Nat /\ k \in Int BY TreeAssumption
<1>1. RebalanceLeftLeft(Node(k, b, l, rt)) = t
  <2>. DEFINE a == Node(k, b, l, rt)
  <2>1. a.key = k /\ a.left = l /\ a.right = rt BY NodeParts
  <2>. HIDE DEF a
  <2>2. RebalanceLeftLeft(a) = t BY <2>1, Zenon DEF RebalanceLeftLeft
  <2>. QED BY <2>2 DEF a
<1>2. Height[rt] \in Nat /\ l # Nil /\ Contents(rt) \subseteq Int BY SoundFacts
<1>3. /\ Sound(l.left) /\ Sound(l.right) /\ l.key \in Key /\ l.key \in Int
      /\ Between(l.left, l.key, l.right)
      /\ l.balance = Height[l.left] - Height[l.right]
      /\ Height[l] = 1 + Greater(Height[l.left], Height[l.right])
      /\ Contents(l) = {l.key} \cup Contents(l.left) \cup Contents(l.right)
  BY <1>2, SoundParts
<1>4. /\ Height[l.left] \in Nat /\ Height[l.right] \in Nat
      /\ Contents(l.left) \subseteq Int /\ Contents(l.right) \subseteq Int
  BY <1>3, SoundFacts
<1>5. Height[l.left] = Height[rt] + 1 /\ Height[l.right] = Height[rt]
  BY <1>2, <1>3, <1>4 DEF Greater
<1>6. Between(l.right, k, rt) BY <1>3 DEF Between
<1>7. /\ Sound(low) /\ Height[low] = 1 + Greater(Height[l.right], Height[rt])
      /\ Contents(low) = {k} \cup Contents(l.right) \cup Contents(rt)
  BY <1>0, <1>2, <1>3, <1>5, <1>6, SoundNode
<1>. HIDE DEF low
<1>8. Height[low] = Height[rt] + 1 BY <1>2, <1>5, <1>7 DEF Greater
<1>9. Between(l.left, l.key, low)
  <2>1. l.key < k BY <1>3 DEF Between
  <2>2. ASSUME NEW x \in Contents(rt) PROVE l.key < x
    <3>1. k < x BY DEF Between
    <3>. QED BY <1>0, <1>2, <1>3, <2>1, <3>1
  <2>3. \A x \in Contents(low) : l.key < x BY <1>3, <1>7, <2>1, <2>2 DEF Between
  <2>. QED BY <1>3, <2>3 DEF Between
<1>10. /\ Sound(t) /\ Height[t] = 1 + Greater(Height[l.left], Height[low])
       /\ Contents(t) = {l.key} \cup Contents(l.left) \cup Contents(low)
  BY <1>0, <1>2, <1>3, <1>5, <1>7, <1>8, <1>9, SoundNode
<1>11. Height[t] = Height[l] BY <1>2, <1>5, <1>8, <1>10 DEF Greater
<1>12. Contents(t) = {k} \cup Contents(l) \cup Contents(rt) BY <1>3, <1>7, <1>10
<1>. QED BY <1>1, <1>10, <1>11, <1>12

(* rebalanceleftright, when the left subtree leans to the right. *)
LEMMA RotateLeftRight ==
  ASSUME NEW k \in Key, NEW b, NEW l, NEW rt, Sound(l), Sound(rt), l.balance = -1,
         Height[l] = Height[rt] + 2, Height[l] <= MaxHeight, Between(l, k, rt)
  PROVE  LET t == RebalanceLeftRight(Node(k, b, l, rt))
         IN  /\ Sound(t) /\ Height[t] = Height[l]
             /\ Contents(t) = {k} \cup Contents(l) \cup Contents(rt)
<1>. DEFINE g == l.right
            bl == IF g.balance < 0 THEN 1 ELSE 0
            br == IF g.balance > 0 THEN -1 ELSE 0
            ll == Node(l.key, bl, l.left, g.left)
            rr == Node(k, br, g.right, rt)
            t == Node(g.key, 0, ll, rr)
<1>0. MaxHeight \in Nat /\ k \in Int BY TreeAssumption
<1>1. RebalanceLeftRight(Node(k, b, l, rt)) = t
  <2>. DEFINE a == Node(k, b, l, rt)
  <2>1. a.key = k /\ a.left = l /\ a.right = rt BY NodeParts
  <2>. HIDE DEF a
  <2>2. RebalanceLeftRight(a) = t BY <2>1, Zenon DEF RebalanceLeftRight
  <2>. QED BY <2>2 DEF a
<1>2. Height[rt] \in Nat /\ l # Nil /\ Contents(rt) \subseteq Int BY SoundFacts
<1>3. /\ Sound(l.left) /\ Sound(g) /\ l.key \in Key /\ l.key \in Int
      /\ Between(l.left, l.key, g)
      /\ l.balance = Height[l.left] - Height[g]
      /\ Height[l] = 1 + Greater(Height[l.left], Height[g])
      /\ Contents(l) = {l.key} \cup Contents(l.left) \cup Contents(g)
  BY <1>2, SoundParts
<1>. HIDE DEF g
<1>4. Height[l.left] \in Nat /\ Height[g] \in Nat /\ Contents(l.left) \subseteq Int
  BY <1>3, SoundFacts
<1>5. Height[l.left] = Height[rt] /\ Height[g] = Height[rt] + 1
  BY <1>2, <1>3, <1>4 DEF Greater
<1>6. g # Nil BY <1>2, <1>3, <1>5, SoundFacts
<1>7. /\ Sound(g.left) /\ Sound(g.right) /\ g.key \in Key /\ g.key \in Int
      /\ Between(g.left, g.key, g.right)
      /\ g.balance = Height[g.left] - Height[g.right] /\ g.balance \in -1..1
      /\ Height[g] = 1 + Greater(Height[g.left], Height[g.right])
      /\ Contents(g) = {g.key} \cup Contents(g.left) \cup Contents(g.right)
  BY <1>3, <1>6, SoundParts
<1>8. /\ Height[g.left] \in Nat /\ Height[g.right] \in Nat
      /\ Contents(g.left) \subseteq Int /\ Contents(g.right) \subseteq Int
  BY <1>7, SoundFacts
<1>9. /\ Height[g.left] <= Height[rt] /\ Height[g.right] <= Height[rt]
      /\ bl = Height[l.left] - Height[g.left] /\ bl \in -1..1
      /\ br = Height[g.right] - Height[rt] /\ br \in -1..1
  BY <1>2, <1>5, <1>7, <1>8 DEF Greater
<1>. HIDE DEF bl, br
<1>10. Between(l.left, l.key, g.left) /\ Between(g.right, k, rt)
  BY <1>3, <1>7 DEF Between
<1>11. /\ Sound(ll) /\ Height[ll] = 1 + Greater(Height[l.left], Height[g.left])
       /\ Contents(ll) = {l.key} \cup Contents(l.left) \cup Contents(g.left)
  BY <1>0, <1>2, <1>3, <1>5, <1>7, <1>8, <1>9, <1>10, SoundNode
<1>12. /\ Sound(rr) /\ Height[rr] = 1 + Greater(Height[g.right], Height[rt])
       /\ Contents(rr) = {k} \cup Contents(g.right) \cup Contents(rt)
  BY <1>0, <1>2, <1>3, <1>5, <1>7, <1>8, <1>9, <1>10, SoundNode
<1>. HIDE DEF ll, rr
<1>13. Height[ll] = Height[rt] + 1 /\ Height[rr] = Height[rt] + 1
  BY <1>2, <1>5, <1>8, <1>9, <1>11, <1>12 DEF Greater
<1>14. Between(ll, g.key, rr)
  <2>1. l.key < g.key /\ g.key < k BY <1>3, <1>7 DEF Between
  <2>2. ASSUME NEW x \in Contents(l.left) PROVE x < g.key
    <3>1. x < l.key BY <1>3 DEF Between
    <3>. QED BY <1>3, <1>4, <1>7, <2>1, <3>1
  <2>3. ASSUME NEW x \in Contents(rt) PROVE g.key < x
    <3>1. k < x BY DEF Between
    <3>. QED BY <1>0, <1>2, <1>7, <2>1, <3>1
  <2>4. \A x \in Contents(ll) : x < g.key BY <1>7, <1>11, <2>1, <2>2 DEF Between
  <2>5. \A x \in Contents(rr) : g.key < x BY <1>7, <1>12, <2>1, <2>3 DEF Between
  <2>. QED BY <2>4, <2>5 DEF Between
<1>15. /\ Sound(t) /\ Height[t] = 1 + Greater(Height[ll], Height[rr])
       /\ Contents(t) = {g.key} \cup Contents(ll) \cup Contents(rr)
  BY <1>0, <1>2, <1>7, <1>11, <1>12, <1>13, <1>14, SoundNode
<1>16. Height[t] = Height[l] BY <1>2, <1>13, <1>15 DEF Greater
<1>17. Contents(t) = {k} \cup Contents(l) \cup Contents(rt)
  BY <1>3, <1>7, <1>11, <1>12, <1>15
<1>. QED BY <1>1, <1>15, <1>16, <1>17

(* rebalancerightright, the mirror image of rebalanceleftleft. *)
LEMMA RotateRightRight ==
  ASSUME NEW k \in Key, NEW b, NEW l, NEW rt, Sound(l), Sound(rt), rt.balance = -1,
         Height[rt] = Height[l] + 2, Height[rt] <= MaxHeight, Between(l, k, rt)
  PROVE  LET t == RebalanceRightRight(Node(k, b, l, rt))
         IN  /\ Sound(t) /\ Height[t] = Height[rt]
             /\ Contents(t) = {k} \cup Contents(l) \cup Contents(rt)
<1>. DEFINE low == Node(k, 0, l, rt.left)
            t == Node(rt.key, 0, low, rt.right)
<1>0. MaxHeight \in Nat /\ k \in Int BY TreeAssumption
<1>1. RebalanceRightRight(Node(k, b, l, rt)) = t
  <2>. DEFINE a == Node(k, b, l, rt)
  <2>1. a.key = k /\ a.left = l /\ a.right = rt BY NodeParts
  <2>. HIDE DEF a
  <2>2. RebalanceRightRight(a) = t BY <2>1, Zenon DEF RebalanceRightRight
  <2>. QED BY <2>2 DEF a
<1>2. Height[l] \in Nat /\ rt # Nil /\ Contents(l) \subseteq Int BY SoundFacts
<1>3. /\ Sound(rt.left) /\ Sound(rt.right) /\ rt.key \in Key /\ rt.key \in Int
      /\ Between(rt.left, rt.key, rt.right)
      /\ rt.balance = Height[rt.left] - Height[rt.right]
      /\ Height[rt] = 1 + Greater(Height[rt.left], Height[rt.right])
      /\ Contents(rt) = {rt.key} \cup Contents(rt.left) \cup Contents(rt.right)
  BY <1>2, SoundParts
<1>4. /\ Height[rt.left] \in Nat /\ Height[rt.right] \in Nat
      /\ Contents(rt.left) \subseteq Int /\ Contents(rt.right) \subseteq Int
  BY <1>3, SoundFacts
<1>5. Height[rt.right] = Height[l] + 1 /\ Height[rt.left] = Height[l]
  BY <1>2, <1>3, <1>4 DEF Greater
<1>6. Between(l, k, rt.left) BY <1>3 DEF Between
<1>7. /\ Sound(low) /\ Height[low] = 1 + Greater(Height[l], Height[rt.left])
      /\ Contents(low) = {k} \cup Contents(l) \cup Contents(rt.left)
  BY <1>0, <1>2, <1>3, <1>5, <1>6, SoundNode
<1>. HIDE DEF low
<1>8. Height[low] = Height[l] + 1 BY <1>2, <1>5, <1>7 DEF Greater
<1>9. Between(low, rt.key, rt.right)
  <2>1. k < rt.key BY <1>3 DEF Between
  <2>2. ASSUME NEW x \in Contents(l) PROVE x < rt.key
    <3>1. x < k BY DEF Between
    <3>. QED BY <1>0, <1>2, <1>3, <2>1, <3>1
  <2>3. \A x \in Contents(low) : x < rt.key BY <1>3, <1>7, <2>1, <2>2 DEF Between
  <2>. QED BY <1>3, <2>3 DEF Between
<1>10. /\ Sound(t) /\ Height[t] = 1 + Greater(Height[low], Height[rt.right])
       /\ Contents(t) = {rt.key} \cup Contents(low) \cup Contents(rt.right)
  BY <1>0, <1>2, <1>3, <1>5, <1>7, <1>8, <1>9, SoundNode
<1>11. Height[t] = Height[rt] BY <1>2, <1>5, <1>8, <1>10 DEF Greater
<1>12. Contents(t) = {k} \cup Contents(l) \cup Contents(rt) BY <1>3, <1>7, <1>10
<1>. QED BY <1>1, <1>10, <1>11, <1>12

(* rebalancerightleft, the mirror image of rebalanceleftright. *)
LEMMA RotateRightLeft ==
  ASSUME NEW k \in Key, NEW b, NEW l, NEW rt, Sound(l), Sound(rt), rt.balance = 1,
         Height[rt] = Height[l] + 2, Height[rt] <= MaxHeight, Between(l, k, rt)
  PROVE  LET t == RebalanceRightLeft(Node(k, b, l, rt))
         IN  /\ Sound(t) /\ Height[t] = Height[rt]
             /\ Contents(t) = {k} \cup Contents(l) \cup Contents(rt)
<1>. DEFINE g == rt.left
            bl == IF g.balance < 0 THEN 1 ELSE 0
            br == IF g.balance > 0 THEN -1 ELSE 0
            ll == Node(k, bl, l, g.left)
            rr == Node(rt.key, br, g.right, rt.right)
            t == Node(g.key, 0, ll, rr)
<1>0. MaxHeight \in Nat /\ k \in Int BY TreeAssumption
<1>1. RebalanceRightLeft(Node(k, b, l, rt)) = t
  <2>. DEFINE a == Node(k, b, l, rt)
  <2>1. a.key = k /\ a.left = l /\ a.right = rt BY NodeParts
  <2>. HIDE DEF a
  <2>2. RebalanceRightLeft(a) = t BY <2>1, Zenon DEF RebalanceRightLeft
  <2>. QED BY <2>2 DEF a
<1>2. Height[l] \in Nat /\ rt # Nil /\ Contents(l) \subseteq Int BY SoundFacts
<1>3. /\ Sound(g) /\ Sound(rt.right) /\ rt.key \in Key /\ rt.key \in Int
      /\ Between(g, rt.key, rt.right)
      /\ rt.balance = Height[g] - Height[rt.right]
      /\ Height[rt] = 1 + Greater(Height[g], Height[rt.right])
      /\ Contents(rt) = {rt.key} \cup Contents(g) \cup Contents(rt.right)
  BY <1>2, SoundParts
<1>. HIDE DEF g
<1>4. Height[g] \in Nat /\ Height[rt.right] \in Nat /\ Contents(rt.right) \subseteq Int
  BY <1>3, SoundFacts
<1>5. Height[rt.right] = Height[l] /\ Height[g] = Height[l] + 1
  BY <1>2, <1>3, <1>4 DEF Greater
<1>6. g # Nil BY <1>2, <1>3, <1>5, SoundFacts
<1>7. /\ Sound(g.left) /\ Sound(g.right) /\ g.key \in Key /\ g.key \in Int
      /\ Between(g.left, g.key, g.right)
      /\ g.balance = Height[g.left] - Height[g.right] /\ g.balance \in -1..1
      /\ Height[g] = 1 + Greater(Height[g.left], Height[g.right])
      /\ Contents(g) = {g.key} \cup Contents(g.left) \cup Contents(g.right)
  BY <1>3, <1>6, SoundParts
<1>8. /\ Height[g.left] \in Nat /\ Height[g.right] \in Nat
      /\ Contents(g.left) \subseteq Int /\ Contents(g.right) \subseteq Int
  BY <1>7, SoundFacts
<1>9. /\ Height[g.left] <= Height[l] /\ Height[g.right] <= Height[l]
      /\ bl = Height[l] - Height[g.left] /\ bl \in -1..1
      /\ br = Height[g.right] - Height[rt.right] /\ br \in -1..1
  BY <1>2, <1>5, <1>7, <1>8 DEF Greater
<1>. HIDE DEF bl, br
<1>10. Between(l, k, g.left) /\ Between(g.right, rt.key, rt.right)
  BY <1>3, <1>7 DEF Between
<1>11. /\ Sound(ll) /\ Height[ll] = 1 + Greater(Height[l], Height[g.left])
       /\ Contents(ll) = {k} \cup Contents(l) \cup Contents(g.left)
  BY <1>0, <1>2, <1>3, <1>5, <1>7, <1>8, <1>9, <1>10, SoundNode
<1>12. /\ Sound(rr) /\ Height[rr] = 1 + Greater(Height[g.right], Height[rt.right])
       /\ Contents(rr) = {rt.key} \cup Contents(g.right) \cup Contents(rt.right)
  BY <1>0, <1>2, <1>3, <1>5, <1>7, <1>8, <1>9, <1>10, SoundNode
<1>. HIDE DEF ll, rr
<1>13. Height[ll] = Height[l] + 1 /\ Height[rr] = Height[l] + 1
  BY <1>2, <1>5, <1>8, <1>9, <1>11, <1>12 DEF Greater
<1>14. Between(ll, g.key, rr)
  <2>1. k < g.key /\ g.key < rt.key BY <1>3, <1>7 DEF Between
  <2>2. ASSUME NEW x \in Contents(l) PROVE x < g.key
    <3>1. x < k BY DEF Between
    <3>. QED BY <1>0, <1>2, <1>7, <2>1, <3>1
  <2>3. ASSUME NEW x \in Contents(rt.right) PROVE g.key < x
    <3>1. rt.key < x BY <1>3 DEF Between
    <3>. QED BY <1>3, <1>4, <1>7, <2>1, <3>1
  <2>4. \A x \in Contents(ll) : x < g.key BY <1>7, <1>11, <2>1, <2>2 DEF Between
  <2>5. \A x \in Contents(rr) : g.key < x BY <1>7, <1>12, <2>1, <2>3 DEF Between
  <2>. QED BY <2>4, <2>5 DEF Between
<1>15. /\ Sound(t) /\ Height[t] = 1 + Greater(Height[ll], Height[rr])
       /\ Contents(t) = {g.key} \cup Contents(ll) \cup Contents(rr)
  BY <1>0, <1>2, <1>7, <1>11, <1>12, <1>13, <1>14, SoundNode
<1>16. Height[t] = Height[rt] BY <1>2, <1>13, <1>15 DEF Greater
<1>17. Contents(t) = {k} \cup Contents(l) \cup Contents(rt)
  BY <1>3, <1>7, <1>11, <1>12, <1>15
<1>. QED BY <1>1, <1>15, <1>16, <1>17

(* After a removal the higher subtree may be level itself: the tree then
   keeps its height, one more than that subtree's. *)
LEMMA RotateLeftBalance ==
  ASSUME NEW k \in Key, NEW l, NEW rt, Sound(l), Sound(rt), l.balance = 0,
         Height[l] = Height[rt] + 2, Height[l] < MaxHeight, Between(l, k, rt)
  PROVE  LET t == RebalanceLeftBalance(Node(k, 1, l, rt))
         IN  /\ Sound(t) /\ Height[t] = Height[l] + 1
             /\ Contents(t) = {k} \cup Contents(l) \cup Contents(rt)
<1>. DEFINE low == Node(k, 1, l.right, rt)
            t == Node(l.key, -1, l.left, low)
<1>0. MaxHeight \in Nat /\ k \in Int BY TreeAssumption
<1>1. RebalanceLeftBalance(Node(k, 1, l, rt)) = t
  <2>. DEFINE a == Node(k, 1, l, rt)
  <2>1. a.left = l /\ [a EXCEPT !.left = l.right] = low BY NodeParts
  <2>. HIDE DEF a, low
  <2>2. RebalanceLeftBalance(a) = t BY <2>1, Zenon DEF RebalanceLeftBalance
  <2>. QED BY <2>2 DEF a, low
<1>2. Height[rt] \in Nat /\ l # Nil /\ Contents(rt) \subseteq Int BY SoundFacts
<1>3. /\ Sound(l.left) /\ Sound(l.right) /\ l.key \in Key /\ l.key \in Int
      /\ Between(l.left, l.key, l.right)
      /\ l.balance = Height[l.left] - Height[l.right]
      /\ Height[l] = 1 + Greater(Height[l.left], Height[l.right])
      /\ Contents(l) = {l.key} \cup Contents(l.left) \cup Contents(l.right)
  BY <1>2, SoundParts
<1>4. /\ Height[l.left] \in Nat /\ Height[l.right] \in Nat
      /\ Contents(l.left) \subseteq Int /\ Contents(l.right) \subseteq Int
  BY <1>3, SoundFacts
<1>5. Height[l.left] = Height[rt] + 1 /\ Height[l.right] = Height[rt] + 1
  BY <1>2, <1>3, <1>4 DEF Greater
<1>6. Between(l.right, k, rt) BY <1>3 DEF Between
<1>7. /\ Sound(low) /\ Height[low] = 1 + Greater(Height[l.right], Height[rt])
      /\ Contents(low) = {k} \cup Contents(l.right) \cup Contents(rt)
  BY <1>0, <1>2, <1>3, <1>5, <1>6, SoundNode
<1>. HIDE DEF low
<1>8. Height[low] = Height[rt] + 2 BY <1>2, <1>5, <1>7 DEF Greater
<1>9. Between(l.left, l.key, low)
  <2>1. l.key < k BY <1>3 DEF Between
  <2>2. ASSUME NEW x \in Contents(rt) PROVE l.key < x
    <3>1. k < x BY DEF Between
    <3>. QED BY <1>0, <1>2, <1>3, <2>1, <3>1
  <2>3. \A x \in Contents(low) : l.key < x BY <1>3, <1>7, <2>1, <2>2 DEF Between
  <2>. QED BY <1>3, <2>3 DEF Between
<1>10. /\ Sound(t) /\ Height[t] = 1 + Greater(Height[l.left], Height[low])
       /\ Contents(t) = {l.key} \cup Contents(l.left) \cup Contents(low)
  BY <1>0, <1>2, <1>3, <1>5, <1>7, <1>8, <1>9, SoundNode
<1>11. Height[t] = Height[l] + 1 BY <1>2, <1>5, <1>8, <1>10 DEF Greater
<1>12. Contents(t) = {k} \cup Contents(l) \cup Contents(rt) BY <1>3, <1>7, <1>10
<1>. QED BY <1>1, <1>10, <1>11, <1>12

(* The same on the other side. *)
LEMMA RotateRightBalance ==
  ASSUME NEW k \in Key, NEW l, NEW rt, Sound(l), Sound(rt), rt.balance = 0,
         Height[rt] = Height[l] + 2, Height[rt] < MaxHeight, Between(l, k, rt)
  PROVE  LET t == RebalanceRightBalance(Node(k, -1, l, rt))
         IN  /\ Sound(t) /\ Height[t] = Height[rt] + 1
             /\ Contents(t) = {k} \cup Contents(l) \cup Contents(rt)
<1>. DEFINE low == Node(k, -1, l, rt.left)
            t == Node(rt.key, 1, low, rt.right)
<1>0. MaxHeight \in Nat /\ k \in Int BY TreeAssumption
<1>1. RebalanceRightBalance(Node(k, -1, l, rt)) = t
  <2>. DEFINE a == Node(k, -1, l, rt)
  <2>1. a.right = rt /\ [a EXCEPT !.right = rt.left] = low BY NodeParts
  <2>. HIDE DEF a, low
  <2>2. RebalanceRightBalance(a) = t BY <2>1, Zenon DEF RebalanceRightBalance
  <2>. QED BY <2>2 DEF a, low
<1>2. Height[l] \in Nat /\ rt # Nil /\ Contents(l) \subseteq Int BY SoundFacts
<1>3. /\ Sound(rt.left) /\ Sound(rt.right) /\ rt.key \in Key /\ rt.key \in Int
      /\ Between(rt.left, rt.key, rt.right)
      /\ rt.balance = Height[rt.left] - Height[rt.right]
      /\ Height[rt] = 1 + Greater(Height[rt.left], Height[rt.right])
      /\ Contents(rt) = {rt.key} \cup Contents(rt.left) \cup Contents(rt.right)
  BY <1>2, SoundParts
<1>4. /\ Height[rt.left] \in Nat /\ Height[rt.right] \in Nat
      /\ Contents(rt.left) \subseteq Int /\ Contents(rt.right) \subseteq Int
  BY <1>3, SoundFacts
<1>5. Height[rt.right] = Height[l] + 1 /\ Height[rt.left] = Height[l] + 1
  BY <1>2, <1>3, <1>4 DEF Greater
<1>6. Between(l, k, rt.left) BY <1>3 DEF Between
<1>7. /\ Sound(low) /\ Height[low] = 1 + Greater(Height[l], Height[rt.left])
      /\ Contents(low) = {k} \cup Contents(l) \cup Contents(rt.left)
  BY <1>0, <1>2, <1>3, <1>5, <1>6, SoundNode
<1>. HIDE DEF low
<1>8. Height[low] = Height[l] + 2 BY <1>2, <1>5, <1>7 DEF Greater
<1>9. Between(low, rt.key, rt.right)
  <2>1. k < rt.key BY <1>3 DEF Between
  <2>2. ASSUME NEW x \in Contents(l) PROVE x < rt.key
    <3>1. x < k BY DEF Between
    <3>. QED BY <1>0, <1>2, <1>3, <2>1, <3>1
  <2>3. \A x \in Contents(low) : x < rt.key BY <1>3, <1>7, <2>1, <2>2 DEF Between
  <2>. QED BY <1>3, <2>3 DEF Between
<1>10. /\ Sound(t) /\ Height[t] = 1 + Greater(Height[low], Height[rt.right])
       /\ Contents(t) = {rt.key} \cup Contents(low) \cup Contents(rt.right)
  BY <1>0, <1>2, <1>3, <1>5, <1>7, <1>8, <1>9, SoundNode
<1>11. Height[t] = Height[rt] + 1 BY <1>2, <1>5, <1>8, <1>10 DEF Greater
<1>12. Contents(t) = {k} \cup Contents(l) \cup Contents(rt) BY <1>3, <1>7, <1>10
<1>. QED BY <1>1, <1>10, <1>11, <1>12

-----------------------------------------------------------------------------
(* What an operation hands to its caller: a sound tree, its keys, and whether
   it is one level higher, or lower, than h. *)
Grown(res, h, keys) == /\ res.r \in {0, 1} /\ Sound(res.tree)
                       /\ Height[res.tree] = h + res.r /\ Contents(res.tree) = keys
Shrunk(res, h, keys) == /\ res.r \in {0, 1} /\ Sound(res.tree)
                        /\ Height[res.tree] = h - res.r /\ Contents(res.tree) = keys

(* What a result is made of. *)
LEMMA Results ==
  ASSUME NEW t, NEW c
  PROVE  Result(t, c).tree = t /\ Result(t, c).r = c
BY DEF Result

(* t with another subtree x on one side. *)
LEMMA Replaced ==
  ASSUME NEW t, Sound(t), t # Nil, NEW x
  PROVE  /\ [t EXCEPT !.left = x] = Node(t.key, t.balance, x, t.right)
         /\ [t EXCEPT !.right = x] = Node(t.key, t.balance, t.left, x)
<1>. DEFINE a == Node(t.key, t.balance, t.left, t.right)
<1>1. t = a BY SoundParts
<1>2. /\ [a EXCEPT !.left = x] = Node(t.key, t.balance, x, t.right)
      /\ [a EXCEPT !.right = x] = Node(t.key, t.balance, t.left, x)
  BY NodeParts
<1>. HIDE DEF a
<1>. QED BY <1>1, <1>2, Zenon

(* The left subtree grew to x: it is no longer level, unless it is the node
   just added. *)
LEMMA LeftGrewIs ==
  ASSUME NEW t, Sound(t), t # Nil, Height[t] < MaxHeight, NEW x, Sound(x),
         Height[x] = Height[t.left] + 1, t.left = Nil \/ x.balance # 0,
         Between(x, t.key, t.right)
  PROVE  LET res == LeftGrew([t EXCEPT !.left = x])
         IN  /\ Grown(res, Height[t], {t.key} \cup Contents(x) \cup Contents(t.right))
             /\ res.r = 1 => res.tree.balance # 0
<1>. DEFINE k == t.key
            b == t.balance
            y == t.right
            nd(c) == Node(k, c, x, y)
            a == nd(b)
            res == LeftGrew(a)
            keys == {k} \cup Contents(x) \cup Contents(y)
            Goal == Grown(res, Height[t], keys) /\ (res.r = 1 => res.tree.balance # 0)
<1>1. SUFFICES Goal
  <2>1. [t EXCEPT !.left = x] = a BY Replaced
  <2>. HIDE DEF a
  <2>. QED BY <2>1, Zenon
<1>2. /\ Sound(t.left) /\ Sound(y) /\ k \in Key
      /\ b = Height[t.left] - Height[t.right] /\ b \in -1..1
      /\ Height[t] = 1 + Greater(Height[t.left], Height[t.right])
  BY SoundParts
<1>3. /\ a.balance = b /\ a.left = x
      /\ \A c : [a EXCEPT !.balance = c] = nd(c)
  BY NodeParts
<1>4. Between(x, k, y) OBVIOUS
<1>. HIDE DEF k, b, y
<1>5. /\ Height[t.left] \in Nat /\ Height[y] \in Nat
      /\ (t.left = Nil) = (Height[t.left] = 0)
  BY <1>2, SoundFacts
<1>6. /\ b = Height[t.left] - Height[y]
      /\ Height[t] = 1 + Greater(Height[t.left], Height[y])
      /\ MaxHeight \in Nat
  BY <1>2, TreeAssumption DEF y
<1>7. CASE b = 0
  <2>1. res = Result(nd(1), 1)
    <3>. HIDE DEF a, nd
    <3>. QED BY <1>3, <1>7 DEF LeftGrew
  <2>2. Height[x] = Height[y] + 1 /\ Height[t] = Height[y] + 1
    BY <1>5, <1>6, <1>7 DEF Greater
  <2>3. /\ Sound(nd(1)) /\ nd(1).balance = 1 /\ Contents(nd(1)) = keys
        /\ Height[nd(1)] = 1 + Greater(Height[x], Height[y])
    BY <1>2, <1>4, <1>5, <1>6, <2>2, SoundNode
  <2>4. Height[nd(1)] = Height[t] + 1 BY <1>5, <2>2, <2>3 DEF Greater
  <2>. HIDE DEF nd, res
  <2>. QED BY <2>1, <2>3, <2>4, Results DEF Grown
<1>8. CASE b = -1
  <2>1. res = Result(nd(0), 0)
    <3>. HIDE DEF a, nd
    <3>. QED BY <1>3, <1>8 DEF LeftGrew
  <2>2. Height[x] = Height[y] /\ Height[t] = Height[y] + 1
    BY <1>5, <1>6, <1>8 DEF Greater
  <2>3. /\ Sound(nd(0)) /\ Contents(nd(0)) = keys
        /\ Height[nd(0)] = 1 + Greater(Height[x], Height[y])
    BY <1>2, <1>4, <1>5, <1>6, <2>2, SoundNode
  <2>4. Height[nd(0)] = Height[t] BY <1>5, <2>2, <2>3 DEF Greater
  <2>. HIDE DEF nd, res
  <2>. QED BY <1>5, <1>6, <2>1, <2>2, <2>3, <2>4, Results DEF Grown
<1>9. CASE b = 1
  <2>1. Height[x] = Height[y] + 2 /\ Height[t] = Height[x] /\ Height[x] <= MaxHeight
    BY <1>5, <1>6, <1>9 DEF Greater
  <2>2. x # Nil /\ x.balance # 0
    BY <1>5, <2>1, SoundFacts, <1>6, <1>9
  <2>3. x.balance \in -1..1 BY <2>2, SoundParts
  <2>4. CASE x.balance = 1
    <3>1. res = Result(RebalanceLeftLeft(a), 0)
      <4>. HIDE DEF a, nd
      <4>. QED BY <1>3, <1>9, <2>4 DEF LeftGrew
    <3>. DEFINE u == RebalanceLeftLeft(a)
    <3>2. Sound(u) /\ Height[u] = Height[x] /\ Contents(u) = keys
      BY <1>2, <1>4, <2>1, <2>4, RotateLeftLeft
    <3>. HIDE DEF u, res
    <3>3. res.tree = u /\ res.r = 0 BY <3>1, Results DEF u
    <3>. QED BY <1>5, <2>1, <3>2, <3>3 DEF Grown
  <2>5. CASE x.balance = -1
    <3>1. res = Result(RebalanceLeftRight(a), 0)
      <4>. HIDE DEF a, nd
      <4>. QED BY <1>3, <1>9, <2>5 DEF LeftGrew
    <3>. DEFINE u == RebalanceLeftRight(a)
    <3>2. Sound(u) /\ Height[u] = Height[x] /\ Contents(u) = keys
      BY <1>2, <1>4, <2>1, <2>5, RotateLeftRight
    <3>. HIDE DEF u, res
    <3>3. res.tree = u /\ res.r = 0 BY <3>1, Results DEF u
    <3>. QED BY <1>5, <2>1, <3>2, <3>3 DEF Grown
  <2>. QED BY <2>2, <2>3, <2>4, <2>5
<1>. QED BY <1>2, <1>7, <1>8, <1>9

(* The right subtree grew to x: it is no longer level, unless it is the node
   just added. *)
LEMMA RightGrewIs ==
  ASSUME NEW t, Sound(t), t # Nil, Height[t] < MaxHeight, NEW x, Sound(x),
         Height[x] = Height[t.right] + 1, t.right = Nil \/ x.balance # 0,
         Between(t.left, t.key, x)
  PROVE  LET res == RightGrew([t EXCEPT !.right = x])
         IN  /\ Grown(res, Height[t], {t.key} \cup Contents(t.left) \cup Contents(x))
             /\ res.r = 1 => res.tree.balance # 0
<1>. DEFINE k == t.key
            b == t.balance
            y == t.left
            nd(c) == Node(k, c, y, x)
            a == nd(b)
            res == RightGrew(a)
            keys == {k} \cup Contents(y) \cup Contents(x)
            Goal == Grown(res, Height[t], keys) /\ (res.r = 1 => res.tree.balance # 0)
<1>1. SUFFICES Goal
  <2>1. [t EXCEPT !.right = x] = a BY Replaced
  <2>. HIDE DEF a
  <2>. QED BY <2>1, Zenon
<1>2. /\ Sound(t.right) /\ Sound(y) /\ k \in Key
      /\ b = Height[t.left] - Height[t.right] /\ b \in -1..1
      /\ Height[t] = 1 + Greater(Height[t.left], Height[t.right])
  BY SoundParts
<1>3. /\ a.balance = b /\ a.right = x
      /\ \A c : [a EXCEPT !.balance = c] = nd(c)
  BY NodeParts
<1>4. Between(y, k, x) OBVIOUS
<1>. HIDE DEF k, b, y
<1>5. /\ Height[t.right] \in Nat /\ Height[y] \in Nat
      /\ (t.right = Nil) = (Height[t.right] = 0)
  BY <1>2, SoundFacts
<1>6. /\ b = Height[y] - Height[t.right]
      /\ Height[t] = 1 + Greater(Height[y], Height[t.right])
      /\ MaxHeight \in Nat
  BY <1>2, TreeAssumption DEF y
<1>7. CASE b = 0
  <2>1. res = Result(nd(-1), 1)
    <3>. HIDE DEF a, nd
    <3>. QED BY <1>3, <1>7 DEF RightGrew
  <2>2. Height[x] = Height[y] + 1 /\ Height[t] = Height[y] + 1
    BY <1>5, <1>6, <1>7 DEF Greater
  <2>3. /\ Sound(nd(-1)) /\ nd(-1).balance = -1 /\ Contents(nd(-1)) = keys
        /\ Height[nd(-1)] = 1 + Greater(Height[y], Height[x])
    BY <1>2, <1>4, <1>5, <1>6, <2>2, SoundNode
  <2>4. Height[nd(-1)] = Height[t] + 1 BY <1>5, <2>2, <2>3 DEF Greater
  <2>. HIDE DEF nd, res
  <2>. QED BY <2>1, <2>3, <2>4, Results DEF Grown
<1>8. CASE b = 1
  <2>1. res = Result(nd(0), 0)
    <3>. HIDE DEF a, nd
    <3>. QED BY <1>3, <1>8 DEF RightGrew
  <2>2. Height[x] = Height[y] /\ Height[t] = Height[y] + 1
    BY <1>5, <1>6, <1>8 DEF Greater
  <2>3. /\ Sound(nd(0)) /\ Contents(nd(0)) = keys
        /\ Height[nd(0)] = 1 + Greater(Height[y], Height[x])
    BY <1>2, <1>4, <1>5, <1>6, <2>2, SoundNode
  <2>4. Height[nd(0)] = Height[t] BY <1>5, <2>2, <2>3 DEF Greater
  <2>. HIDE DEF nd, res
  <2>. QED BY <1>5, <1>6, <2>1, <2>2, <2>3, <2>4, Results DEF Grown
<1>9. CASE b = -1
  <2>1. Height[x] = Height[y] + 2 /\ Height[t] = Height[x] /\ Height[x] <= MaxHeight
    BY <1>5, <1>6, <1>9 DEF Greater
  <2>2. x # Nil /\ x.balance # 0
    BY <1>5, <2>1, SoundFacts, <1>6, <1>9
  <2>3. x.balance \in -1..1 BY <2>2, SoundParts
  <2>4. CASE x.balance = -1
    <3>1. res = Result(RebalanceRightRight(a), 0)
      <4>. HIDE DEF a, nd
      <4>. QED BY <1>3, <1>9, <2>4 DEF RightGrew
    <3>. DEFINE u == RebalanceRightRight(a)
    <3>2. Sound(u) /\ Height[u] = Height[x] /\ Contents(u) = keys
      BY <1>2, <1>4, <2>1, <2>4, RotateRightRight
    <3>. HIDE DEF u, res
    <3>3. res.tree = u /\ res.r = 0 BY <3>1, Results DEF u
    <3>. QED BY <1>5, <2>1, <3>2, <3>3 DEF Grown
  <2>5. CASE x.balance = 1
    <3>1. res = Result(RebalanceRightLeft(a), 0)
      <4>. HIDE DEF a, nd
      <4>. QED BY <1>3, <1>9, <2>5 DEF RightGrew
    <3>. DEFINE u == RebalanceRightLeft(a)
    <3>2. Sound(u) /\ Height[u] = Height[x] /\ Contents(u) = keys
      BY <1>2, <1>4, <2>1, <2>5, RotateRightLeft
    <3>. HIDE DEF u, res
    <3>3. res.tree = u /\ res.r = 0 BY <3>1, Results DEF u
    <3>. QED BY <1>5, <2>1, <3>2, <3>3 DEF Grown
  <2>. QED BY <2>2, <2>3, <2>4, <2>5
<1>. QED BY <1>2, <1>7, <1>8, <1>9

(* The left subtree shrank to x. *)
LEMMA LeftShrankIs ==
  ASSUME NEW t, Sound(t), t # Nil, NEW x, Sound(x),
         Height[x] = Height[t.left] - 1, Between(x, t.key, t.right)
  PROVE  LET res == LeftShrank([t EXCEPT !.left = x])
         IN  Shrunk(res, Height[t], {t.key} \cup Contents(x) \cup Contents(t.right))
<1>. DEFINE k == t.key
            b == t.balance
            y == t.right
            nd(c) == Node(k, c, x, y)
            a == nd(b)
            res == LeftShrank(a)
            keys == {k} \cup Contents(x) \cup Contents(y)
            Goal == Shrunk(res, Height[t], keys)
<1>1. SUFFICES Goal
  <2>1. [t EXCEPT !.left = x] = a BY Replaced
  <2>. HIDE DEF a
  <2>. QED BY <2>1, Zenon
<1>2. /\ Sound(t.left) /\ Sound(y) /\ k \in Key
      /\ b = Height[t.left] - Height[t.right] /\ b \in -1..1
      /\ Height[t] = 1 + Greater(Height[t.left], Height[t.right])
  BY SoundParts
<1>3. /\ a.balance = b /\ a.right = y
      /\ \A c : [a EXCEPT !.balance = c] = nd(c)
  BY NodeParts
<1>4. Between(x, k, y) OBVIOUS
<1>. HIDE DEF k, b, y
<1>5. Height[t.left] \in Nat /\ Height[x] \in Nat /\ Height[y] \in Nat
  BY <1>2, SoundFacts
<1>6. /\ b = Height[t.left] - Height[y]
      /\ Height[t] = 1 + Greater(Height[t.left], Height[y])
      /\ MaxHeight \in Nat /\ Height[t] <= MaxHeight
  BY <1>2, TreeAssumption, HeightBound DEF y, Sound
<1>7. CASE b = 1
  <2>1. res = Result(nd(0), 1)
    <3>. HIDE DEF a, nd
    <3>. QED BY <1>3, <1>7 DEF LeftShrank
  <2>2. Height[x] = Height[y] /\ Height[t] = Height[y] + 2
    BY <1>5, <1>6, <1>7 DEF Greater
  <2>3. /\ Sound(nd(0)) /\ Contents(nd(0)) = keys
        /\ Height[nd(0)] = 1 + Greater(Height[x], Height[y])
    BY <1>2, <1>4, <1>5, <1>6, <2>2, SoundNode
  <2>4. Height[nd(0)] = Height[t] - 1 BY <1>5, <2>2, <2>3 DEF Greater
  <2>. HIDE DEF nd, res
  <2>. QED BY <2>1, <2>3, <2>4, Results DEF Shrunk
<1>8. CASE b = 0
  <2>1. res = Result(nd(-1), 0)
    <3>. HIDE DEF a, nd
    <3>. QED BY <1>3, <1>8 DEF LeftShrank
  <2>2. Height[x] = Height[y] - 1 /\ Height[t] = Height[y] + 1
    BY <1>5, <1>6, <1>8 DEF Greater
  <2>3. /\ Sound(nd(-1)) /\ Contents(nd(-1)) = keys
        /\ Height[nd(-1)] = 1 + Greater(Height[x], Height[y])
    BY <1>2, <1>4, <1>5, <1>6, <2>2, SoundNode
  <2>4. Height[nd(-1)] = Height[t] BY <1>5, <2>2, <2>3 DEF Greater
  <2>. HIDE DEF nd, res
  <2>. QED BY <1>5, <1>6, <2>1, <2>2, <2>3, <2>4, Results DEF Shrunk
<1>9. CASE b = -1
  <2>1. /\ Height[y] = Height[x] + 2 /\ Height[t] = Height[y] + 1
        /\ Height[y] < MaxHeight
    BY <1>5, <1>6, <1>9 DEF Greater
  <2>2. y # Nil BY <1>2, <1>5, <2>1, SoundFacts
  <2>3. y.balance \in -1..1 BY <1>2, <2>2, SoundParts
  <2>4. CASE y.balance = 0
    <3>. DEFINE u == RebalanceRightBalance(a)
    <3>1. res = Result(u, 0)
      <4>. HIDE DEF a, nd
      <4>. QED BY <1>3, <1>9, <2>4 DEF LeftShrank
    <3>2. Sound(u) /\ Height[u] = Height[y] + 1 /\ Contents(u) = keys
      BY <1>2, <1>4, <1>9, <2>1, <2>4, RotateRightBalance
    <3>. HIDE DEF u, res
    <3>3. res.tree = u /\ res.r = 0 BY <3>1, Results
    <3>. QED BY <1>5, <2>1, <3>2, <3>3 DEF Shrunk
  <2>5. CASE y.balance = -1
    <3>. DEFINE u == RebalanceRightRight(a)
    <3>1. res = Result(u, 1)
      <4>. HIDE DEF a, nd
      <4>. QED BY <1>3, <1>9, <2>5 DEF LeftShrank
    <3>2. Sound(u) /\ Height[u] = Height[y] /\ Contents(u) = keys
      BY <1>2, <1>4, <1>5, <1>6, <2>1, <2>5, RotateRightRight
    <3>. HIDE DEF u, res
    <3>3. res.tree = u /\ res.r = 1 BY <3>1, Results
    <3>. QED BY <1>5, <2>1, <3>2, <3>3 DEF Shrunk
  <2>6. CASE y.balance = 1
    <3>. DEFINE u == RebalanceRightLeft(a)
    <3>1. res = Result(u, 1)
      <4>. HIDE DEF a, nd
      <4>. QED BY <1>3, <1>9, <2>6 DEF LeftShrank
    <3>2. Sound(u) /\ Height[u] = Height[y] /\ Contents(u) = keys
      BY <1>2, <1>4, <1>5, <1>6, <2>1, <2>6, RotateRightLeft
    <3>. HIDE DEF u, res
    <3>3. res.tree = u /\ res.r = 1 BY <3>1, Results
    <3>. QED BY <1>5, <2>1, <3>2, <3>3 DEF Shrunk
  <2>. QED BY <2>3, <2>4, <2>5, <2>6
<1>. QED BY <1>2, <1>7, <1>8, <1>9

(* The right subtree shrank to x. *)
LEMMA RightShrankIs ==
  ASSUME NEW t, Sound(t), t # Nil, NEW x, Sound(x),
         Height[x] = Height[t.right] - 1, Between(t.left, t.key, x)
  PROVE  LET res == RightShrank([t EXCEPT !.right = x])
         IN  Shrunk(res, Height[t], {t.key} \cup Contents(t.left) \cup Contents(x))
<1>. DEFINE k == t.key
            b == t.balance
            y == t.left
            nd(c) == Node(k, c, y, x)
            a == nd(b)
            res == RightShrank(a)
            keys == {k} \cup Contents(y) \cup Contents(x)
            Goal == Shrunk(res, Height[t], keys)
<1>1. SUFFICES Goal
  <2>1. [t EXCEPT !.right = x] = a BY Replaced
  <2>. HIDE DEF a
  <2>. QED BY <2>1, Zenon
<1>2. /\ Sound(t.right) /\ Sound(y) /\ k \in Key
      /\ b = Height[t.left] - Height[t.right] /\ b \in -1..1
      /\ Height[t] = 1 + Greater(Height[t.left], Height[t.right])
  BY SoundParts
<1>3. /\ a.balance = b /\ a.left = y
      /\ \A c : [a EXCEPT !.balance = c] = nd(c)
  BY NodeParts
<1>4. Between(y, k, x) OBVIOUS
<1>. HIDE DEF k, b, y
<1>5. Height[t.right] \in Nat /\ Height[x] \in Nat /\ Height[y] \in Nat
  BY <1>2, SoundFacts
<1>6. /\ b = Height[y] - Height[t.right]
      /\ Height[t] = 1 + Greater(Height[y], Height[t.right])
      /\ MaxHeight \in Nat /\ Height[t] <= MaxHeight
  BY <1>2, TreeAssumption, HeightBound DEF y, Sound
<1>7. CASE b = -1
  <2>1. res = Result(nd(0), 1)
    <3>. HIDE DEF a, nd
    <3>. QED BY <1>3, <1>7 DEF RightShrank
  <2>2. Height[x] = Height[y] /\ Height[t] = Height[y] + 2
    BY <1>5, <1>6, <1>7 DEF Greater
  <2>3. /\ Sound(nd(0)) /\ Contents(nd(0)) = keys
        /\ Height[nd(0)] = 1 + Greater(Height[y], Height[x])
    BY <1>2, <1>4, <1>5, <1>6, <2>2, SoundNode
  <2>4. Height[nd(0)] = Height[t] - 1 BY <1>5, <2>2, <2>3 DEF Greater
  <2>. HIDE DEF nd, res
  <2>. QED BY <2>1, <2>3, <2>4, Results DEF Shrunk
<1>8. CASE b = 0
  <2>1. res = Result(nd(1), 0)
    <3>. HIDE DEF a, nd
    <3>. QED BY <1>3, <1>8 DEF RightShrank
  <2>2. Height[x] = Height[y] - 1 /\ Height[t] = Height[y] + 1
    BY <1>5, <1>6, <1>8 DEF Greater
  <2>3. /\ Sound(nd(1)) /\ Contents(nd(1)) = keys
        /\ Height[nd(1)] = 1 + Greater(Height[y], Height[x])
    BY <1>2, <1>4, <1>5, <1>6, <2>2, SoundNode
  <2>4. Height[nd(1)] = Height[t] BY <1>5, <2>2, <2>3 DEF Greater
  <2>. HIDE DEF nd, res
  <2>. QED BY <1>5, <1>6, <2>1, <2>2, <2>3, <2>4, Results DEF Shrunk
<1>9. CASE b = 1
  <2>1. /\ Height[y] = Height[x] + 2 /\ Height[t] = Height[y] + 1
        /\ Height[y] < MaxHeight
    BY <1>5, <1>6, <1>9 DEF Greater
  <2>2. y # Nil BY <1>2, <1>5, <2>1, SoundFacts
  <2>3. y.balance \in -1..1 BY <1>2, <2>2, SoundParts
  <2>4. CASE y.balance = 0
    <3>. DEFINE u == RebalanceLeftBalance(a)
    <3>1. res = Result(u, 0)
      <4>. HIDE DEF a, nd
      <4>. QED BY <1>3, <1>9, <2>4 DEF RightShrank
    <3>2. Sound(u) /\ Height[u] = Height[y] + 1 /\ Contents(u) = keys
      BY <1>2, <1>4, <1>9, <2>1, <2>4, RotateLeftBalance
    <3>. HIDE DEF u, res
    <3>3. res.tree = u /\ res.r = 0 BY <3>1, Results
    <3>. QED BY <1>5, <2>1, <3>2, <3>3 DEF Shrunk
  <2>5. CASE y.balance = 1
    <3>. DEFINE u == RebalanceLeftLeft(a)
    <3>1. res = Result(u, 1)
      <4>. HIDE DEF a, nd
      <4>. QED BY <1>3, <1>9, <2>5 DEF RightShrank
    <3>2. Sound(u) /\ Height[u] = Height[y] /\ Contents(u) = keys
      BY <1>2, <1>4, <1>5, <1>6, <2>1, <2>5, RotateLeftLeft
    <3>. HIDE DEF u, res
    <3>3. res.tree = u /\ res.r = 1 BY <3>1, Results
    <3>. QED BY <1>5, <2>1, <3>2, <3>3 DEF Shrunk
  <2>6. CASE y.balance = -1
    <3>. DEFINE u == RebalanceLeftRight(a)
    <3>1. res = Result(u, 1)
      <4>. HIDE DEF a, nd
      <4>. QED BY <1>3, <1>9, <2>6 DEF RightShrank
    <3>2. Sound(u) /\ Height[u] = Height[y] /\ Contents(u) = keys
      BY <1>2, <1>4, <1>5, <1>6, <2>1, <2>6, RotateLeftRight
    <3>. HIDE DEF u, res
    <3>3. res.tree = u /\ res.r = 1 BY <3>1, Results
    <3>. QED BY <1>5, <2>1, <3>2, <3>3 DEF Shrunk
  <2>. QED BY <2>3, <2>4, <2>5, <2>6
<1>. QED BY <1>2, <1>7, <1>8, <1>9

(* The left subtree became x, of the same height. *)
LEMMA LeftKeptIs ==
  ASSUME NEW t, Sound(t), t # Nil, NEW x, Sound(x),
         Height[x] = Height[t.left], Between(x, t.key, t.right)
  PROVE  LET u == [t EXCEPT !.left = x]
         IN  /\ Sound(u) /\ Height[u] = Height[t]
             /\ Contents(u) = {t.key} \cup Contents(x) \cup Contents(t.right)
<1>. DEFINE u == Node(t.key, t.balance, x, t.right)
<1>1. [t EXCEPT !.left = x] = u BY Replaced
<1>2. /\ Sound(t.left) /\ Sound(t.right) /\ t.key \in Key
      /\ t.balance = Height[t.left] - Height[t.right] /\ t.balance \in -1..1
      /\ Height[t] = 1 + Greater(Height[t.left], Height[t.right])
  BY SoundParts
<1>3. /\ Height[t.left] \in Nat /\ Height[t.right] \in Nat
      /\ MaxHeight \in Nat /\ Height[t] <= MaxHeight
  BY <1>2, SoundFacts, TreeAssumption, HeightBound DEF Sound
<1>4. Height[t.left] < MaxHeight /\ Height[t.right] < MaxHeight
  BY <1>2, <1>3 DEF Greater
<1>5. /\ Sound(u) /\ Height[u] = 1 + Greater(Height[x], Height[t.right])
      /\ Contents(u) = {t.key} \cup Contents(x) \cup Contents(t.right)
  BY <1>2, <1>4, SoundNode
<1>. HIDE DEF u
<1>. QED BY <1>1, <1>2, <1>5, Zenon

(* The right subtree became x, of the same height. *)
LEMMA RightKeptIs ==
  ASSUME NEW t, Sound(t), t # Nil, NEW x, Sound(x),
         Height[x] = Height[t.right], Between(t.left, t.key, x)
  PROVE  LET u == [t EXCEPT !.right = x]
         IN  /\ Sound(u) /\ Height[u] = Height[t]
             /\ Contents(u) = {t.key} \cup Contents(t.left) \cup Contents(x)
<1>. DEFINE u == Node(t.key, t.balance, t.left, x)
<1>1. [t EXCEPT !.right = x] = u BY Replaced
<1>2. /\ Sound(t.left) /\ Sound(t.right) /\ t.key \in Key
      /\ t.balance = Height[t.left] - Height[t.right] /\ t.balance \in -1..1
      /\ Height[t] = 1 + Greater(Height[t.left], Height[t.right])
  BY SoundParts
<1>3. /\ Height[t.left] \in Nat /\ Height[t.right] \in Nat
      /\ MaxHeight \in Nat /\ Height[t] <= MaxHeight
  BY <1>2, SoundFacts, TreeAssumption, HeightBound DEF Sound
<1>4. Height[t.left] < MaxHeight /\ Height[t.right] < MaxHeight
  BY <1>2, <1>3 DEF Greater
<1>5. /\ Sound(u) /\ Height[u] = 1 + Greater(Height[t.left], Height[x])
      /\ Contents(u) = {t.key} \cup Contents(t.left) \cup Contents(x)
  BY <1>2, <1>4, SoundNode
<1>. HIDE DEF u
<1>. QED BY <1>1, <1>2, <1>5, Zenon

(* addnode on the left. *)
LEMMA AddedLeftIs ==
  ASSUME NEW t, Sound(t), t # Nil, Height[t] < MaxHeight, NEW k \in Key,
         k < t.key, NEW sub,
         Grown(sub, Height[t.left], Contents(t.left) \cup {k}),
         sub.r = 1 /\ t.left # Nil => sub.tree.balance # 0
  PROVE  LET res == AddedLeft(t, sub)
         IN  /\ Grown(res, Height[t], Contents(t) \cup {k})
             /\ res.r = 1 => res.tree.balance # 0
<1>. DEFINE x == sub.tree
            a == [t EXCEPT !.left = x]
            keys == {t.key} \cup Contents(x) \cup Contents(t.right)
<1>1. /\ Sound(x) /\ sub.r \in {0, 1} /\ Height[x] = Height[t.left] + sub.r
      /\ Contents(x) = Contents(t.left) \cup {k}
  BY DEF Grown
<1>2. /\ Sound(t.left) /\ Between(t.left, t.key, t.right)
      /\ Contents(t) = {t.key} \cup Contents(t.left) \cup Contents(t.right)
  BY SoundParts
<1>3. Height[t.left] \in Nat /\ Height[t] \in Nat BY <1>2, SoundFacts
<1>4. AddedLeft(t, sub) = IF sub.r = 1 THEN LeftGrew(a) ELSE Result(a, 0)
  BY Zenon DEF AddedLeft
<1>5. t.left = Nil \/ sub.r # 1 \/ x.balance # 0 OBVIOUS
<1>. HIDE DEF x
<1>6. Between(x, t.key, t.right) BY <1>1, <1>2 DEF Between
<1>7. keys = Contents(t) \cup {k} BY <1>1, <1>2
<1>8. CASE sub.r = 1
  <2>1. Height[x] = Height[t.left] + 1 BY <1>1, <1>8
  <2>. DEFINE res == LeftGrew(a)
  <2>2. Grown(res, Height[t], keys) /\ (res.r = 1 => res.tree.balance # 0)
    BY <1>1, <1>5, <1>6, <1>8, <2>1, LeftGrewIs
  <2>. HIDE DEF a, keys
  <2>. QED BY <1>4, <1>7, <1>8, <2>2
<1>9. CASE sub.r = 0
  <2>1. Height[x] = Height[t.left] BY <1>1, <1>3, <1>9
  <2>2. Sound(a) /\ Height[a] = Height[t] /\ Contents(a) = keys
    BY <1>1, <1>6, <2>1, LeftKeptIs
  <2>. HIDE DEF a, keys
  <2>3. AddedLeft(t, sub) = Result(a, 0) BY <1>4, <1>9
  <2>. QED BY <1>3, <1>7, <2>2, <2>3, Results DEF Grown
<1>. QED BY <1>1, <1>8, <1>9

(* addnode on the right. *)
LEMMA AddedRightIs ==
  ASSUME NEW t, Sound(t), t # Nil, Height[t] < MaxHeight, NEW k \in Key,
         t.key < k, NEW sub,
         Grown(sub, Height[t.right], Contents(t.right) \cup {k}),
         sub.r = 1 /\ t.right # Nil => sub.tree.balance # 0
  PROVE  LET res == AddedRight(t, sub)
         IN  /\ Grown(res, Height[t], Contents(t) \cup {k})
             /\ res.r = 1 => res.tree.balance # 0
<1>. DEFINE x == sub.tree
            a == [t EXCEPT !.right = x]
            keys == {t.key} \cup Contents(t.left) \cup Contents(x)
<1>1. /\ Sound(x) /\ sub.r \in {0, 1} /\ Height[x] = Height[t.right] + sub.r
      /\ Contents(x) = Contents(t.right) \cup {k}
  BY DEF Grown
<1>2. /\ Sound(t.right) /\ Between(t.left, t.key, t.right)
      /\ Contents(t) = {t.key} \cup Contents(t.left) \cup Contents(t.right)
  BY SoundParts
<1>3. Height[t.right] \in Nat /\ Height[t] \in Nat BY <1>2, SoundFacts
<1>4. AddedRight(t, sub) = IF sub.r = 1 THEN RightGrew(a) ELSE Result(a, 0)
  BY Zenon DEF AddedRight
<1>5. t.right = Nil \/ sub.r # 1 \/ x.balance # 0 OBVIOUS
<1>. HIDE DEF x
<1>6. Between(t.left, t.key, x) BY <1>1, <1>2 DEF Between
<1>7. keys = Contents(t) \cup {k} BY <1>1, <1>2
<1>8. CASE sub.r = 1
  <2>1. Height[x] = Height[t.right] + 1 BY <1>1, <1>8
  <2>. DEFINE res == RightGrew(a)
  <2>2. Grown(res, Height[t], keys) /\ (res.r = 1 => res.tree.balance # 0)
    BY <1>1, <1>5, <1>6, <1>8, <2>1, RightGrewIs
  <2>. HIDE DEF a, keys
  <2>. QED BY <1>4, <1>7, <1>8, <2>2
<1>9. CASE sub.r = 0
  <2>1. Height[x] = Height[t.right] BY <1>1, <1>3, <1>9
  <2>2. Sound(a) /\ Height[a] = Height[t] /\ Contents(a) = keys
    BY <1>1, <1>6, <2>1, RightKeptIs
  <2>. HIDE DEF a, keys
  <2>3. AddedRight(t, sub) = Result(a, 0) BY <1>4, <1>9
  <2>. QED BY <1>3, <1>7, <2>2, <2>3, Results DEF Grown
<1>. QED BY <1>1, <1>8, <1>9

(* A removal on the left. *)
LEMMA TakenLeftIs ==
  ASSUME NEW t, Sound(t), t # Nil, NEW k, k # t.key, k \notin Contents(t.right),
         NEW sub, Shrunk(sub, Height[t.left], Contents(t.left) \ {k})
  PROVE  Shrunk(TakenLeft(t, sub), Height[t], Contents(t) \ {k})
<1>. DEFINE x == sub.tree
            a == [t EXCEPT !.left = x]
            keys == {t.key} \cup Contents(x) \cup Contents(t.right)
<1>1. /\ Sound(x) /\ sub.r \in {0, 1} /\ Height[x] = Height[t.left] - sub.r
      /\ Contents(x) = Contents(t.left) \ {k}
  BY DEF Shrunk
<1>2. /\ Sound(t.left) /\ Between(t.left, t.key, t.right)
      /\ Contents(t) = {t.key} \cup Contents(t.left) \cup Contents(t.right)
  BY SoundParts
<1>3. Height[t.left] \in Nat /\ Height[t] \in Nat BY <1>2, SoundFacts
<1>4. TakenLeft(t, sub) = IF sub.r = 1 THEN LeftShrank(a) ELSE Result(a, 0)
  BY Zenon DEF TakenLeft
<1>. HIDE DEF x
<1>5. Between(x, t.key, t.right) BY <1>1, <1>2 DEF Between
<1>6. keys = Contents(t) \ {k} BY <1>1, <1>2
<1>7. CASE sub.r = 1
  <2>1. Height[x] = Height[t.left] - 1 BY <1>1, <1>7
  <2>2. Shrunk(LeftShrank(a), Height[t], keys)
    BY <1>1, <1>5, <2>1, LeftShrankIs
  <2>. HIDE DEF a, keys
  <2>. QED BY <1>4, <1>6, <1>7, <2>2
<1>8. CASE sub.r = 0
  <2>1. Height[x] = Height[t.left] BY <1>1, <1>3, <1>8
  <2>2. Sound(a) /\ Height[a] = Height[t] /\ Contents(a) = keys
    BY <1>1, <1>5, <2>1, LeftKeptIs
  <2>. HIDE DEF a, keys
  <2>3. TakenLeft(t, sub) = Result(a, 0) BY <1>4, <1>8
  <2>. QED BY <1>3, <1>6, <2>2, <2>3, Results DEF Shrunk
<1>. QED BY <1>1, <1>7, <1>8

(* A removal on the right. *)
LEMMA TakenRightIs ==
  ASSUME NEW t, Sound(t), t # Nil, NEW k, k # t.key, k \notin Contents(t.left),
         NEW sub, Shrunk(sub, Height[t.right], Contents(t.right) \ {k})
  PROVE  Shrunk(TakenRight(t, sub), Height[t], Contents(t) \ {k})
<1>. DEFINE x == sub.tree
            a == [t EXCEPT !.right = x]
            keys == {t.key} \cup Contents(t.left) \cup Contents(x)
<1>1. /\ Sound(x) /\ sub.r \in {0, 1} /\ Height[x] = Height[t.right] - sub.r
      /\ Contents(x) = Contents(t.right) \ {k}
  BY DEF Shrunk
<1>2. /\ Sound(t.right) /\ Between(t.left, t.key, t.right)
      /\ Contents(t) = {t.key} \cup Contents(t.left) \cup Contents(t.right)
  BY SoundParts
<1>3. Height[t.right] \in Nat /\ Height[t] \in Nat BY <1>2, SoundFacts
<1>4. TakenRight(t, sub) = IF sub.r = 1 THEN RightShrank(a) ELSE Result(a, 0)
  BY Zenon DEF TakenRight
<1>. HIDE DEF x
<1>5. Between(t.left, t.key, x) BY <1>1, <1>2 DEF Between
<1>6. keys = Contents(t) \ {k} BY <1>1, <1>2
<1>7. CASE sub.r = 1
  <2>1. Height[x] = Height[t.right] - 1 BY <1>1, <1>7
  <2>2. Shrunk(RightShrank(a), Height[t], keys)
    BY <1>1, <1>5, <2>1, RightShrankIs
  <2>. HIDE DEF a, keys
  <2>. QED BY <1>4, <1>6, <1>7, <2>2
<1>8. CASE sub.r = 0
  <2>1. Height[x] = Height[t.right] BY <1>1, <1>3, <1>8
  <2>2. Sound(a) /\ Height[a] = Height[t] /\ Contents(a) = keys
    BY <1>1, <1>5, <2>1, RightKeptIs
  <2>. HIDE DEF a, keys
  <2>3. TakenRight(t, sub) = Result(a, 0) BY <1>4, <1>8
  <2>. QED BY <1>3, <1>6, <2>2, <2>3, Results DEF Shrunk
<1>. QED BY <1>1, <1>7, <1>8

-----------------------------------------------------------------------------
(* addnode, rmnode and find_cache_metablock, on all sound trees. *)

(* addnode puts in the key and says whether the tree grew; a tree that grew,
   other than from nothing, leans to one side. *)
LEMMA AddNodeGrows ==
  ASSUME NEW k \in Key
  PROVE  \A t \in Tree : Sound(t) /\ Height[t] < MaxHeight /\ k \notin Contents(t) =>
           Grown(AddNode(t, k), Height[t], Contents(t) \cup {k})
<1>. DEFINE Ok(t) ==
              /\ Grown(AddNode(t, k), Height[t], Contents(t) \cup {k})
              /\ AddNode(t, k).r = 1 /\ t # Nil => AddNode(t, k).tree.balance # 0
            S == {t \in Tree :
                    Sound(t) /\ Height[t] < MaxHeight /\ k \notin Contents(t) => Ok(t)}
<1>1. Nil \in S
  <2>. SUFFICES ASSUME Height[Nil] < MaxHeight PROVE Ok(Nil) BY NilIsTree
  <2>. DEFINE leaf == Node(k, 0, Nil, Nil)
  <2>1. AddNode(Nil, k) = Result(leaf, 1) BY NilIsTree, AddNodeIs
  <2>2. Height[Nil] = 0 /\ Contents(Nil) = {} BY Heights, ContentsAre
  <2>3. Between(Nil, k, Nil) BY <2>2 DEF Between
  <2>4. Sound(leaf) /\ Height[leaf] = 1 /\ Contents(leaf) = {k}
    BY <2>2, <2>3, NilIsSound, SoundNode DEF Greater
  <2>. HIDE DEF leaf
  <2>. QED BY <2>1, <2>2, <2>4, Results DEF Grown
<1>2. ASSUME NEW t \in Tree \ {Nil}, t.left \in S, t.right \in S PROVE t \in S
  <2>1. SUFFICES ASSUME Sound(t), Height[t] < MaxHeight, k \notin Contents(t)
                 PROVE  Ok(t)
    OBVIOUS
  <2>2. /\ Sound(t.left) /\ Sound(t.right) /\ t.key \in Int /\ k \in Int
        /\ Height[t] = 1 + Greater(Height[t.left], Height[t.right])
        /\ Contents(t) = {t.key} \cup Contents(t.left) \cup Contents(t.right)
    BY <2>1, SoundParts, TreeAssumption
  <2>3. Height[t.left] \in Nat /\ Height[t.right] \in Nat /\ MaxHeight \in Nat
    BY <2>2, SoundFacts, TreeAssumption
  <2>4. Height[t.left] < MaxHeight /\ Height[t.right] < MaxHeight
    BY <2>1, <2>2, <2>3 DEF Greater
  <2>5. Ok(t.left) /\ Ok(t.right)
    <3>. HIDE DEF Ok
    <3>. QED BY <1>2, <2>1, <2>2, <2>4
  <2>6. AddNode(t, k) = IF k < t.key THEN AddedLeft(t, AddNode(t.left, k))
                        ELSE AddedRight(t, AddNode(t.right, k))
    BY AddNodeIs
  <2>7. CASE k < t.key
    <3>1. AddNode(t, k) = AddedLeft(t, AddNode(t.left, k)) BY <2>6, <2>7
    <3>. DEFINE res == AddedLeft(t, AddNode(t.left, k))
    <3>2. /\ Grown(res, Height[t], Contents(t) \cup {k})
          /\ res.r = 1 => res.tree.balance # 0
      BY <2>1, <2>5, <2>7, AddedLeftIs
    <3>. QED BY <3>1, <3>2
  <2>8. CASE ~(k < t.key)
    <3>1. AddNode(t, k) = AddedRight(t, AddNode(t.right, k)) BY <2>6, <2>8
    <3>2. t.key < k BY <2>1, <2>2, <2>8
    <3>. DEFINE res == AddedRight(t, AddNode(t.right, k))
    <3>3. /\ Grown(res, Height[t], Contents(t) \cup {k})
          /\ res.r = 1 => res.tree.balance # 0
      BY <2>1, <2>5, <3>2, AddedRightIs
    <3>. QED BY <3>1, <3>3
  <2>. QED BY <2>7, <2>8
<1>3. S = Tree
  <2>1. S \in SUBSET Tree OBVIOUS
  <2>. HIDE DEF S
  <2>. QED BY <1>1, <1>2, <2>1, TreeInduction
<1>. QED BY <1>3

(* extracthighest takes out the highest key of a tree. *)
LEMMA HighestKey ==
  \A t \in Tree : Sound(t) /\ t # Nil =>
    LET e == ExtractHighest[t]
    IN  /\ Shrunk(e, Height[t], Contents(t) \ {e.node})
        /\ e.node \in Contents(t)
        /\ \A x \in Contents(e.tree) : x < e.node
<1>. DEFINE Ok(t) == LET e == ExtractHighest[t]
                     IN  /\ Shrunk(e, Height[t], Contents(t) \ {e.node})
                         /\ e.node \in Contents(t)
                         /\ \A x \in Contents(e.tree) : x < e.node
            S == {t \in Tree : Sound(t) /\ t # Nil => Ok(t)}
<1>1. Nil \in S BY NilIsTree
<1>2. ASSUME NEW t \in Tree \ {Nil}, t.left \in S, t.right \in S PROVE t \in S
  <2>1. SUFFICES ASSUME Sound(t) PROVE Ok(t) OBVIOUS
  <2>. DEFINE e == ExtractHighest[t]
              f == ExtractHighest[t.right]
  <2>2. /\ Sound(t.left) /\ Sound(t.right) /\ t.key \in Int
        /\ Between(t.left, t.key, t.right)
        /\ Height[t] = 1 + Greater(Height[t.left], Height[t.right])
        /\ Contents(t) = {t.key} \cup Contents(t.left) \cup Contents(t.right)
    BY <2>1, SoundParts
  <2>3. /\ Height[t.left] \in Nat /\ Height[t.right] \in Nat
        /\ Contents(t.left) \subseteq Int /\ Contents(t.right) \subseteq Int
    BY <2>2, SoundFacts
  <2>4. CASE t.right = Nil
    <3>1. e = Extracted(Result(t.left, 1), t.key) BY <2>4, ExtractHighestIs
    <3>2. e.tree = t.left /\ e.r = 1 /\ e.node = t.key
      BY <3>1, Results DEF Extracted
    <3>3. Height[t.right] = 0 /\ Contents(t.right) = {} BY <2>4, Heights, ContentsAre
    <3>4. Height[t.left] = Height[t] - 1 BY <2>2, <2>3, <3>3 DEF Greater
    <3>5. t.key \notin Contents(t.left) BY <2>2, <2>3 DEF Between
    <3>6. Contents(t.left) = Contents(t) \ {t.key} BY <2>2, <3>3, <3>5
    <3>. HIDE DEF e
    <3>7. Shrunk(e, Height[t], Contents(t) \ {e.node})
      BY <2>2, <3>2, <3>4, <3>6 DEF Shrunk
    <3>8. e.node \in Contents(t) /\ \A x \in Contents(e.tree) : x < e.node
      BY <2>2, <3>2 DEF Between
    <3>. QED BY <3>7, <3>8 DEF e
  <2>5. CASE t.right # Nil
    <3>1. e = Extracted(TakenRight(t, f), f.node) BY <2>5, ExtractHighestIs
    <3>2. /\ Shrunk(f, Height[t.right], Contents(t.right) \ {f.node})
          /\ f.node \in Contents(t.right)
          /\ \A x \in Contents(f.tree) : x < f.node
      <4>1. Ok(t.right)
        <5>. HIDE DEF Ok
        <5>. QED BY <1>2, <2>2, <2>5
      <4>. QED BY <4>1
    <3>. HIDE DEF f
    <3>3. f.node # t.key /\ f.node \notin Contents(t.left) /\ t.key < f.node
      <4>1. t.key < f.node BY <2>2, <3>2 DEF Between
      <4>2. \A x \in Contents(t.left) : x < t.key BY <2>2 DEF Between
      <4>. QED BY <2>2, <2>3, <3>2, <4>1, <4>2
    <3>4. Shrunk(TakenRight(t, f), Height[t], Contents(t) \ {f.node})
      BY <2>1, <3>2, <3>3, TakenRightIs
    <3>5. /\ e.tree = TakenRight(t, f).tree /\ e.r = TakenRight(t, f).r
          /\ e.node = f.node
      BY <3>1 DEF Extracted
    <3>. HIDE DEF e
    <3>6. Shrunk(e, Height[t], Contents(t) \ {e.node}) BY <3>4, <3>5 DEF Shrunk
    <3>7. e.node \in Contents(t) BY <2>2, <3>2, <3>5
    <3>8. ASSUME NEW x \in Contents(e.tree) PROVE x < e.node
      <4>1. x \in Contents(t) \ {f.node} BY <3>5, <3>6 DEF Shrunk
      <4>2. CASE x \in Contents(t.right)
        <5>1. Contents(f.tree) = Contents(t.right) \ {f.node} BY <3>2 DEF Shrunk
        <5>. QED BY <3>2, <3>5, <4>1, <4>2, <5>1
      <4>3. CASE x = t.key BY <3>3, <3>5, <4>3
      <4>4. CASE x \in Contents(t.left)
        <5>1. x < t.key BY <2>2, <4>4 DEF Between
        <5>. QED BY <2>2, <2>3, <3>2, <3>3, <3>5, <4>4, <5>1
      <4>. QED BY <2>2, <4>1, <4>2, <4>3, <4>4
    <3>. QED BY <3>6, <3>7, <3>8 DEF e
  <2>. QED BY <2>4, <2>5
<1>3. S = Tree
  <2>1. S \in SUBSET Tree OBVIOUS
  <2>. HIDE DEF S
  <2>. QED BY <1>1, <1>2, <2>1, TreeInduction
<1>. QED BY <1>3

(* extractlowest takes out the lowest key of a tree. *)
LEMMA LowestKey ==
  \A t \in Tree : Sound(t) /\ t # Nil =>
    LET e == ExtractLowest[t]
    IN  /\ Shrunk(e, Height[t], Contents(t) \ {e.node})
        /\ e.node \in Contents(t)
        /\ \A x \in Contents(e.tree) : e.node < x
<1>. DEFINE Ok(t) == LET e == ExtractLowest[t]
                     IN  /\ Shrunk(e, Height[t], Contents(t) \ {e.node})
                         /\ e.node \in Contents(t)
                         /\ \A x \in Contents(e.tree) : e.node < x
            S == {t \in Tree : Sound(t) /\ t # Nil => Ok(t)}
<1>1. Nil \in S BY NilIsTree
<1>2. ASSUME NEW t \in Tree \ {Nil}, t.left \in S, t.right \in S PROVE t \in S
  <2>1. SUFFICES ASSUME Sound(t) PROVE Ok(t) OBVIOUS
  <2>. DEFINE e == ExtractLowest[t]
              f == ExtractLowest[t.left]
  <2>2. /\ Sound(t.left) /\ Sound(t.right) /\ t.key \in Int
        /\ Between(t.left, t.key, t.right)
        /\ Height[t] = 1 + Greater(Height[t.left], Height[t.right])
        /\ Contents(t) = {t.key} \cup Contents(t.left) \cup Contents(t.right)
    BY <2>1, SoundParts
  <2>3. /\ Height[t.left] \in Nat /\ Height[t.right] \in Nat
        /\ Contents(t.left) \subseteq Int /\ Contents(t.right) \subseteq Int
    BY <2>2, SoundFacts
  <2>4. CASE t.left = Nil
    <3>1. e = Extracted(Result(t.right, 1), t.key) BY <2>4, ExtractLowestIs
    <3>2. e.tree = t.right /\ e.r = 1 /\ e.node = t.key
      BY <3>1, Results DEF Extracted
    <3>3. Height[t.left] = 0 /\ Contents(t.left) = {} BY <2>4, Heights, ContentsAre
    <3>4. Height[t.right] = Height[t] - 1 BY <2>2, <2>3, <3>3 DEF Greater
    <3>5. t.key \notin Contents(t.right) BY <2>2, <2>3 DEF Between
    <3>6. Contents(t.right) = Contents(t) \ {t.key} BY <2>2, <3>3, <3>5
    <3>. HIDE DEF e
    <3>7. Shrunk(e, Height[t], Contents(t) \ {e.node})
      BY <2>2, <3>2, <3>4, <3>6 DEF Shrunk
    <3>8. e.node \in Contents(t) /\ \A x \in Contents(e.tree) : e.node < x
      BY <2>2, <3>2 DEF Between
    <3>. QED BY <3>7, <3>8 DEF e
  <2>5. CASE t.left # Nil
    <3>1. e = Extracted(TakenLeft(t, f), f.node) BY <2>5, ExtractLowestIs
    <3>2. /\ Shrunk(f, Height[t.left], Contents(t.left) \ {f.node})
          /\ f.node \in Contents(t.left)
          /\ \A x \in Contents(f.tree) : f.node < x
      <4>1. Ok(t.left)
        <5>. HIDE DEF Ok
        <5>. QED BY <1>2, <2>2, <2>5
      <4>. QED BY <4>1
    <3>. HIDE DEF f
    <3>3. f.node # t.key /\ f.node \notin Contents(t.right) /\ f.node < t.key
      <4>1. f.node < t.key BY <2>2, <3>2 DEF Between
      <4>2. \A x \in Contents(t.right) : t.key < x BY <2>2 DEF Between
      <4>. QED BY <2>2, <2>3, <3>2, <4>1, <4>2
    <3>4. Shrunk(TakenLeft(t, f), Height[t], Contents(t) \ {f.node})
      BY <2>1, <3>2, <3>3, TakenLeftIs
    <3>5. /\ e.tree = TakenLeft(t, f).tree /\ e.r = TakenLeft(t, f).r
          /\ e.node = f.node
      BY <3>1 DEF Extracted
    <3>. HIDE DEF e
    <3>6. Shrunk(e, Height[t], Contents(t) \ {e.node}) BY <3>4, <3>5 DEF Shrunk
    <3>7. e.node \in Contents(t) BY <2>2, <3>2, <3>5
    <3>8. ASSUME NEW x \in Contents(e.tree) PROVE e.node < x
      <4>1. x \in Contents(t) \ {f.node} BY <3>5, <3>6 DEF Shrunk
      <4>2. CASE x \in Contents(t.left)
        <5>1. Contents(f.tree) = Contents(t.left) \ {f.node} BY <3>2 DEF Shrunk
        <5>. QED BY <3>2, <3>5, <4>1, <4>2, <5>1
      <4>3. CASE x = t.key BY <3>3, <3>5, <4>3
      <4>4. CASE x \in Contents(t.right)
        <5>1. t.key < x BY <2>2, <4>4 DEF Between
        <5>. QED BY <2>2, <2>3, <3>2, <3>3, <3>5, <4>4, <5>1
      <4>. QED BY <2>2, <4>1, <4>2, <4>3, <4>4
    <3>. QED BY <3>6, <3>7, <3>8 DEF e
  <2>. QED BY <2>4, <2>5
<1>3. S = Tree
  <2>1. S \in SUBSET Tree OBVIOUS
  <2>. HIDE DEF S
  <2>. QED BY <1>1, <1>2, <2>1, TreeInduction
<1>. QED BY <1>3

(* rmnode at the node itself: a key next to it takes its place. *)
LEMMA RemoveRootIs ==
  ASSUME NEW t, Sound(t), t # Nil
  PROVE  Shrunk(RemoveRoot(t), Height[t], Contents(t) \ {t.key})
<1>. DEFINE rest == Contents(t) \ {t.key}
<1>1. /\ Sound(t.left) /\ Sound(t.right) /\ t.key \in Int
      /\ Between(t.left, t.key, t.right)
      /\ t.balance = Height[t.left] - Height[t.right] /\ t.balance \in -1..1
      /\ Height[t] = 1 + Greater(Height[t.left], Height[t.right])
      /\ Contents(t) = {t.key} \cup Contents(t.left) \cup Contents(t.right)
  BY SoundParts
<1>2. /\ Height[t.left] \in Nat /\ (t.left = Nil) = (Height[t.left] = 0)
      /\ Height[t.right] \in Nat /\ (t.right = Nil) = (Height[t.right] = 0)
      /\ Contents(t.left) \subseteq Int /\ Contents(t.left) \subseteq Key
      /\ Contents(t.right) \subseteq Int /\ Contents(t.right) \subseteq Key
      /\ t.left \in Tree /\ t.right \in Tree
  BY <1>1, SoundFacts
<1>3. MaxHeight \in Nat /\ Height[t] <= MaxHeight
  BY TreeAssumption, HeightBound DEF Sound
<1>4. Height[t.left] < MaxHeight /\ Height[t.right] < MaxHeight
  BY <1>1, <1>2, <1>3 DEF Greater
<1>5. rest = Contents(t.left) \cup Contents(t.right)
  <2>1. t.key \notin Contents(t.left) /\ t.key \notin Contents(t.right)
    BY <1>1, <1>2 DEF Between
  <2>. QED BY <1>1, <2>1
<1>6. CASE t.left # Nil /\ t.balance \in {0, 1}
  <2>. DEFINE e == ExtractHighest[t.left]
              b == t.balance - e.r
              u == Node(e.node, b, e.tree, t.right)
  <2>1. /\ e.r \in {0, 1} /\ Sound(e.tree) /\ Height[e.tree] = Height[t.left] - e.r
        /\ Contents(e.tree) = Contents(t.left) \ {e.node}
        /\ e.node \in Contents(t.left)
        /\ \A x \in Contents(e.tree) : x < e.node
    BY <1>1, <1>2, <1>6, HighestKey DEF Shrunk
  <2>2. RemoveRoot(t) = Result(u, IF t.balance = 1 THEN e.r ELSE 0)
    <3>1. CASE t.balance = 1
      <4>1. RemoveRoot(t) = Result(Node(e.node, IF e.r = 1 THEN 0 ELSE 1,
                                        e.tree, t.right), e.r)
        BY <3>1 DEF RemoveRoot
      <4>2. b = IF e.r = 1 THEN 0 ELSE 1 BY <2>1, <3>1
      <4>. QED BY <3>1, <4>1, <4>2
    <3>2. CASE t.balance = 0
      <4>1. t.balance # 1 /\ t.balance # -1 BY <3>2
      <4>2. RemoveRoot(t) = Result(Node(e.node, IF e.r = 1 THEN -1 ELSE 0,
                                        e.tree, t.right), 0)
        BY <1>6, <3>2, <4>1 DEF RemoveRoot
      <4>3. b = IF e.r = 1 THEN -1 ELSE 0 BY <2>1, <3>2
      <4>. QED BY <3>2, <4>2, <4>3
    <3>. QED BY <1>6, <3>1, <3>2
  <2>3. Between(e.tree, e.node, t.right)
    <3>1. e.node < t.key /\ e.node \in Int BY <1>1, <1>2, <2>1 DEF Between
    <3>2. ASSUME NEW x \in Contents(t.right) PROVE e.node < x
      <4>1. t.key < x BY <1>1 DEF Between
      <4>. QED BY <1>1, <1>2, <3>1, <4>1
    <3>. QED BY <2>1, <3>2 DEF Between
  <2>4. b = Height[e.tree] - Height[t.right] /\ b \in -1..1 /\ Height[e.tree] < MaxHeight
    <3>. HIDE DEF e
    <3>1. Height[e.tree] \in Nat BY <2>1, SoundFacts
    <3>2. Height[e.tree] < MaxHeight BY <1>2, <1>3, <1>4, <2>1, <3>1
    <3>3. b = Height[e.tree] - Height[t.right] BY <1>1, <1>2, <2>1, <3>1
    <3>4. b \in -1..1 BY <1>6, <2>1
    <3>. QED BY <3>2, <3>3, <3>4
  <2>. HIDE DEF b
  <2>5. /\ Sound(u) /\ Height[u] = 1 + Greater(Height[e.tree], Height[t.right])
        /\ Contents(u) = {e.node} \cup Contents(e.tree) \cup Contents(t.right)
    BY <1>1, <1>2, <1>4, <2>1, <2>3, <2>4, SoundNode
  <2>. HIDE DEF u, e
  <2>6. Height[u] = Height[t] - (IF t.balance = 1 THEN e.r ELSE 0)
    BY <1>1, <1>2, <1>6, <2>1, <2>5 DEF Greater
  <2>7. Contents(u) = rest BY <1>5, <2>1, <2>5
  <2>8. (IF t.balance = 1 THEN e.r ELSE 0) \in {0, 1} BY <2>1
  <2>. QED BY <2>2, <2>5, <2>6, <2>7, <2>8, Results DEF Shrunk
<1>7. CASE t.balance = -1
  <2>. DEFINE e == ExtractLowest[t.right]
              b == IF e.r = 1 THEN 0 ELSE -1
              u == Node(e.node, b, t.left, e.tree)
  <2>0. t.right # Nil BY <1>1, <1>2, <1>7
  <2>1. /\ e.r \in {0, 1} /\ Sound(e.tree) /\ Height[e.tree] = Height[t.right] - e.r
        /\ Contents(e.tree) = Contents(t.right) \ {e.node}
        /\ e.node \in Contents(t.right)
        /\ \A x \in Contents(e.tree) : e.node < x
    BY <1>1, <1>2, <2>0, LowestKey DEF Shrunk
  <2>2. RemoveRoot(t) = Result(u, e.r) BY <1>7 DEF RemoveRoot
  <2>3. Between(t.left, e.node, e.tree)
    <3>1. t.key < e.node /\ e.node \in Int BY <1>1, <1>2, <2>1 DEF Between
    <3>2. ASSUME NEW x \in Contents(t.left) PROVE x < e.node
      <4>1. x < t.key BY <1>1 DEF Between
      <4>. QED BY <1>1, <1>2, <3>1, <4>1
    <3>. QED BY <2>1, <3>2 DEF Between
  <2>4. b = Height[t.left] - Height[e.tree] /\ b \in -1..1 /\ Height[e.tree] < MaxHeight
    BY <1>1, <1>2, <1>4, <1>7, <2>1
  <2>. HIDE DEF b
  <2>5. /\ Sound(u) /\ Height[u] = 1 + Greater(Height[t.left], Height[e.tree])
        /\ Contents(u) = {e.node} \cup Contents(t.left) \cup Contents(e.tree)
    BY <1>1, <1>2, <1>4, <2>1, <2>3, <2>4, SoundNode
  <2>. HIDE DEF u, e
  <2>6. Height[u] = Height[t] - e.r BY <1>1, <1>2, <1>7, <2>1, <2>5 DEF Greater
  <2>7. Contents(u) = rest BY <1>5, <2>1, <2>5
  <2>. QED BY <2>1, <2>2, <2>5, <2>6, <2>7, Results DEF Shrunk
<1>8. CASE t.left = Nil /\ t.balance # -1
  <2>1. t.balance = 0 /\ t.right = Nil /\ Height[t.left] = 0 /\ Height[t.right] = 0
    BY <1>1, <1>2, <1>8
  <2>2. RemoveRoot(t) = Result(Nil, 1)
    <3>1. t.balance # 1 /\ t.balance # -1 BY <2>1
    <3>. QED BY <1>8, <3>1 DEF RemoveRoot
  <2>3. Height[Nil] = Height[t] - 1 /\ Contents(Nil) = rest
    BY <1>1, <1>5, <1>8, <2>1, Heights, ContentsAre DEF Greater
  <2>. QED BY <2>2, <2>3, NilIsSound, Results DEF Shrunk
<1>9. t.balance \in {-1, 0, 1} BY <1>1
<1>. QED BY <1>6, <1>7, <1>8, <1>9

(* rmnode takes out the key and says whether the tree shrank. *)
LEMMA RmNodeShrinks ==
  ASSUME NEW k \in Key
  PROVE  \A t \in Tree : Sound(t) =>
           Shrunk(RmNode(t, k), Height[t], Contents(t) \ {k})
<1>. DEFINE Ok(t) == Shrunk(RmNode(t, k), Height[t], Contents(t) \ {k})
            S == {t \in Tree : Sound(t) => Ok(t)}
<1>1. Nil \in S
  <2>1. RmNode(Nil, k) = Result(Nil, 0) BY NilIsTree, RmNodeIs
  <2>2. Height[Nil] = 0 /\ Contents(Nil) = {} BY Heights, ContentsAre
  <2>. QED BY <2>1, <2>2, NilIsTree, NilIsSound, Results DEF Shrunk
<1>2. ASSUME NEW t \in Tree \ {Nil}, t.left \in S, t.right \in S PROVE t \in S
  <2>1. SUFFICES ASSUME Sound(t) PROVE Ok(t) OBVIOUS
  <2>2. /\ Sound(t.left) /\ Sound(t.right) /\ t.key \in Int /\ k \in Int
        /\ Between(t.left, t.key, t.right)
    BY <2>1, SoundParts, TreeAssumption
  <2>3. /\ Contents(t.left) \subseteq Int /\ Contents(t.right) \subseteq Int
    BY <2>2, SoundFacts
  <2>4. Ok(t.left) /\ Ok(t.right) BY <1>2, <2>2
  <2>5. RmNode(t, k) = IF k = t.key THEN RemoveRoot(t)
                       ELSE IF k < t.key THEN TakenLeft(t, RmNode(t.left, k))
                       ELSE TakenRight(t, RmNode(t.right, k))
    BY RmNodeIs
  <2>6. CASE k = t.key BY <2>1, <2>5, <2>6, RemoveRootIs
  <2>7. CASE k # t.key /\ k < t.key
    <3>1. k \notin Contents(t.right) BY <2>2, <2>3, <2>7 DEF Between
    <3>2. Shrunk(TakenLeft(t, RmNode(t.left, k)), Height[t], Contents(t) \ {k})
      BY <2>1, <2>4, <2>7, <3>1, TakenLeftIs
    <3>. QED BY <2>5, <2>7, <3>2
  <2>8. CASE k # t.key /\ ~(k < t.key)
    <3>1. k \notin Contents(t.left) BY <2>2, <2>3, <2>8 DEF Between
    <3>2. Shrunk(TakenRight(t, RmNode(t.right, k)), Height[t], Contents(t) \ {k})
      BY <2>1, <2>4, <2>8, <3>1, TakenRightIs
    <3>. QED BY <2>5, <2>8, <3>2
  <2>. QED BY <2>6, <2>7, <2>8
<1>3. S = Tree
  <2>1. S \in SUBSET Tree OBVIOUS
  <2>. HIDE DEF S
  <2>. QED BY <1>1, <1>2, <2>1, TreeInduction
<1>. QED BY <1>3

(* The search goes where the key must be. *)
LEMMA FindFinds ==
  ASSUME NEW k \in Key
  PROVE  \A t \in Tree : Sound(t) =>
           /\ (Find(t, k) # Nil) = (k \in Contents(t))
           /\ Find(t, k) # Nil => Find(t, k).key = k
<1>. DEFINE Ok(t) == /\ (Find(t, k) # Nil) = (k \in Contents(t))
                     /\ Find(t, k) # Nil => Find(t, k).key = k
            S == {t \in Tree : Sound(t) => Ok(t)}
<1>1. Nil \in S BY NilIsTree, FindIs, ContentsAre
<1>2. ASSUME NEW t \in Tree \ {Nil}, t.left \in S, t.right \in S PROVE t \in S
  <2>1. SUFFICES ASSUME Sound(t) PROVE Ok(t) OBVIOUS
  <2>2. /\ Sound(t.left) /\ Sound(t.right) /\ t.key \in Int /\ k \in Int
        /\ Between(t.left, t.key, t.right)
        /\ Contents(t) = {t.key} \cup Contents(t.left) \cup Contents(t.right)
    BY <2>1, SoundParts, TreeAssumption
  <2>3. Contents(t.left) \subseteq Int /\ Contents(t.right) \subseteq Int
    BY <2>2, SoundFacts
  <2>4. Ok(t.left) /\ Ok(t.right) BY <1>2, <2>2
  <2>5. Find(t, k) = IF k < t.key THEN Find(t.left, k)
                     ELSE IF k > t.key THEN Find(t.right, k)
                     ELSE t
    BY FindIs
  <2>6. CASE k < t.key
    <3>1. Find(t, k) = Find(t.left, k) BY <2>5, <2>6
    <3>2. k # t.key /\ k \notin Contents(t.right) BY <2>2, <2>3, <2>6 DEF Between
    <3>3. (k \in Contents(t)) = (k \in Contents(t.left)) BY <2>2, <3>2
    <3>. QED BY <2>4, <3>1, <3>3
  <2>7. CASE k > t.key
    <3>1. Find(t, k) = Find(t.right, k) BY <2>2, <2>5, <2>7
    <3>2. k # t.key /\ k \notin Contents(t.left) BY <2>2, <2>3, <2>7 DEF Between
    <3>3. (k \in Contents(t)) = (k \in Contents(t.right)) BY <2>2, <3>2
    <3>. QED BY <2>4, <3>1, <3>3
  <2>8. CASE k = t.key
    <3>1. Find(t, k) = t BY <2>2, <2>5, <2>8
    <3>. QED BY <2>2, <2>8, <3>1
  <2>. QED BY <2>2, <2>6, <2>7, <2>8
<1>3. S = Tree
  <2>1. S \in SUBSET Tree OBVIOUS
  <2>. HIDE DEF S
  <2>. QED BY <1>1, <1>2, <2>1, TreeInduction
<1>. QED BY <1>3

-----------------------------------------------------------------------------
(* The inductive invariant: the tree is sound. *)
IInv == Sound(treetop) /\ r \in {0, 1}

(* The tree is sound while it is empty, *)
LEMMA InitIsSound == Init => IInv
BY NilIsSound DEF Init, IInv

(* An addition puts in its key, and r says whether the tree grew. *)
LEMMA AddStep ==
  ASSUME IInv, NEW k \in Key, addnode_cache_metablock(k)
  PROVE  /\ k \notin Contents(treetop)
         /\ r' \in {0, 1} /\ Sound(treetop')
         /\ Height[treetop'] = Height[treetop] + r'
         /\ Contents(treetop') = Contents(treetop) \cup {k}
<1>1. treetop \in Tree /\ Sound(treetop) BY DEF IInv, Sound
<1>2. k \notin Contents(treetop) BY <1>1, FindFinds DEF addnode_cache_metablock
<1>3. Grown(AddNode(treetop, k), Height[treetop], Contents(treetop) \cup {k})
  BY <1>1, <1>2, AddNodeGrows DEF addnode_cache_metablock
<1>4. treetop' = AddNode(treetop, k).tree /\ r' = AddNode(treetop, k).r
  BY DEF addnode_cache_metablock
<1>. QED BY <1>2, <1>3, <1>4 DEF Grown

(* A removal takes its key, and no other, and r says whether the tree shrank. *)
LEMMA RemoveStep ==
  ASSUME IInv, NEW k \in Key, rmnode_cache_metablock(k)
  PROVE  /\ k \in Contents(treetop)
         /\ r' \in {0, 1} /\ Sound(treetop')
         /\ Height[treetop'] = Height[treetop] - r'
         /\ Contents(treetop') = Contents(treetop) \ {k}
<1>1. treetop \in Tree /\ Sound(treetop) BY DEF IInv, Sound
<1>2. k \in Contents(treetop) BY <1>1, FindFinds DEF rmnode_cache_metablock
<1>3. Shrunk(RmNode(treetop, k), Height[treetop], Contents(treetop) \ {k})
  BY <1>1, RmNodeShrinks
<1>4. treetop' = RmNode(treetop, k).tree /\ r' = RmNode(treetop, k).r
  BY DEF rmnode_cache_metablock
<1>. QED BY <1>2, <1>3, <1>4 DEF Shrunk

(* and no addition or removal breaks it. *)
LEMMA NextIsSound == IInv /\ [Next]_vars => IInv'
<1>. SUFFICES ASSUME IInv, [Next]_vars PROVE IInv' OBVIOUS
<1>1. ASSUME NEW k \in Key, addnode_cache_metablock(k) PROVE IInv'
  BY <1>1, AddStep DEF IInv
<1>2. ASSUME NEW k \in Key, rmnode_cache_metablock(k) PROVE IInv'
  BY <1>2, RemoveStep DEF IInv
<1>3. CASE UNCHANGED vars BY <1>3 DEF IInv, vars
<1>. QED BY <1>1, <1>2, <1>3 DEF Next

(* addnode and rmnode keep the tree of the cache sound, in every reachable
   state. *)
THEOREM AlwaysSound == Spec => []IInv
BY InitIsSound, NextIsSound, PTL DEF Spec

(* The tree is made of nodes, whatever was added and removed. *)
THEOREM TypeCorrect == Spec => []TypeOK
<1>1. IInv => TypeOK BY DEF IInv, Sound, TypeOK
<1>. QED BY <1>1, AlwaysSound, PTL

(* find_cache_metablock can rely on the order of the keys. *)
THEOREM OrderIsKept == Spec => []SearchOrder
<1>1. IInv => SearchOrder BY DEF IInv, Sound, OrderedAt, SearchOrder
<1>. QED BY <1>1, AlwaysSound, PTL

(* The balances stored in the nodes are right and the tree is never lopsided:
   with any number of keys, and after any additions and removals. *)
THEOREM StaysBalanced == Spec => []Balanced
<1>1. IInv => Balanced BY DEF IInv, Sound, BalancedAt, Balanced
<1>. QED BY <1>1, AlwaysSound, PTL

(* The search finds what is there, and nothing else. *)
THEOREM SearchIsExact == Spec => []FindsContents
<1>1. IInv => FindsContents
  <2>. SUFFICES ASSUME IInv, NEW k \in Key
                PROVE  /\ (Find(treetop, k) # Nil) = (k \in Contents(treetop))
                       /\ Find(treetop, k) # Nil => Find(treetop, k).key = k
    BY DEF FindsContents
  <2>1. treetop \in Tree /\ Sound(treetop) BY DEF IInv, Sound
  <2>. QED BY <2>1, FindFinds
<1>. QED BY <1>1, AlwaysSound, PTL

(* addnode and rmnode return 1 exactly when the depth has changed. *)
THEOREM DepthIsReported == Spec => DepthReported
<1>. DEFINE A == r' = IF Height[treetop'] # Height[treetop] THEN 1 ELSE 0
<1>1. IInv /\ [Next]_vars => [A]_vars
  <2>. SUFFICES ASSUME IInv, [Next]_vars PROVE [A]_vars OBVIOUS
  <2>0. Height[treetop] \in Nat BY SoundFacts DEF IInv
  <2>1. ASSUME NEW k \in Key, addnode_cache_metablock(k) PROVE A
    BY <2>0, <2>1, AddStep
  <2>2. ASSUME NEW k \in Key, rmnode_cache_metablock(k) PROVE A
    BY <2>0, <2>2, RemoveStep
  <2>3. CASE UNCHANGED vars BY <2>3
  <2>. QED BY <2>1, <2>2, <2>3 DEF Next
<1>. QED BY <1>1, AlwaysSound, PTL DEF Spec, DepthReported

(* The tree implements a set of keys. *)
THEOREM TreeIsASet == Spec => ImplementsKeySet
<1>1. Init => Set!Init BY ContentsAre DEF Init, Set!Init
<1>2. IInv /\ [Next]_vars => [Set!Next]_(Contents(treetop))
  <2>. SUFFICES ASSUME IInv, [Next]_vars
                PROVE  Set!Next \/ Contents(treetop)' = Contents(treetop)
    OBVIOUS
  <2>1. ASSUME NEW k \in Key, addnode_cache_metablock(k) PROVE Set!Insert(k)
    BY <2>1, AddStep DEF Set!Insert
  <2>2. ASSUME NEW k \in Key, rmnode_cache_metablock(k) PROVE Set!Delete(k)
    BY <2>2, RemoveStep DEF Set!Delete
  <2>3. CASE UNCHANGED vars BY <2>3 DEF vars, Contents
  <2>. QED BY <2>1, <2>2, <2>3 DEF Next, Set!Next
<1>. QED BY <1>1, <1>2, AlwaysSound, PTL DEF Spec, ImplementsKeySet, Set!Spec
=============================================================================
