------------------------------ MODULE AvlTree -------------------------------
(***************************************************************************)
(* The AVL tree of metablock.c, in which the cache finds the block of an   *)
(* offset.  A tree is Nil or a node with its key (thisblocksoffset), its   *)
(* stored balance (height of the left subtree minus that of the right),    *)
(* and its two subtrees.  A function of the code that works on *root_inout *)
(* is an operator from the tree before to the tree after; one that also    *)
(* says whether the depth changed returns both.                            *)
(***************************************************************************)
EXTENDS Integers

CONSTANTS
  Key,       \* the keys, some integers
  MaxHeight, \* bound of the model: no tree has more levels
  Nil        \* the null pointer

Node(k, b, left, right) ==
  [key |-> k, balance |-> b, left |-> left, right |-> right]

(* The nodes over the trees of T, and all trees up to a number of levels.  The
   balance is a signed char. *)
Nodes(T) == [key : Key, balance : -128..127, left : T, right : T]
Trees[n \in 0..MaxHeight] ==
  IF n = 0 THEN {Nil} ELSE {Nil} \cup Nodes(Trees[n - 1])
Tree == Trees[MaxHeight]

ASSUME TreeAssumption ==
  Key \subseteq Int /\ MaxHeight \in Nat /\ Nil \notin Nodes(Tree)

VARIABLES
  treetop,  \* the tree
  r         \* what the outermost addnode or rmnode returned

vars == <<treetop, r>>

Result(t, changed) == [tree |-> t, r |-> changed]

-----------------------------------------------------------------------------
(* The rotations. *)

RebalanceLeftLeft(a) ==
  LET left == a.left
  IN Node(left.key, 0, left.left, Node(a.key, 0, left.right, a.right))

RebalanceRightRight(a) ==
  LET right == a.right
  IN Node(right.key, 0, Node(a.key, 0, a.left, right.left), right.right)

(* Fault: the subtrees of the grandchild change sides. *)
RebalanceLeftRightCrossed(a) ==
  LET left == a.left
      g == left.right
      b == g.balance
  IN Node(g.key, 0,
          Node(left.key, IF b < 0 THEN 1 ELSE 0, left.left, g.right),
          Node(a.key, IF b > 0 THEN -1 ELSE 0, g.left, a.right))

RebalanceLeftRight(a) ==
  LET left == a.left
      g == left.right
      b == g.balance
  IN Node(g.key, 0,
          Node(left.key, IF b < 0 THEN 1 ELSE 0, left.left, g.left),
          Node(a.key, IF b > 0 THEN -1 ELSE 0, g.right, a.right))

RebalanceRightLeft(a) ==
  LET right == a.right
      g == right.left
      b == g.balance
  IN Node(g.key, 0,
          Node(a.key, IF b < 0 THEN 1 ELSE 0, a.left, g.left),
          Node(right.key, IF b > 0 THEN -1 ELSE 0, g.right, right.right))

(* The balance of a is left as it is, "redundant" in the code. *)
RebalanceLeftBalance(a) ==
  LET left == a.left
  IN Node(left.key, -1, left.left, [a EXCEPT !.left = left.right])

(* Fault: the new root is taken to be level, as after the other rotations. *)
RebalanceRightBalanceLevel(a) ==
  LET right == a.right
  IN Node(right.key, 0, [a EXCEPT !.right = right.left], right.right)

RebalanceRightBalance(a) ==
  LET right == a.right
  IN Node(right.key, 1, [a EXCEPT !.right = right.left], right.right)

-----------------------------------------------------------------------------
(* A subtree of a grew by one level, or lost one: its new balance, rotated
   if need be, and whether the whole tree did the same. *)

LeftGrew(a) ==
  CASE a.balance = 0 -> Result([a EXCEPT !.balance = 1], 1)
    [] a.balance < 0 -> Result([a EXCEPT !.balance = 0], 0)
    [] a.balance > 0 /\ a.left.balance > 0 -> Result(RebalanceLeftLeft(a), 0)
    [] OTHER -> Result(RebalanceLeftRight(a), 0)

RightGrew(a) ==
  CASE a.balance = 0 -> Result([a EXCEPT !.balance = -1], 1)
    [] a.balance > 0 -> Result([a EXCEPT !.balance = 0], 0)
    [] a.balance < 0 /\ a.right.balance < 0 -> Result(RebalanceRightRight(a), 0)
    [] OTHER -> Result(RebalanceRightLeft(a), 0)

(* Fault: a rotation is always taken to have made the tree shallower. *)
LeftShrankAlways(a) ==
  CASE a.balance > 0 -> Result([a EXCEPT !.balance = 0], 1)
    [] a.balance = 0 -> Result([a EXCEPT !.balance = -1], 0)
    [] a.balance < 0 /\ a.right.balance = 0 -> Result(RebalanceRightBalance(a), 1)
    [] a.balance < 0 /\ a.right.balance < 0 -> Result(RebalanceRightRight(a), 1)
    [] OTHER -> Result(RebalanceRightLeft(a), 1)

LeftShrank(a) ==
  CASE a.balance > 0 -> Result([a EXCEPT !.balance = 0], 1)
    [] a.balance = 0 -> Result([a EXCEPT !.balance = -1], 0)
    [] a.balance < 0 /\ a.right.balance = 0 -> Result(RebalanceRightBalance(a), 0)
    [] a.balance < 0 /\ a.right.balance < 0 -> Result(RebalanceRightRight(a), 1)
    [] OTHER -> Result(RebalanceRightLeft(a), 1)

RightShrank(a) ==
  CASE a.balance < 0 -> Result([a EXCEPT !.balance = 0], 1)
    [] a.balance = 0 -> Result([a EXCEPT !.balance = 1], 0)
    [] a.balance > 0 /\ a.left.balance = 0 -> Result(RebalanceLeftBalance(a), 0)
    [] a.balance > 0 /\ a.left.balance > 0 -> Result(RebalanceLeftLeft(a), 1)
    [] OTHER -> Result(RebalanceLeftRight(a), 1)

-----------------------------------------------------------------------------
(* The result of a removal from, or an addition to, one of the subtrees. *)
TakenLeft(root, sub) ==
  LET a == [root EXCEPT !.left = sub.tree]
  IN IF sub.r = 1 THEN LeftShrank(a) ELSE Result(a, 0)

TakenRight(root, sub) ==
  LET a == [root EXCEPT !.right = sub.tree]
  IN IF sub.r = 1 THEN RightShrank(a) ELSE Result(a, 0)

(* Fault: the changes of depth are added up on the way. *)
AddedLeftSummed(root, sub) ==
  LET a == [root EXCEPT !.left = sub.tree]
      res == LeftGrew(a)
  IN IF sub.r = 1 THEN Result(res.tree, res.r + sub.r) ELSE Result(a, 0)

AddedLeft(root, sub) ==
  LET a == [root EXCEPT !.left = sub.tree]
  IN IF sub.r = 1 THEN LeftGrew(a) ELSE Result(a, 0)

AddedRight(root, sub) ==
  LET a == [root EXCEPT !.right = sub.tree]
  IN IF sub.r = 1 THEN RightGrew(a) ELSE Result(a, 0)

(* Taking out the node with the highest, or the lowest, key. *)
Extracted(res, node) == [tree |-> res.tree, r |-> res.r, node |-> node]

ExtractHighest[root \in Tree \ {Nil}] ==
  IF root.right = Nil
    THEN Extracted(Result(root.left, 1), root.key)
    ELSE LET sub == ExtractHighest[root.right]
         IN Extracted(TakenRight(root, sub), sub.node)

ExtractLowest[root \in Tree \ {Nil}] ==
  IF root.left = Nil
    THEN Extracted(Result(root.right, 1), root.key)
    ELSE LET sub == ExtractLowest[root.left]
         IN Extracted(TakenLeft(root, sub), sub.node)

(* rmnode at the node itself: the highest node of the left subtree, or the
   lowest of the right one, takes its place. *)

(* Fault: a leaf is looked for on the left only. *)
RemoveRootLeftOnly(root) ==
  IF root.left = Nil
    THEN Result(Nil, 1)
    ELSE LET sub == ExtractHighest[root.left]
         IN Result(Node(sub.node, root.balance - sub.r, sub.tree, root.right),
                   IF root.balance = 1 THEN sub.r ELSE 0)

RemoveRoot(root) ==
  CASE root.balance = 1 ->
         LET sub == ExtractHighest[root.left]
         IN Result(Node(sub.node, IF sub.r = 1 THEN 0 ELSE 1, sub.tree, root.right),
                   sub.r)
    [] root.balance = -1 ->
         LET sub == ExtractLowest[root.right]
         IN Result(Node(sub.node, IF sub.r = 1 THEN 0 ELSE -1, root.left, sub.tree),
                   sub.r)
    [] root.balance = 0 /\ root.left # Nil ->
         LET sub == ExtractHighest[root.left]
         IN Result(Node(sub.node, IF sub.r = 1 THEN -1 ELSE 0, sub.tree, root.right),
                   0)
    [] OTHER -> Result(Nil, 1)

RmNode(top, k) ==
  LET rmnode[root \in Tree] ==
        IF root = Nil THEN Result(Nil, 0)
        ELSE IF k = root.key THEN RemoveRoot(root)
        ELSE IF k < root.key THEN TakenLeft(root, rmnode[root.left])
        ELSE TakenRight(root, rmnode[root.right])
  IN rmnode[top]

AddNode(top, k) ==
  LET addnode[root \in Tree] ==
        IF root = Nil THEN Result(Node(k, 0, Nil, Nil), 1)
        ELSE IF k < root.key THEN AddedLeft(root, addnode[root.left])
        ELSE AddedRight(root, addnode[root.right])
  IN addnode[top]

(* Fault: equal keys are met on the way down only on the left. *)
FindLeft(top, k) ==
  LET find[root \in Tree] ==
        IF root = Nil THEN Nil
        ELSE IF k <= root.key /\ root.left # Nil THEN find[root.left]
        ELSE IF k > root.key THEN find[root.right]
        ELSE root
  IN find[top]

(* find_cache_metablock: the node with that key, or Nil. *)
Find(top, k) ==
  LET find[root \in Tree] ==
        IF root = Nil THEN Nil
        ELSE IF k < root.key THEN find[root.left]
        ELSE IF k > root.key THEN find[root.right]
        ELSE root
  IN find[top]

-----------------------------------------------------------------------------
(* References: what the trees are compared with. *)
Greater(m, n) == IF m > n THEN m ELSE n
Height[t \in Tree] ==
  IF t = Nil THEN 0 ELSE 1 + Greater(Height[t.left], Height[t.right])

Subtrees[t \in Tree] ==
  IF t = Nil THEN {} ELSE {t} \cup Subtrees[t.left] \cup Subtrees[t.right]

Contents(t) == {s.key : s \in Subtrees[t]}

-----------------------------------------------------------------------------
(* The cache adds a block under a key that it did not find, and removes a
   block of the tree. *)

Init == treetop = Nil /\ r = 0

addnode_cache_metablock(k) ==
  /\ Find(treetop, k) = Nil /\ Height[treetop] < MaxHeight
  /\ LET res == AddNode(treetop, k)
     IN treetop' = res.tree /\ r' = res.r

rmnode_cache_metablock(k) ==
  /\ Find(treetop, k) # Nil
  /\ LET res == RmNode(treetop, k)
     IN treetop' = res.tree /\ r' = res.r

Next == \E k \in Key : addnode_cache_metablock(k) \/ rmnode_cache_metablock(k)

Spec == Init /\ [][Next]_vars

-----------------------------------------------------------------------------
(* The tree is made of nodes, not more than MaxHeight one above the other. *)
TypeOK == treetop \in Tree /\ r \in {0, 1}

(* Every node lies between its subtrees: the loop of find_cache_metablock
   goes down the right side. *)
SearchOrder ==
  \A t \in Subtrees[treetop] : /\ \A k \in Contents(t.left) : k < t.key
                               /\ \A k \in Contents(t.right) : t.key < k

(* The stored balances are the true ones, and no subtree is lopsided by more
   than one level, whatever sequence of additions and removals led here. *)
Balanced ==
  \A t \in Subtrees[treetop] :
    t.balance = Height[t.left] - Height[t.right] /\ t.balance \in -1..1

(* "returns 1 if depth increased, else 0", "returns 1 if depth decreased, else
   0": the callers up the tree rebalance on the strength of it. *)
DepthReported ==
  [][r' = IF Height[treetop'] # Height[treetop] THEN 1 ELSE 0]_vars

(* The search finds a key exactly when it is in the tree. *)
FindsContents ==
  \A k \in Key : /\ (Find(treetop, k) # Nil) = (k \in Contents(treetop))
                 /\ Find(treetop, k) # Nil => Find(treetop, k).key = k

(* The tree is the set that the cache takes it for: an addition or a removal
   loses no other node on the way. *)
Set == INSTANCE KeySet WITH keys <- Contents(treetop)
ImplementsKeySet == Set!Spec
=============================================================================
