------------------------------- MODULE KeySet -------------------------------
(***************************************************************************)
(* What the cache takes the tree of metablock.c for: a set of keys.        *)
(***************************************************************************)
CONSTANT Key

VARIABLE keys

Init == keys = {}

(* addnode_cache_metablock, rmnode_cache_metablock. *)
Insert(k) == k \notin keys /\ keys' = keys \cup {k}
Delete(k) == k \in keys /\ keys' = keys \ {k}

Next == \E k \in Key : Insert(k) \/ Delete(k)

Spec == Init /\ [][Next]_keys
=============================================================================
