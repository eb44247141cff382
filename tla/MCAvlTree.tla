----------------------------- MODULE MCAvlTree ------------------------------
(* An instance of AvlTree: the keys are 1..MaxKey. *)
EXTENDS AvlTree

CONSTANT MaxKey

MCKey == 1..MaxKey
=============================================================================
