---------------------------- MODULE MCNbdClient -----------------------------
(* An instance of NbdClient: the places and sizes of reads. *)
EXTENDS NbdClient

MCOffset == {0, 1}
MCCount == 0..2
=============================================================================
