------------------------------ MODULE MCNbdTls ------------------------------
(* An instance of NbdTls: the places and sizes of reads. *)
EXTENDS NbdTls

MCOffset == {0, 1}
MCCount == {2}
=============================================================================
