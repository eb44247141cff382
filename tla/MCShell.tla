------------------------------- MODULE MCShell ------------------------------
(* An instance of Shell: three metablocks, one more than cursors open at a
   time. *)
EXTENDS Shell

CONSTANTS o1, o2, o3
MCOffset == {o1, o2, o3}
=============================================================================
