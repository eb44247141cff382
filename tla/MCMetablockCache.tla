-------------------------- MODULE MCMetablockCache --------------------------
(* An instance of MetablockCache: the metablocks of an archive are at
   offsets 1..Metablocks and the one after the last is again the first. *)
EXTENDS MetablockCache

CONSTANT Metablocks

MCOffset == 1..Metablocks
MCNextOffset == [o \in MCOffset |-> (o % Metablocks) + 1]
=============================================================================
