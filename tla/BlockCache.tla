----------------------------- MODULE BlockCache -----------------------------
(***************************************************************************)
(* What the metablock cache promises the rest of the program, whatever its *)
(* lists, trees and quotas: a cursor opened at an offset sees the          *)
(* metablock of that offset until it leaves it, and the metablocks that    *)
(* cursors see stay resident.  The block at an offset is named by the      *)
(* offset.                                                                 *)
(***************************************************************************)
CONSTANTS
  Offset,  \* offsets at which a metablock starts
  Cursor,  \* the cursors
  Nil      \* what a closed cursor sees

VARIABLES
  view,     \* the metablock each cursor sees
  resident  \* the metablocks held in memory

vars == <<view, resident>>

Seen == {view[c] : c \in Cursor} \ {Nil}

Init == view = [c \in Cursor |-> Nil] /\ resident = {}

(* A successful init_metablock_cursor; one that fails changes nothing. *)
Open(c, o) ==
  /\ view[c] = Nil
  /\ view' = [view EXCEPT ![c] = o]
  /\ resident' = resident \cup {o}

(* deinit_metablock_cursor. *)
Close(c) ==
  /\ view[c] # Nil
  /\ view' = [view EXCEPT ![c] = Nil]
  /\ UNCHANGED resident

(* A metablock that no cursor sees is dropped to make room. *)
Evict(o) ==
  /\ o \in resident \ Seen
  /\ resident' = resident \ {o}
  /\ UNCHANGED view

(* deinit_archive. *)
Stop ==
  /\ view' = [c \in Cursor |-> Nil] /\ resident' = {}

Next ==
  \/ \E c \in Cursor : Close(c) \/ \E o \in Offset : Open(c, o)
  \/ \E o \in resident : Evict(o)
  \/ Stop

Spec == Init /\ [][Next]_vars
=============================================================================
