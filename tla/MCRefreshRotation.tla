-------------------------- MODULE MCRefreshRotation --------------------------
(* Model-checking instance of RefreshRotation. *)
EXTENDS RefreshRotation

MCSlots == 1..2
=============================================================================
