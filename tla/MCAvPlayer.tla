----------------------------- MODULE MCAvPlayer -----------------------------
(* Instances of AvPlayer for TLC. *)
EXTENDS AvPlayer

CONSTANTS r1, r2
=============================================================================
