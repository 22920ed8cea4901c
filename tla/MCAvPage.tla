------------------------------ MODULE MCAvPage ------------------------------
(* Instances of AvPage for TLC. *)
EXTENDS AvPage

CONSTANTS h1, h2, l1, l2
=============================================================================
