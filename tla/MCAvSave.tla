------------------------------ MODULE MCAvSave ------------------------------
(* Instances of AvSave for TLC. *)
EXTENDS AvSave

CONSTANTS s1, s2
=============================================================================
