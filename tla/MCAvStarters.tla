----------------------------- MODULE MCAvStarters ----------------------------
(* Instances of AvStarters for TLC. *)
EXTENDS AvStarters

CONSTANTS c1, c2, c3, s1, s2
=============================================================================
