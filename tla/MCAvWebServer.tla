---------------------------- MODULE MCAvWebServer ----------------------------
(* Instances of AvWebServer for TLC. *)
EXTENDS AvWebServer

CONSTANTS r1, r2, w1, w2

\* Caps 1, 2 and 3: a body at each of them, and one more.
MCSizes == 1 .. 4
=============================================================================
