----------------------------- MODULE MCAvRefusal -----------------------------
(* Instances of AvRefusal for TLC. *)
EXTENDS AvRefusal, TLC

CONSTANTS i1, i2, path, canonical, other, m1, m2, w1, r1, a1

\* An address has a path an author published under and a canonical spelling;
\* any other location is its own canonical spelling.
MCCanon == [l \in Locs |-> IF l = path /\ canonical \in Locs THEN canonical ELSE l]
MCAliases == [l \in Locs |-> {l}]
=============================================================================
