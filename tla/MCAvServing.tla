----------------------------- MODULE MCAvServing -----------------------------
(* Instances of AvServing for TLC. *)
EXTENDS AvServing, TLC

CONSTANTS i1, i2, path, canonical, m1, w1, w2, r1, a1

\* An address has a path an author published under and a canonical spelling;
\* any other location is its own canonical spelling.
MCCanon == [l \in Locs |-> IF l = path /\ canonical \in Locs THEN canonical ELSE l]
\* No table or guard tells one id, or one worker, from another.
MCSymmetry == Permutations(Ids) \cup Permutations(Workers)

MCAliases == [l \in Locs |-> {l}]
=============================================================================
