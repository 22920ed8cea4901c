----------------------------- MODULE MCAvNames -----------------------------
(* Instances of AvNames for TLC. *)
EXTENDS AvNames, TLC

CONSTANTS i1, l1, r1, a1, p, m

MCCanon == [l \in Locs |-> l]
MCAliases == [l \in Locs |-> {l}]
MCTarget == [r \in Records |-> l1]

\* A peer returns the record that was authored here.
MCReturns == {<<a1, r1>>}

MCKind == p :> {"respond", "resolve", "search", "rate", "prompt"}
=============================================================================
