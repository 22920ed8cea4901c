----------------------------- MODULE MCAvFanout -----------------------------
(* Instances of AvFanout for TLC. *)
EXTENDS AvFanout, TLC

CONSTANTS a1, a2, me, r1, r2

\* a1 ignores the scheme filter and answers with r2 too; the asking node
\* holds r1 itself.
MCHolds == a1 :> {r1, r2} @@ a2 :> {r1} @@ me :> {r1}
=============================================================================
