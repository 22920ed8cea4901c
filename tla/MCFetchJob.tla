------------------------------ MODULE MCFetchJob ------------------------------
(* Instances of FetchJob for TLC. *)
EXTENDS FetchJob

CONSTANTS p1, p2
=============================================================================
