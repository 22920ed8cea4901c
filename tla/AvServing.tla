------------------------------ MODULE AvServing ------------------------------
(***************************************************************************)
(* AvStore with a history variable, and the claim that it keeps the        *)
(* promise of BlockPromise: a resource that was blocked for the whole of   *)
(* a request is not stored, announced or sent by it.                       *)
(*                                                                         *)
(* `seen` records, for a worker in the middle of an operation, the         *)
(* resources that were unblocked at some instant since it began.           *)
(***************************************************************************)
EXTENDS AvStore

VARIABLE seen

servingVars == <<vars, seen>>

Unblocked == Ids \ BlockedResources

Busy == {w \in Workers : ~At(w, "idle")}

\* What a worker is about to store, has stored, announces or sends.
Answered(w) ==
    IF proc[w].at \in {"index_store", "index_embed", "announce",
                       "propagate_store", "propagate_embed"}
    THEN {proc[w].id}
    ELSE IF At(w, "send") THEN proc[w].hits ELSE {}

Watch ==
    seen' = [w \in Workers |->
                IF w \notin Busy' THEN {}
                ELSE IF w \in Busy THEN seen[w] \cup Unblocked'
                ELSE Unblocked']

ServingInit == Init /\ seen = [w \in Workers |-> {}]

ServingNext == Next /\ Watch

ServingSpec == ServingInit /\ [][ServingNext]_servingVars

ServingTypeOK == TypeOK /\ seen \in [Workers -> SUBSET Ids]

(***************************************************************************)
(* The promise as an invariant: whatever an index, a propagate or a        *)
(* response is putting out was unblocked at some instant since that        *)
(* operation began (listen.rs: "the promise that a blocked resource never  *)
(* leaves this node").                                                     *)
(***************************************************************************)
NothingBlockedIsServed == \A w \in Workers : Answered(w) \subseteq seen[w]

Promise == INSTANCE BlockPromise WITH
    Clients <- Workers,
    blocked <- BlockedResources,
    busy    <- Busy,
    answer  <- [w \in Workers |-> Answered(w)]

\* The store implements the abstract promise: every statement of every
\* operation is a step of BlockPromise, or leaves its variables alone.
KeepsPromise == Promise!Spec
=============================================================================
