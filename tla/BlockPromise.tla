---------------------------- MODULE BlockPromise ----------------------------
(***************************************************************************)
(* What a block promises, without any table or statement: a resource that  *)
(* is blocked is not served.  A client's request is answered with some     *)
(* resources; each of them was unblocked at some instant between the start *)
(* of the request and its answer.  A resource that was blocked throughout  *)
(* is never in an answer, and an answer cannot promise more, because the   *)
(* operator may block a resource while it is on its way.                   *)
(***************************************************************************)
CONSTANTS Ids, Clients

VARIABLES
    blocked,   \* the resources that are blocked
    busy,      \* the clients with a request in progress
    seen,      \* per busy client: the resources that were unblocked at some
               \* instant since its request began
    answer     \* per client: what it is answering with

vars == <<blocked, busy, seen, answer>>

Unblocked == Ids \ blocked

Init ==
    /\ blocked = {}
    /\ busy = {}
    /\ seen = [c \in Clients |-> {}]
    /\ answer = [c \in Clients |-> {}]

Impose(i) ==
    /\ blocked' = blocked \cup {i}
    /\ UNCHANGED <<busy, seen, answer>>

\* Every request in progress may now answer with what was lifted.
Lift(S) ==
    /\ blocked' = blocked \ S
    /\ seen' = [c \in Clients |-> IF c \in busy THEN seen[c] \cup Unblocked' ELSE {}]
    /\ UNCHANGED <<busy, answer>>

Begin(c) ==
    /\ c \notin busy
    /\ busy' = busy \cup {c}
    /\ seen' = [seen EXCEPT ![c] = Unblocked]
    /\ UNCHANGED <<blocked, answer>>

Answer(c, S) ==
    /\ c \in busy
    /\ S \subseteq seen[c]
    /\ answer' = [answer EXCEPT ![c] = S]
    /\ UNCHANGED <<blocked, busy, seen>>

Finish(c) ==
    /\ c \in busy
    /\ busy' = busy \ {c}
    /\ seen' = [seen EXCEPT ![c] = {}]
    /\ answer' = [answer EXCEPT ![c] = {}]
    /\ UNCHANGED blocked

Next ==
    \/ \E i \in Ids : Impose(i)
    \/ \E S \in SUBSET Ids : Lift(S)
    \/ \E c \in Clients :
          \/ Begin(c) \/ Finish(c)
          \/ \E S \in SUBSET Ids : Answer(c, S)

Spec == Init /\ [][Next]_vars
=============================================================================
