------------------------------ MODULE AvListen ------------------------------
(***************************************************************************)
(* The responders: the event loop of `av listen` on every node, the        *)
(* asking one included (av-cli/src/cmd/listen.rs).  What a response may    *)
(* contain is the subject of AvServing; here a node answers with what it   *)
(* holds, or with nothing.                                                 *)
(*                                                                         *)
(* The daemon may deliver an event twice, late or never, so a loop may     *)
(* take any packet that was sent and reaches its node, any number of       *)
(* times: this stands for both of its channels.                            *)
(***************************************************************************)
EXTENDS AvTransport

CONSTANTS
    MayEnd      \* bound: the nodes whose loop an error can end

VARIABLES
    listener,   \* whether each node's loop runs
    peerCache   \* the agents this node's database saw recently

listenVars == <<listener, peerCache>>

ListenTypeOK ==
    /\ listener \in [Nodes -> {"up", "ended"}]
    /\ peerCache \subseteq Nodes

Origin(p) == IF p.kind = "query" THEN Self ELSE p.from

Reaches(p, n) ==
    \/ p.via = "gossip"
    \/ p.kind = "query" /\ p.qid = n
    \/ p.kind = "answer" /\ n = Self

Reply(p, n) == [kind |-> "answer", via |-> p.via, qid |-> p.qid,
                from |-> n, results |-> Holds[n]]

\* respond_to_search_query or respond_to_name_query, and their direct twins:
\* an empty response is not sent, and an error ends the loop.
Respond(p, n) ==
    \/ Sent(Reply(p, n)) /\ Holds[n] # {} /\ UNCHANGED listener
    \/ UNCHANGED <<sent, listener>>
    \/ n \in MayEnd /\ listener' = [listener EXCEPT ![n] = "ended"] /\ UNCHANGED sent

\* One event: our own are ignored, any other refreshes its sender in the
\* node's database, of which only this node's is modelled.
Hear(n, p) ==
    /\ listener[n] = "up"
    /\ p \in sent /\ Reaches(p, n)
    /\ Origin(p) # n
    /\ peerCache' = IF n = Self THEN peerCache \cup {Origin(p)} ELSE peerCache
    /\ IF p.kind = "query" THEN Respond(p, n) ELSE UNCHANGED <<sent, listener>>
    /\ UNCHANGED <<subscribed, stream, channel, delivered>>

ListenNext == \E n \in Nodes, p \in sent : Hear(n, p)
=============================================================================
