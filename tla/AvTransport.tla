---------------------------- MODULE AvTransport ----------------------------
(***************************************************************************)
(* The x0x daemon as this code uses it, and the two listener threads that  *)
(* bring its events to a command (av-net-x0x: client, dispatcher,          *)
(* listener, direct_listener).                                             *)
(*                                                                         *)
(* A packet is a query or an answer, sent directly to one agent or         *)
(* published to all.  The daemon promises nothing: a packet may arrive     *)
(* late, after others that were sent later, or never; what arrives while   *)
(* a stream is not open is lost, and a stream may break.  A stream is      *)
(* opened by a thread of its own, so the command goes on before the        *)
(* daemon has accepted it.                                                 *)
(***************************************************************************)
EXTENDS Naturals, Sequences, FiniteSets

CONSTANTS
    Agents,      \* the other nodes
    Self,        \* the node whose command is modelled
    Resources,   \* what a node can answer with
    InScheme,    \* the resources the query's scheme filter allows
    Holds,       \* what each node's own search finds
    Backlog,     \* bound: packets waiting in one channel
    MayBreak     \* bound: the streams that can break

ASSUME SelfIsNoPeer == Self \notin Agents
ASSUME SchemeAssumption == InScheme \subseteq Resources
ASSUME HoldsAssumption == Holds \in [Agents \cup {Self} -> SUBSET Resources]
ASSUME BacklogAssumption == Backlog \in Nat \ {0}

Nodes == Agents \cup {Self}

Via == {"direct", "gossip"}

\* One direct query id for each candidate, and one for the gossip query.
QueryId == Agents \cup {"gossip"}

Query == [kind : {"query"}, via : Via, qid : QueryId]
Answer == [kind : {"answer"}, via : Via, qid : QueryId, from : Nodes,
           results : SUBSET Resources]

\* What the loop reads and ignores: an error, a message of another kind, an
\* answer to somebody else's query.
Noise == [kind |-> "noise"]
Packet == Query \cup Answer

VARIABLES
    subscribed,  \* the command has joined the topics
    stream,      \* the two event streams of the command
    channel,     \* what the threads have decoded and the command not read
    sent,        \* the packets the daemon has taken
    delivered    \* the packets a stream of the command has carried

transportVars == <<subscribed, stream, channel, sent, delivered>>

TransportTypeOK ==
    /\ subscribed \in BOOLEAN
    /\ stream \in [Via -> {"off", "connecting", "open", "broken"}]
    /\ \A v \in Via : Len(channel[v]) <= Backlog
    /\ sent \subseteq Packet
    /\ delivered \subseteq sent \X Via

TransportInit ==
    /\ subscribed = FALSE
    /\ stream = [v \in Via |-> "off"]
    /\ channel = [v \in Via |-> << >>]
    /\ sent = {}
    /\ delivered = {}

\* What a request to the daemon leaves behind when it is accepted.
Sent(packet) == sent' = sent \cup {packet}

-----------------------------------------------------------------------------
(* The listener threads                                                    *)

\* The daemon accepts the request for the event stream.
Connect(v) ==
    /\ stream[v] = "connecting"
    /\ stream' = [stream EXCEPT ![v] = "open"]
    /\ UNCHANGED <<subscribed, channel, sent, delivered>>

\* It refuses, or drops it later: the thread passes the error on and ends.
Break(v) ==
    /\ v \in MayBreak
    /\ stream[v] \in {"connecting", "open"}
    /\ Len(channel[v]) < Backlog
    /\ stream' = [stream EXCEPT ![v] = "broken"]
    /\ channel' = [channel EXCEPT ![v] = Append(@, Noise)]
    /\ UNCHANGED <<subscribed, sent, delivered>>

\* An event that is one of our envelopes is passed on.
Deliver(p, v) ==
    /\ p \in sent
    /\ p.kind = "answer"
    /\ <<p, v>> \notin delivered
    /\ p.via = v
    /\ v = "gossip" => subscribed
    /\ stream[v] = "open"
    /\ Len(channel[v]) < Backlog
    /\ channel' = [channel EXCEPT ![v] = Append(@, p)]
    /\ delivered' = delivered \cup {<<p, v>>}
    /\ UNCHANGED <<subscribed, stream, sent>>

TransportNext ==
    \/ \E v \in Via : Connect(v) \/ Break(v)
    \/ \E p \in sent, v \in Via : Deliver(p, v)
=============================================================================
