------------------------------ MODULE AvFanout ------------------------------
(***************************************************************************)
(* `av search` and `av resolve` asking the network                         *)
(* (av-cli/src/network.rs: execute_search and execute_resolve, which have  *)
(* the same shape).  The command subscribes, opens both event streams,     *)
(* sends every candidate a direct query from a detached thread, publishes  *)
(* one by gossip, and then reads answers until its timeout.                *)
(*                                                                         *)
(* Meanwhile its own `av listen` and everybody else's answer (AvListen),   *)
(* and another command may block or unblock an agent.                      *)
(***************************************************************************)
EXTENDS AvListen

CONSTANTS
    Timeout,     \* cli.timeout, in units of time
    Reachable,   \* bound: agents the peer cache or discovery can name
    Moderated    \* bound: agents that are blocked or unblocked meanwhile

ASSUME TimeoutAssumption == Timeout \in Nat \ {0}
ASSUME ModeratedAssumption == Moderated \subseteq Agents
ASSUME ReachableAssumption == Reachable \subseteq Nodes

VARIABLES
    at,          \* the statement the command is about to run
    blocks,      \* the agents blocked now
    blocked,     \* the agents blocked, as the command read them
    blocksRead,  \* whether that read succeeded
    candidates,  \* the agents to ask
    thread,      \* the detached sender of each candidate
    queryIds,    \* the ids whose answers are awaited
    now,         \* the time since the wait loop began
    results,     \* network_results
    steady,      \* history: agents blocked at every instant so far
    read         \* history: the answers taken from a channel

fanoutVars == <<at, blocks, blocked, blocksRead, candidates, thread,
                queryIds, now, results, steady, read>>

vars == <<transportVars, listenVars, fanoutVars>>

Statements == {"subscribe", "gossip_listener", "direct_listener", "peers",
               "discover", "blocked", "ask", "loop", "direct", "gossip",
               "done", "failed"}

TypeOK ==
    /\ TransportTypeOK
    /\ ListenTypeOK
    /\ at \in Statements
    /\ blocks \subseteq Agents /\ blocked \subseteq Agents
    /\ blocksRead \in BOOLEAN
    /\ candidates \subseteq Nodes
    /\ at \in {"ask", "loop", "direct", "gossip", "done"} => candidates \subseteq Agents
    /\ thread \in [Agents -> {"none", "sending", "ended"}]
    /\ queryIds \subseteq QueryId
    /\ now \in 0 .. Timeout
    /\ results \in Seq([agent : Nodes, results : SUBSET Resources])
    /\ steady \subseteq blocks
    /\ read \subseteq Answer

Init ==
    /\ TransportInit
    /\ listener = [n \in Nodes |-> "up"]
    /\ peerCache \in SUBSET Reachable
    /\ at = "subscribe"
    /\ blocks \in SUBSET Moderated
    /\ blocked = {}
    /\ blocksRead = TRUE
    /\ candidates = {}
    /\ thread = [a \in Agents |-> "none"]
    /\ queryIds = {}
    /\ now = 0
    /\ results = << >>
    /\ steady = blocks
    /\ read = {}

-----------------------------------------------------------------------------
(* Before the query leaves                                                 *)

Goto(s) == at' = s

Fail == Goto("failed") /\ UNCHANGED <<transportVars, listenVars, blocks, blocked,
            blocksRead, candidates, thread, queryIds, now, results, steady, read>>

SubscribeAll ==
    /\ at = "subscribe"
    /\ \/ /\ subscribed' = TRUE
          /\ Goto("gossip_listener")
          /\ UNCHANGED <<stream, channel, sent, delivered, listenVars, blocks, blocked,
                blocksRead, candidates, thread, queryIds, now, results, steady, read>>
       \/ Fail

\* start_listener and start_direct_listener: the thread connects later.
StartListener(v) ==
    /\ at = IF v = "gossip" THEN "gossip_listener" ELSE "direct_listener"
    /\ stream' = [stream EXCEPT ![v] = "connecting"]
    /\ Goto(IF v = "gossip" THEN "direct_listener" ELSE "peers")
    /\ UNCHANGED <<subscribed, channel, sent, delivered, listenVars, blocks, blocked,
          blocksRead, candidates, thread, queryIds, now, results, steady, read>>

\* The recent entries of the peer cache, or none if it cannot be read.
ReadPeers ==
    /\ at = "peers"
    /\ candidates' \in {peerCache, {}}
    /\ Goto("discover")
    /\ UNCHANGED <<transportVars, listenVars, blocks, blocked, blocksRead, thread,
          queryIds, now, results, steady, read>>

\* discover_agent_ids: what the daemon has seen, as far as it answers.
Discover ==
    /\ at = "discover"
    /\ \E found \in SUBSET Reachable : candidates' = candidates \cup found
    /\ Goto("blocked")
    /\ UNCHANGED <<transportVars, listenVars, blocks, blocked, blocksRead, thread,
          queryIds, now, results, steady, read>>

\* blocked_agents, once for the whole command; a failed read counts as none.
\* The candidates are the agents left, without ourselves.
LoadBlocked ==
    /\ at = "blocked"
    /\ \/ blocked' = blocks /\ UNCHANGED blocksRead
       \/ blocked' = {} /\ blocksRead' = FALSE
    /\ candidates' = candidates \ (blocked' \cup {Self})
    /\ Goto("ask")
    /\ UNCHANGED <<transportVars, listenVars, blocks, thread, queryIds, now, results,
          steady, read>>

\* The id is registered before the thread that sends it exists.
Ask(a) ==
    /\ at = "ask"
    /\ a \in candidates /\ thread[a] = "none"
    /\ queryIds' = queryIds \cup {a}
    /\ thread' = [thread EXCEPT ![a] = "sending"]
    /\ UNCHANGED <<transportVars, listenVars, at, blocks, blocked, blocksRead,
          candidates, now, results, steady, read>>

\* connect_agent and send_direct_query_with_id, both best effort.
SendDirect(a) ==
    /\ thread[a] = "sending"
    /\ \/ Sent([kind |-> "query", via |-> "direct", qid |-> a])
       \/ UNCHANGED sent
    /\ thread' = [thread EXCEPT ![a] = "ended"]
    /\ UNCHANGED <<subscribed, stream, channel, delivered, listenVars, at, blocks,
          blocked, blocksRead, candidates, queryIds, now, results, steady, read>>

\* Mutant: the id that publish_query returns is thrown away.
PublishUnregistered ==
    /\ at = "ask"
    /\ \A a \in candidates : thread[a] # "none"
    /\ \/ /\ Sent([kind |-> "query", via |-> "gossip", qid |-> "gossip"])
          /\ Goto("loop")
          /\ UNCHANGED <<subscribed, stream, channel, delivered, listenVars, blocks,
                blocked, blocksRead, candidates, thread, queryIds, now, results,
                steady, read>>
       \/ Fail

\* The query by gossip; its id is known before the first channel is read.
Publish ==
    /\ at = "ask"
    /\ \A a \in candidates : thread[a] # "none"
    /\ \/ /\ Sent([kind |-> "query", via |-> "gossip", qid |-> "gossip"])
          /\ queryIds' = queryIds \cup {"gossip"}
          /\ Goto("loop")
          /\ UNCHANGED <<subscribed, stream, channel, delivered, listenVars, blocks,
                blocked, blocksRead, candidates, thread, now, results, steady, read>>
       \/ Fail

-----------------------------------------------------------------------------
(* The wait loop                                                           *)

\* Mutant: the loop also waits for the detached senders.
LoopUntilAsked ==
    /\ at = "loop"
    /\ Goto(IF now < Timeout \/ \E a \in Agents : thread[a] = "sending"
            THEN "direct" ELSE "done")
    /\ UNCHANGED <<transportVars, listenVars, blocks, blocked, blocksRead, candidates,
          thread, queryIds, now, results, steady, read>>

Loop ==
    /\ at = "loop"
    /\ Goto(IF now < Timeout THEN "direct" ELSE "done")
    /\ UNCHANGED <<transportVars, listenVars, blocks, blocked, blocksRead, candidates,
          thread, queryIds, now, results, steady, read>>

AfterRead(v) == IF v = "direct" THEN "gossip" ELSE "loop"

\* accept_from
AcceptFrom(p) == p.from \notin blocked

Awaited(p) == p.kind = "answer" /\ p.qid \in queryIds

\* An answer that is awaited and not from a blocked agent: what passes the
\* scheme filter is kept, and its sender is refreshed in the peer cache.
Take(v, p) ==
    /\ results' = Append(results, [agent |-> p.from, results |-> p.results \cap InScheme])
    /\ peerCache' = peerCache \cup {p.from}
    /\ Goto(AfterRead(v))

\* Mutant: the agent is checked on the direct channel only.
ReadTrustingGossip(v) ==
    /\ at = v
    /\ channel[v] # << >>
    /\ LET p == Head(channel[v]) IN
       /\ channel' = [channel EXCEPT ![v] = Tail(@)]
       /\ read' = IF p.kind = "answer" THEN read \cup {p} ELSE read
       /\ IF ~Awaited(p)
          THEN Goto(AfterRead(v)) /\ UNCHANGED <<results, peerCache>>
          ELSE IF v = "direct" /\ ~AcceptFrom(p)
          THEN Goto("loop") /\ UNCHANGED <<results, peerCache>>
          ELSE Take(v, p)
    /\ UNCHANGED <<subscribed, stream, sent, delivered, listener, blocks, blocked,
          blocksRead, candidates, thread, queryIds, now, steady>>

\* recv_timeout gave an event.  A blocked sender sends the loop round at
\* once, without looking at the other channel.
Read(v) ==
    /\ at = v
    /\ channel[v] # << >>
    /\ LET p == Head(channel[v]) IN
       /\ channel' = [channel EXCEPT ![v] = Tail(@)]
       /\ read' = IF p.kind = "answer" THEN read \cup {p} ELSE read
       /\ IF ~Awaited(p)
          THEN Goto(AfterRead(v)) /\ UNCHANGED <<results, peerCache>>
          ELSE IF ~AcceptFrom(p)
          THEN Goto("loop") /\ UNCHANGED <<results, peerCache>>
          ELSE Take(v, p)
    /\ UNCHANGED <<subscribed, stream, sent, delivered, listener, blocks, blocked,
          blocksRead, candidates, thread, queryIds, now, steady>>

\* recv_timeout gave nothing: the time is up, or the thread has ended.
ReadNothing(v) ==
    /\ at = v
    /\ channel[v] = << >>
    /\ Goto(AfterRead(v))
    /\ UNCHANGED <<transportVars, listenVars, blocks, blocked, blocksRead, candidates,
          thread, queryIds, now, results, steady, read>>

\* The clock is looked at by the head of the loop alone, so it moves there.
Tick ==
    /\ at = "loop"
    /\ now < Timeout
    /\ now' = now + 1
    /\ UNCHANGED <<transportVars, listenVars, at, blocks, blocked, blocksRead,
          candidates, thread, queryIds, results, steady, read>>

-----------------------------------------------------------------------------
\* `av block --agent` and `av unblock --agent`, in another process; once the
\* command has read the list, nothing here looks at the table again.
Moderate(a) ==
    /\ a \in Moderated
    /\ at \in {"peers", "discover", "blocked"}
    /\ blocks' = IF a \in blocks THEN blocks \ {a} ELSE blocks \cup {a}
    /\ steady' = steady \cap blocks'
    /\ UNCHANGED <<transportVars, listenVars, at, blocked, blocksRead, candidates,
          thread, queryIds, now, results, read>>

Command ==
    \/ SubscribeAll
    \/ \E v \in Via : StartListener(v)
    \/ ReadPeers \/ Discover \/ LoadBlocked
    \/ \E a \in Agents : Ask(a)
    \/ Publish
    \/ Loop
    \/ \E v \in Via : Read(v) \/ ReadNothing(v)

Next ==
    \/ Command
    \/ Tick
    \/ \E a \in Agents : SendDirect(a) \/ Moderate(a)
    \/ TransportNext /\ UNCHANGED <<listenVars, fanoutVars>>
    \/ ListenNext /\ UNCHANGED fanoutVars

\* The command runs and time passes.  Nothing is promised of the daemon, of
\* the sender threads or of anybody's listener.
Spec == Init /\ [][Next]_vars /\ WF_vars(Command) /\ SF_vars(Tick)

-----------------------------------------------------------------------------
(* cluster_responses: for each resource, the agents that returned it       *)

\* Mutant: an agent is listed once for each of its answers.
AgreeingEachTime(r) == {i \in DOMAIN results : r \in results[i].results}

\* The answers that put an agent on the list of a resource: one that has the
\* resource, while its agent is not on the list yet.  The list is their agents.
Agreeing(r) ==
    {i \in DOMAIN results :
        /\ r \in results[i].results
        /\ \A k \in 1 .. i - 1 :
              r \in results[k].results => results[k].agent # results[i].agent}

AgreementCount(r) == Cardinality(Agreeing(r))

-----------------------------------------------------------------------------
(* Properties                                                              *)

(***************************************************************************)
(* The agreement a result is ranked by is the number of other nodes that   *)
(* answered with it: an agent that answered both directly and by gossip    *)
(* counts once, nobody counts for what it did not send, and the node's     *)
(* own listener, which hears the gossip query too, never counts            *)
(* (cluster.rs: "How many distinct agents returned this resource").        *)
(***************************************************************************)
AgreementIsHonest ==
    \A r \in Resources :
        LET answered == {a \in Agents : \E p \in read : p.from = a /\ r \in p.results}
        IN  /\ AgreementCount(r) <= Cardinality(answered)
            /\ \A i \in Agreeing(r) : results[i].agent \in answered
            /\ r \notin InScheme => AgreementCount(r) = 0

(***************************************************************************)
(* An agent that has been blocked since before the command began is        *)
(* neither asked nor listened to, on either channel, whatever it sends     *)
(* and whenever it arrives (network.rs: "we neither ask it nor act on what *)
(* it says"), unless the block list could not be read.                     *)
(***************************************************************************)
BlockedAreShutOut ==
    blocksRead /\ at \notin {"subscribe", "gossip_listener", "direct_listener",
                             "peers", "discover", "blocked"} =>
        \A a \in steady :
            /\ thread[a] = "none"
            /\ \A i \in DOMAIN results : results[i].agent # a

(***************************************************************************)
(* Every answer to this command that reaches the loop, from an agent it    *)
(* did not know as blocked, is kept, however late the answer is and        *)
(* whichever of the two channels brings it (network.rs: ids are registered *)
(* up front "so late-arriving, relay-routed responses still match").       *)
(***************************************************************************)
NoAnswerDropped ==
    \A p \in read :
        p.from \notin blocked =>
            \E i \in DOMAIN results :
                results[i] = [agent |-> p.from, results |-> p.results \cap InScheme]

(***************************************************************************)
(* The command ends, though streams break, sender threads hang and nobody  *)
(* answers: the loop is bounded by its timeout alone.                      *)
(***************************************************************************)
FanoutEnds == <>(at \in {"done", "failed"})
=============================================================================
