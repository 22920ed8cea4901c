--------------------------- MODULE AvFanoutProofs ---------------------------
(***************************************************************************)
(* The command that asks the network, for any agents, channels, timeouts   *)
(* and block lists: a blocked agent is neither asked nor listened to, no   *)
(* answer is lost between a channel and the results, and the agreement     *)
(* that ranks a resource counts each agent that answered with it once.     *)
(***************************************************************************)
EXTENDS AvFanout, FiniteSetTheorems, TLAPS

\* The statements up to the read of the block list.
Before == {"subscribe", "gossip_listener", "direct_listener", "peers", "discover",
           "blocked"}

Asking == {"ask", "loop", "direct", "gossip"}

Kept == [agent : Nodes, results : SUBSET Resources]

Event == Packet \cup {Noise}

\* The types the steps rely on.
FanoutTypes ==
    /\ at \in Before \cup Asking \cup {"done", "failed"}
    /\ blocks \subseteq Agents
    /\ sent \subseteq Packet
    /\ channel \in [Via -> Seq(Event)]
    /\ thread \in [Agents -> {"none", "sending", "ended"}]
    /\ results \in Seq(Kept)

\* Nothing is asked or read before the block list is.
NothingYet == at \in Before => read = {} /\ results = << >> /\ \A a \in Agents : thread[a] = "none"

\* The list that was read covers whoever was blocked all along, and it is what
\* the candidates and every answer are checked against.
ListCovers == at \in Asking => candidates \cap blocked = {} /\ (blocksRead => steady \subseteq blocked)

Shut(a) == a \notin blocked /\ (blocksRead => a \notin steady)

OnlyOpen ==
    /\ \A a \in Agents : thread[a] # "none" => Shut(a)
    /\ \A i \in DOMAIN results : Shut(results[i].agent)

\* An id is registered before the thread that sends it exists, so every packet
\* there is carries a registered one.
Registered ==
    /\ \A a \in Agents : thread[a] # "none" => a \in queryIds
    /\ \A p \in sent : p.qid \in queryIds
    /\ \A v \in Via : \A i \in DOMAIN channel[v] :
          channel[v][i].kind = "answer" => channel[v][i] \in sent

FanoutInv ==
    /\ FanoutTypes
    /\ steady \subseteq blocks
    /\ NothingYet
    /\ ListCovers
    /\ OnlyOpen
    /\ Registered
    /\ NoAnswerDropped

LEMMA FanoutInitially == Init => FanoutInv
  BY ModeratedAssumption DEF Init, TransportInit, FanoutInv, FanoutTypes, NothingYet, ListCovers, OnlyOpen,
         Registered, NoAnswerDropped, Before, Asking, Shut, Kept, Event

-----------------------------------------------------------------------------
(* Steps that move the command along and touch nothing it remembers        *)

\* What FanoutInv is about, but for the statement and the candidates.
memory == <<blocks, blocked, blocksRead, thread, queryIds, results, steady, read,
            sent, channel>>

\* A step forward that keeps to the part of the program it is in.
LEMMA OnlyMoves ==
  ASSUME FanoutInv, UNCHANGED memory,
         at' \in Before \cup Asking \cup {"done", "failed"},
         at' \in Before => at \in Before,
         at' \in Asking => at \in Asking /\ candidates' = candidates
  PROVE  FanoutInv'
  <1>1. FanoutTypes' /\ steady' \subseteq blocks'
    BY DEF FanoutInv, FanoutTypes, memory
  <1>2. NothingYet'
    BY DEF FanoutInv, NothingYet, memory
  <1>3. ListCovers'
    BY DEF FanoutInv, ListCovers, memory
  <1>4. OnlyOpen'
    BY DEF FanoutInv, OnlyOpen, Shut, memory
  <1>5. Registered'
    BY DEF FanoutInv, Registered, memory
  <1>6. NoAnswerDropped'
    BY DEF FanoutInv, NoAnswerDropped, memory
  <1>7. QED BY <1>1, <1>2, <1>3, <1>4, <1>5, <1>6 DEF FanoutInv

\* The read of the block list, which is all that later checks go by.
LEMMA LoadBlockedKeeps == FanoutInv /\ LoadBlocked => FanoutInv'
  <1>1. SUFFICES ASSUME FanoutInv, LoadBlocked PROVE FanoutInv'
    OBVIOUS
  <1>2. /\ read = {} /\ results = << >> /\ \A a \in Agents : thread[a] = "none"
        /\ at = "blocked" /\ at' = "ask"
    BY <1>1 DEF FanoutInv, NothingYet, LoadBlocked, Goto, Before
  <1>3. FanoutTypes' /\ steady' \subseteq blocks' /\ NothingYet'
    BY <1>1, <1>2 DEF FanoutInv, FanoutTypes, NothingYet, LoadBlocked, transportVars,
       Asking, Before
  <1>4. ListCovers'
    BY <1>1, <1>2 DEF FanoutInv, ListCovers, LoadBlocked
  <1>5. OnlyOpen' /\ NoAnswerDropped'
    BY <1>1, <1>2 DEF OnlyOpen, NoAnswerDropped, LoadBlocked
  <1>6. Registered'
    BY <1>1 DEF FanoutInv, Registered, LoadBlocked, transportVars
  <1>7. QED BY <1>3, <1>4, <1>5, <1>6 DEF FanoutInv

\* A candidate is asked: it is on no list, and its id is registered first.
LEMMA AskKeeps == ASSUME NEW a \in Agents PROVE FanoutInv /\ Ask(a) => FanoutInv'
  <1>1. SUFFICES ASSUME FanoutInv, Ask(a) PROVE FanoutInv'
    OBVIOUS
  <1>2. at = "ask" /\ at' = "ask" /\ Shut(a)
    BY <1>1 DEF Ask, FanoutInv, ListCovers, Asking, Shut
  <1>3. FanoutTypes' /\ steady' \subseteq blocks' /\ NothingYet' /\ ListCovers'
    BY <1>1, <1>2 DEF FanoutInv, FanoutTypes, NothingYet, ListCovers, Ask, transportVars,
       Asking, Before
  <1>4. OnlyOpen'
    BY <1>1, <1>2 DEF FanoutInv, FanoutTypes, OnlyOpen, Shut, Ask
  <1>5. Registered'
    BY <1>1 DEF FanoutInv, FanoutTypes, Registered, Ask, transportVars
  <1>6. NoAnswerDropped'
    BY <1>1 DEF FanoutInv, NoAnswerDropped, Ask
  <1>7. QED BY <1>3, <1>4, <1>5, <1>6 DEF FanoutInv

\* A detached sender hands its query over, or not.
LEMMA SendDirectKeeps ==
  ASSUME NEW a \in Agents PROVE FanoutInv /\ SendDirect(a) => FanoutInv'
  <1>1. SUFFICES ASSUME FanoutInv, SendDirect(a) PROVE FanoutInv'
    OBVIOUS
  <1> DEFINE q == [kind |-> "query", via |-> "direct", qid |-> a]
  <1>2. q \in Packet /\ q.qid = a /\ q.kind # "answer"
    BY DEF Packet, Query, Via, QueryId
  <1>3. thread[a] = "sending" /\ sent' \in {sent, sent \cup {q}}
    BY <1>1 DEF SendDirect, Sent
  <1>4. FanoutTypes' /\ steady' \subseteq blocks'
    BY <1>1, <1>2, <1>3 DEF FanoutInv, FanoutTypes, SendDirect
  <1>5. NothingYet' /\ ListCovers'
    BY <1>1, <1>3 DEF FanoutInv, NothingYet, ListCovers, SendDirect
  <1>6. OnlyOpen'
    BY <1>1, <1>3 DEF FanoutInv, FanoutTypes, OnlyOpen, Shut, SendDirect
  <1>7. Registered'
    <2>1. a \in queryIds
      BY <1>1, <1>3 DEF FanoutInv, Registered
    <2>2. \A b \in Agents : thread'[b] # "none" => b \in queryIds'
      BY <1>1, <2>1 DEF FanoutInv, FanoutTypes, Registered, SendDirect
    <2>3. \A p \in sent' : p.qid \in queryIds'
      BY <1>1, <1>2, <1>3, <2>1 DEF FanoutInv, Registered, SendDirect
    <2>4. \A v \in Via : \A i \in DOMAIN channel'[v] :
             channel'[v][i].kind = "answer" => channel'[v][i] \in sent'
      BY <1>1, <1>3 DEF FanoutInv, Registered, SendDirect
    <2>5. QED BY <2>2, <2>3, <2>4 DEF Registered
  <1>8. NoAnswerDropped'
    BY <1>1 DEF FanoutInv, NoAnswerDropped, SendDirect
  <1>9. QED BY <1>4, <1>5, <1>6, <1>7, <1>8 DEF FanoutInv

\* The query by gossip, and its id with it.
LEMMA PublishKeeps == FanoutInv /\ Publish => FanoutInv'
  <1>1. SUFFICES ASSUME FanoutInv, Publish PROVE FanoutInv'
    OBVIOUS
  <1> DEFINE q == [kind |-> "query", via |-> "gossip", qid |-> "gossip"]
  <1>2. q \in Packet /\ q.qid = "gossip" /\ q.kind # "answer"
    BY DEF Packet, Query, Via, QueryId
  <1>3. CASE Fail
    BY <1>1, <1>3, OnlyMoves DEF Fail, Goto, memory, transportVars, Before, Asking
  <1>4. CASE ~Fail
    <2>1. /\ at = "ask" /\ at' = "loop"
          /\ sent' = sent \cup {q} /\ queryIds' = queryIds \cup {"gossip"}
          /\ UNCHANGED <<channel, blocks, blocked, blocksRead, candidates, thread, results,
                         steady, read>>
      BY <1>1, <1>4 DEF Publish, Goto, Sent
    <2>2. FanoutTypes' /\ steady' \subseteq blocks' /\ NothingYet' /\ ListCovers'
      BY <1>1, <1>2, <2>1 DEF FanoutInv, FanoutTypes, NothingYet, ListCovers, Before, Asking
    <2>3. OnlyOpen' /\ NoAnswerDropped'
      BY <1>1, <2>1 DEF FanoutInv, OnlyOpen, Shut, NoAnswerDropped
    <2>4. Registered'
      BY <1>1, <1>2, <2>1 DEF FanoutInv, Registered
    <2>5. QED BY <2>2, <2>3, <2>4 DEF FanoutInv
  <1>5. QED BY <1>3, <1>4

\* Another command blocks or unblocks an agent, before the list is read.
LEMMA ModerateKeeps ==
  ASSUME NEW a \in Agents PROVE FanoutInv /\ Moderate(a) => FanoutInv'
  <1>1. SUFFICES ASSUME FanoutInv, Moderate(a) PROVE FanoutInv'
    OBVIOUS
  <1>2. /\ read = {} /\ results = << >> /\ \A b \in Agents : thread[b] = "none"
        /\ at \in Before /\ at \notin Asking
    BY <1>1 DEF FanoutInv, NothingYet, Moderate, Before, Asking
  <1>3. FanoutTypes' /\ steady' \subseteq blocks' /\ NothingYet' /\ ListCovers'
    BY <1>1, <1>2 DEF FanoutInv, FanoutTypes, NothingYet, ListCovers, Moderate, transportVars
  <1>4. OnlyOpen' /\ NoAnswerDropped'
    BY <1>1, <1>2 DEF OnlyOpen, NoAnswerDropped, Moderate
  <1>5. Registered'
    BY <1>1 DEF FanoutInv, Registered, Moderate, transportVars
  <1>6. QED BY <1>3, <1>4, <1>5 DEF FanoutInv

-----------------------------------------------------------------------------
(* The channels                                                            *)

\* Whatever a channel holds when a packet is put in or taken out.
LEMMA ChannelTypes ==
  ASSUME FanoutTypes, NEW v \in Via
  PROVE  /\ channel[v] \in Seq(Event)
         /\ \A i \in DOMAIN channel[v] : channel[v][i] \in Event
         /\ channel[v] # << >> => /\ Head(channel[v]) = channel[v][1]
                                  /\ 1 \in DOMAIN channel[v]
                                  /\ Tail(channel[v]) \in Seq(Event)
                                  /\ \A i \in DOMAIN Tail(channel[v]) :
                                        /\ i + 1 \in DOMAIN channel[v]
                                        /\ Tail(channel[v])[i] = channel[v][i + 1]
  <1>1. channel[v] \in Seq(Event)
    BY DEF FanoutTypes
  <1>2. \A i \in DOMAIN channel[v] : channel[v][i] \in Event
    BY <1>1
  <1>3. ASSUME channel[v] # << >>
        PROVE  /\ Head(channel[v]) = channel[v][1]
               /\ 1 \in DOMAIN channel[v]
               /\ Tail(channel[v]) \in Seq(Event)
               /\ \A i \in DOMAIN Tail(channel[v]) :
                     /\ i + 1 \in DOMAIN channel[v]
                     /\ Tail(channel[v])[i] = channel[v][i + 1]
    BY <1>1, <1>3
  <1>4. QED BY <1>1, <1>2, <1>3

\* An answer that is read: ignored, refused, or kept with its sender.
LEMMA ReadKeeps == ASSUME NEW v \in Via PROVE FanoutInv /\ Read(v) => FanoutInv'
  <1>1. SUFFICES ASSUME FanoutInv, Read(v) PROVE FanoutInv'
    OBVIOUS
  <1> DEFINE p == Head(channel[v])
  <1> DEFINE one == [agent |-> p.from, results |-> p.results \cap InScheme]
  <1>2. /\ channel[v] # << >> /\ at = v
        /\ channel' = [channel EXCEPT ![v] = Tail(@)]
        /\ read' = IF p.kind = "answer" THEN read \cup {p} ELSE read
        /\ UNCHANGED <<sent, blocks, blocked, blocksRead, candidates, thread, queryIds, steady>>
    BY <1>1 DEF Read
  <1>3. at \in Asking /\ at' \in Asking
    BY <1>1, <1>2 DEF Read, Goto, AfterRead, Take, Via, Asking
  <1>4. p = channel[v][1] /\ 1 \in DOMAIN channel[v] /\ p \in Event
    BY <1>1, <1>2, ChannelTypes DEF FanoutInv
  <1>5. p.kind = "answer" => p \in sent /\ p.qid \in queryIds /\ p \in Answer
    <2>1. SUFFICES ASSUME p.kind = "answer" PROVE p \in sent /\ p.qid \in queryIds /\ p \in Answer
      OBVIOUS
    <2>2. p \in sent
      BY <1>1, <1>4, <2>1 DEF FanoutInv, Registered
    <2>3. p \in Packet /\ p.qid \in queryIds
      BY <1>1, <2>2 DEF FanoutInv, FanoutTypes, Registered
    <2>4. p \in Answer
      BY <2>1, <2>3 DEF Packet, Query
    <2>5. QED BY <2>2, <2>3, <2>4
  <1>6. \/ results' = results /\ (p.kind = "answer" => p.from \in blocked)
        \/ /\ results' = Append(results, one)
           /\ p.kind = "answer" /\ p.from \notin blocked
    BY <1>1, <1>5 DEF Read, Awaited, AcceptFrom, Take
  <1>7. results \in Seq(Kept) /\ results' \in Seq(Kept)
    <2>1. results \in Seq(Kept)
      BY <1>1 DEF FanoutInv, FanoutTypes
    <2>2. p.kind = "answer" => one \in Kept
      BY <1>5 DEF Answer, Kept
    <2>3. QED BY <1>6, <2>1, <2>2
  <1>8. channel' \in [Via -> Seq(Event)]
    <2>1. channel \in [Via -> Seq(Event)]
      BY <1>1 DEF FanoutInv, FanoutTypes
    <2>2. Tail(channel[v]) \in Seq(Event)
      BY <1>1, <1>2, ChannelTypes DEF FanoutInv
    <2>3. QED BY <1>2, <2>1, <2>2
  <1>9. FanoutTypes' /\ steady' \subseteq blocks'
    BY <1>1, <1>2, <1>3, <1>7, <1>8 DEF FanoutInv, FanoutTypes
  <1>10. NothingYet'
    BY <1>3 DEF NothingYet, Before, Asking
  <1>11. ListCovers'
    BY <1>1, <1>2, <1>3 DEF FanoutInv, ListCovers
  <1>12. OnlyOpen'
    <2>1. p.kind = "answer" /\ p.from \notin blocked => Shut(p.from)
      BY <1>1, <1>3 DEF FanoutInv, ListCovers, Shut
    <2>2. \A i \in DOMAIN results' : Shut(results'[i].agent)
      <3>1. CASE results' = results
        BY <1>1, <3>1 DEF FanoutInv, OnlyOpen
      <3>2. CASE results' = Append(results, one) /\ p.kind = "answer" /\ p.from \notin blocked
        <4>1. \A i \in DOMAIN results' : results'[i] = one \/ (i \in DOMAIN results /\ results'[i] = results[i])
          BY <1>7, <3>2
        <4>2. one.agent = p.from
          OBVIOUS
        <4>3. QED BY <1>1, <2>1, <3>2, <4>1, <4>2 DEF FanoutInv, OnlyOpen
      <3>3. QED BY <1>6, <3>1, <3>2
    <2>3. \A i \in DOMAIN results' :
             /\ results'[i].agent \notin blocked'
             /\ blocksRead' => results'[i].agent \notin steady'
      BY <1>2, <2>2 DEF Shut
    <2>4. \A a \in Agents : thread'[a] # "none" =>
             a \notin blocked' /\ (blocksRead' => a \notin steady')
      BY <1>1, <1>2 DEF FanoutInv, OnlyOpen, Shut
    <2>5. QED BY <2>3, <2>4 DEF OnlyOpen, Shut
  <1>13. Registered'
    <2>1. SUFFICES ASSUME NEW w \in Via, NEW i \in DOMAIN channel'[w],
                          channel'[w][i].kind = "answer"
                   PROVE  channel'[w][i] \in sent'
      BY <1>1, <1>2 DEF FanoutInv, Registered
    <2>2. CASE w = v
      <3>1. channel'[v] = Tail(channel[v])
        BY <1>1, <1>2 DEF FanoutInv, FanoutTypes
      <3>2. i + 1 \in DOMAIN channel[v] /\ channel'[v][i] = channel[v][i + 1]
        BY <1>1, <1>2, <2>2, <3>1, ChannelTypes DEF FanoutInv
      <3>3. QED BY <1>1, <1>2, <2>1, <2>2, <3>2 DEF FanoutInv, Registered
    <2>3. CASE w # v
      <3>1. channel'[w] = channel[w]
        BY <1>1, <1>2, <2>3 DEF FanoutInv, FanoutTypes
      <3>2. \A k \in DOMAIN channel[w] :
               channel[w][k].kind = "answer" => channel[w][k] \in sent
        BY <1>1 DEF FanoutInv, Registered
      <3>3. sent' = sent
        BY <1>2
      <3>4. QED BY <2>1, <3>1, <3>2, <3>3
    <2>4. QED BY <2>2, <2>3
  <1>14. NoAnswerDropped'
    <2>1. \A i \in DOMAIN results : i \in DOMAIN results' /\ results'[i] = results[i]
      BY <1>6, <1>7
    <2>2. results' = Append(results, one) =>
             /\ Len(results) + 1 \in DOMAIN results'
             /\ results'[Len(results) + 1] = one
      BY <1>7
    <2>3. SUFFICES ASSUME NEW q \in read', q.from \notin blocked'
                   PROVE  \E i \in DOMAIN results' :
                             results'[i] = [agent |-> q.from, results |-> q.results \cap InScheme]
      BY DEF NoAnswerDropped
    <2>4. CASE q \in read
      BY <1>1, <1>2, <2>1, <2>3, <2>4 DEF FanoutInv, NoAnswerDropped
    <2>5. CASE q = p /\ p.kind = "answer"
      BY <1>2, <1>6, <2>2, <2>3, <2>5
    <2>6. QED BY <1>2, <2>4, <2>5
  <1>15. QED BY <1>9, <1>10, <1>11, <1>12, <1>13, <1>14 DEF FanoutInv

\* Putting one event into a channel: noise, or a packet that was sent.
LEMMA PutKeeps ==
  ASSUME FanoutInv, NEW v \in Via, NEW e \in Event, e.kind = "answer" => e \in sent,
         channel' = [channel EXCEPT ![v] = Append(@, e)],
         UNCHANGED <<sent, fanoutVars>>
  PROVE  FanoutInv'
  <1>1. channel \in [Via -> Seq(Event)] /\ channel[v] \in Seq(Event)
    BY DEF FanoutInv, FanoutTypes
  <1>2. Append(channel[v], e) \in Seq(Event)
    BY <1>1
  <1>3. FanoutTypes' /\ steady' \subseteq blocks'
    BY <1>1, <1>2 DEF FanoutInv, FanoutTypes, fanoutVars
  <1>4. NothingYet' /\ ListCovers' /\ OnlyOpen' /\ NoAnswerDropped'
    BY DEF FanoutInv, NothingYet, ListCovers, OnlyOpen, Shut, NoAnswerDropped, fanoutVars
  <1>5. Registered'
    <2>1. SUFFICES ASSUME NEW w \in Via, NEW i \in DOMAIN channel'[w],
                          channel'[w][i].kind = "answer"
                   PROVE  channel'[w][i] \in sent'
      BY DEF FanoutInv, Registered, fanoutVars
    <2>2. sent' = sent
      OBVIOUS
    <2>3. \A k \in DOMAIN channel[w] :
             channel[w][k].kind = "answer" => channel[w][k] \in sent
      BY DEF FanoutInv, Registered
    <2>4. CASE w = v
      <3>1. channel'[w] = Append(channel[w], e) /\ channel[w] \in Seq(Event)
        BY <1>1, <2>4
      <3>2. channel'[w][i] = e \/ (i \in DOMAIN channel[w] /\ channel'[w][i] = channel[w][i])
        BY <3>1
      <3>3. QED BY <2>1, <2>2, <2>3, <3>2
    <2>5. CASE w # v
      <3>1. channel'[w] = channel[w]
        BY <1>1, <2>5
      <3>2. QED BY <2>1, <2>2, <2>3, <3>1
    <2>6. QED BY <2>4, <2>5
  <1>6. QED BY <1>3, <1>4, <1>5 DEF FanoutInv

\* The listener threads: a stream opens, breaks or brings an answer.
LEMMA TransportKeeps ==
  FanoutInv /\ TransportNext /\ UNCHANGED <<listenVars, fanoutVars>> => FanoutInv'
  <1>1. SUFFICES ASSUME FanoutInv, TransportNext, UNCHANGED fanoutVars PROVE FanoutInv'
    OBVIOUS
  <1>2. ASSUME NEW v \in Via, Connect(v) PROVE FanoutInv'
    <2>1. UNCHANGED memory /\ at' = at /\ candidates' = candidates
      BY <1>1, <1>2 DEF Connect, fanoutVars, memory
    <2>2. QED BY <1>1, <2>1, OnlyMoves DEF FanoutInv, FanoutTypes
  <1>3. ASSUME NEW v \in Via, Break(v) PROVE FanoutInv'
    <2>1. Noise \in Event /\ Noise.kind # "answer"
      BY DEF Event, Noise
    <2>2. QED BY <1>1, <1>3, <2>1, PutKeeps DEF Break
  <1>4. ASSUME NEW p \in sent, NEW v \in Via, Deliver(p, v) PROVE FanoutInv'
    <2>1. p \in Event
      BY <1>1 DEF FanoutInv, FanoutTypes, Event
    <2>2. QED BY <1>1, <1>4, <2>1, PutKeeps DEF Deliver
  <1>5. QED BY <1>1, <1>2, <1>3, <1>4 DEF TransportNext

\* A listener answers under the id of the query it heard.
LEMMA ListenKeeps == FanoutInv /\ ListenNext /\ UNCHANGED fanoutVars => FanoutInv'
  <1>1. SUFFICES ASSUME FanoutInv, UNCHANGED fanoutVars,
                        NEW n \in Nodes, NEW p \in sent, Hear(n, p)
                 PROVE  FanoutInv'
    BY DEF ListenNext
  <1>2. p \in Packet /\ p.qid \in queryIds /\ channel' = channel
    BY <1>1 DEF FanoutInv, FanoutTypes, Registered, Hear
  <1>3. sent' = sent \/ (p.kind = "query" /\ sent' = sent \cup {Reply(p, n)})
    BY <1>1 DEF Hear, Respond, Sent
  <1>4. p.kind = "query" => Reply(p, n) \in Packet /\ Reply(p, n).qid = p.qid
    <2>1. SUFFICES ASSUME p.kind = "query"
                   PROVE  Reply(p, n) \in Packet /\ Reply(p, n).qid = p.qid
      OBVIOUS
    <2>2. p \in Query
      BY <1>2, <2>1 DEF Packet, Answer
    <2>3. p.via \in Via /\ p.qid \in QueryId /\ Holds[n] \in SUBSET Resources
      BY <2>2, HoldsAssumption DEF Query, Nodes
    <2>4. Reply(p, n) \in Answer
      BY <2>3 DEF Reply, Answer
    <2>5. QED BY <2>4 DEF Reply, Packet
  <1>5. FanoutTypes' /\ steady' \subseteq blocks'
    BY <1>1, <1>2, <1>3, <1>4 DEF FanoutInv, FanoutTypes, fanoutVars
  <1>6. NothingYet' /\ ListCovers' /\ OnlyOpen' /\ NoAnswerDropped'
    BY <1>1 DEF FanoutInv, NothingYet, ListCovers, OnlyOpen, Shut, NoAnswerDropped, fanoutVars
  <1>7. Registered'
    <2>1. \A q \in sent' : q.qid \in queryIds'
      BY <1>1, <1>2, <1>3, <1>4 DEF FanoutInv, Registered, fanoutVars
    <2>2. QED BY <1>1, <1>2, <1>3, <2>1 DEF FanoutInv, Registered, fanoutVars
  <1>8. QED BY <1>5, <1>6, <1>7 DEF FanoutInv

-----------------------------------------------------------------------------
LEMMA FanoutStep == FanoutInv /\ [Next]_vars => FanoutInv'
  <1>1. SUFFICES ASSUME FanoutInv, [Next]_vars PROVE FanoutInv'
    OBVIOUS
  <1>2. CASE Command
    <2>1. CASE SubscribeAll
      BY <1>1, <2>1, OnlyMoves
      DEF SubscribeAll, Fail, Goto, memory, transportVars, Before, Asking
    <2>2. ASSUME NEW v \in Via, StartListener(v) PROVE FanoutInv'
      BY <1>1, <2>2, OnlyMoves DEF StartListener, Goto, memory, Before, Asking
    <2>3. CASE ReadPeers
      BY <1>1, <2>3, OnlyMoves DEF ReadPeers, Goto, memory, transportVars, Before, Asking
    <2>4. CASE Discover
      BY <1>1, <2>4, OnlyMoves DEF Discover, Goto, memory, transportVars, Before, Asking
    <2>5. CASE LoadBlocked
      BY <1>1, <2>5, LoadBlockedKeeps
    <2>6. ASSUME NEW a \in Agents, Ask(a) PROVE FanoutInv'
      BY <1>1, <2>6, AskKeeps
    <2>7. CASE Publish
      BY <1>1, <2>7, PublishKeeps
    <2>8. CASE Loop
      BY <1>1, <2>8, OnlyMoves DEF Loop, Goto, memory, transportVars, Before, Asking
    <2>9. ASSUME NEW v \in Via, Read(v) PROVE FanoutInv'
      BY <1>1, <2>9, ReadKeeps
    <2>10. ASSUME NEW v \in Via, ReadNothing(v) PROVE FanoutInv'
      BY <1>1, <2>10, OnlyMoves
      DEF ReadNothing, AfterRead, Goto, memory, transportVars, Via, Before, Asking
    <2>11. QED
      BY <1>2, <2>1, <2>2, <2>3, <2>4, <2>5, <2>6, <2>7, <2>8, <2>9, <2>10 DEF Command
  <1>3. CASE Tick
    BY <1>1, <1>3, OnlyMoves DEF Tick, memory, transportVars, FanoutInv, FanoutTypes
  <1>4. ASSUME NEW a \in Agents, SendDirect(a) \/ Moderate(a) PROVE FanoutInv'
    BY <1>1, <1>4, SendDirectKeeps, ModerateKeeps
  <1>5. CASE TransportNext /\ UNCHANGED <<listenVars, fanoutVars>>
    BY <1>1, <1>5, TransportKeeps
  <1>6. CASE ListenNext /\ UNCHANGED fanoutVars
    BY <1>1, <1>6, ListenKeeps
  <1>7. CASE UNCHANGED vars
    BY <1>1, <1>7, OnlyMoves
    DEF vars, transportVars, fanoutVars, memory, FanoutInv, FanoutTypes
  <1>8. QED BY <1>1, <1>2, <1>3, <1>4, <1>5, <1>6, <1>7 DEF Next

LEMMA FanoutSuffices == FanoutInv => BlockedAreShutOut
  BY DEF FanoutInv, FanoutTypes, OnlyOpen, Shut, BlockedAreShutOut

\* An agent that has been blocked since before the command began is neither
\* asked nor listened to (network.rs), for any agents, streams and answers.
THEOREM BlockedStayOut == Spec => []BlockedAreShutOut
  <1>1. Init => FanoutInv
    BY FanoutInitially
  <1>2. FanoutInv /\ [Next]_vars => FanoutInv'
    BY FanoutStep
  <1>3. FanoutInv => BlockedAreShutOut
    BY FanoutSuffices
  <1>4. QED BY <1>1, <1>2, <1>3, PTL DEF Spec

\* Every answer the loop reads from an agent that is not blocked is kept: the
\* ids are registered before anything that is answered can have been sent.
THEOREM AnswersAreKept == Spec => []NoAnswerDropped
  <1>1. Init => FanoutInv
    BY FanoutInitially
  <1>2. FanoutInv /\ [Next]_vars => FanoutInv'
    BY FanoutStep
  <1>3. FanoutInv => NoAnswerDropped
    BY DEF FanoutInv
  <1>4. QED BY <1>1, <1>2, <1>3, PTL DEF Spec

-----------------------------------------------------------------------------
(* The agreement of the answers                                            *)

\* Nobody's answer is the command's own: a listener ignores its own query.
FromOthers == \A p \in sent \cup read : p.kind = "answer" => p.from \in Agents

\* Every result is what passed the scheme filter of an answer that was read.
WasRead ==
    \A i \in DOMAIN results :
        \E p \in read : /\ p.kind = "answer"
                        /\ results[i].agent = p.from
                        /\ results[i].results = p.results \cap InScheme

HonestInv == IsFiniteSet(read) /\ FromOthers /\ WasRead

\* Nothing of it is disturbed by a packet that is no answer, or one of another node.
LEMMA SentKeepsHonest ==
  ASSUME HonestInv, UNCHANGED <<read, results>>,
         \A p \in sent' : p \in sent \/ p.kind # "answer" \/ p.from \in Agents
  PROVE  HonestInv'
  <1>1. IsFiniteSet(read)'
    BY DEF HonestInv
  <1>2. FromOthers'
    BY DEF HonestInv, FromOthers
  <1>3. WasRead'
    BY DEF HonestInv, WasRead
  <1>4. QED BY <1>1, <1>2, <1>3 DEF HonestInv

\* An answer that is read comes from another node, and what is kept is its own.
LEMMA ReadKeepsHonest ==
  ASSUME NEW v \in Via PROVE FanoutInv /\ HonestInv /\ Read(v) => HonestInv'
  <1>1. SUFFICES ASSUME FanoutInv, HonestInv, Read(v) PROVE HonestInv'
    OBVIOUS
  <1> DEFINE p == Head(channel[v])
  <1> DEFINE one == [agent |-> p.from, results |-> p.results \cap InScheme]
  <1>2. /\ channel[v] # << >>
        /\ read' = IF p.kind = "answer" THEN read \cup {p} ELSE read
        /\ sent' = sent
        /\ \/ results' = results
           \/ results' = Append(results, one) /\ p.kind = "answer"
    BY <1>1 DEF Read, Take, Awaited
  <1>3. p.kind = "answer" => p \in sent
    BY <1>1, <1>2, ChannelTypes DEF FanoutInv, Registered
  <1> HIDE DEF p
  <1>4. IsFiniteSet(read')
    BY <1>1, <1>2, FS_AddElement DEF HonestInv
  <1>5. FromOthers'
    BY <1>1, <1>2, <1>3 DEF HonestInv, FromOthers
  <1>6. WasRead'
    <2>1. results \in Seq(Kept)
      BY <1>1 DEF FanoutInv, FanoutTypes
    <2>2. SUFFICES ASSUME NEW i \in DOMAIN results'
                   PROVE  \E q \in read' : /\ q.kind = "answer"
                                           /\ results'[i].agent = q.from
                                           /\ results'[i].results = q.results \cap InScheme
      BY DEF WasRead
    <2>3. CASE i \in DOMAIN results /\ results'[i] = results[i]
      BY <1>1, <1>2, <2>3 DEF HonestInv, WasRead
    <2>4. CASE results' = Append(results, one) /\ p.kind = "answer" /\ results'[i] = one
      <3>1. p \in read'
        BY <1>2, <2>4
      <3>2. one.agent = p.from /\ one.results = p.results \cap InScheme
        OBVIOUS
      <3>3. QED BY <2>4, <3>1, <3>2
    <2>5. CASE results' = Append(results, one) /\ p.kind = "answer"
      <3>1. results'[i] = one \/ (i \in DOMAIN results /\ results'[i] = results[i])
        BY <2>1, <2>5
      <3>2. QED BY <2>3, <2>4, <2>5, <3>1
    <2>6. QED BY <1>2, <2>3, <2>5
  <1>7. QED BY <1>4, <1>5, <1>6 DEF HonestInv

\* A node that hears a query of the command is not the command's own.
LEMMA ListenKeepsHonest ==
  HonestInv /\ ListenNext /\ UNCHANGED fanoutVars => HonestInv'
  <1>1. SUFFICES ASSUME HonestInv, UNCHANGED fanoutVars,
                        NEW n \in Nodes, NEW p \in sent, Hear(n, p)
                 PROVE  HonestInv'
    BY DEF ListenNext
  <1>2. UNCHANGED <<read, results>>
    BY <1>1 DEF fanoutVars
  <1>3. CASE p.kind = "query"
    <2>1. n \in Agents /\ Reply(p, n).from = n
      BY <1>1, <1>3 DEF Hear, Origin, Nodes, Reply
    <2>2. sent' = sent \/ sent' = sent \cup {Reply(p, n)}
      BY <1>1, <1>3 DEF Hear, Respond, Sent
    <2>3. QED BY <1>1, <1>2, <2>1, <2>2, SentKeepsHonest
  <1>4. CASE p.kind # "query"
    BY <1>1, <1>2, <1>4, SentKeepsHonest DEF Hear
  <1>5. QED BY <1>3, <1>4

LEMMA HonestStep == FanoutInv /\ HonestInv /\ [Next]_vars => HonestInv'
  <1>1. SUFFICES ASSUME FanoutInv, HonestInv, [Next]_vars PROVE HonestInv'
    OBVIOUS
  <1>2. UNCHANGED <<sent, read, results>> => HonestInv'
    BY <1>1, SentKeepsHonest
  <1>3. CASE Command
    <2>1. CASE SubscribeAll \/ ReadPeers \/ Discover \/ LoadBlocked \/ Loop
      BY <1>2, <2>1
      DEF SubscribeAll, Fail, ReadPeers, Discover, LoadBlocked, Loop, transportVars
    <2>2. ASSUME NEW v \in Via, StartListener(v) \/ ReadNothing(v) PROVE HonestInv'
      BY <1>2, <2>2 DEF StartListener, ReadNothing, transportVars
    <2>3. ASSUME NEW a \in Agents, Ask(a) PROVE HonestInv'
      BY <1>2, <2>3 DEF Ask, transportVars
    <2>4. CASE Publish
      BY <1>1, <2>4, SentKeepsHonest DEF Publish, Sent, Fail, transportVars
    <2>5. ASSUME NEW v \in Via, Read(v) PROVE HonestInv'
      BY <1>1, <2>5, ReadKeepsHonest
    <2>6. QED BY <1>3, <2>1, <2>2, <2>3, <2>4, <2>5 DEF Command
  <1>4. CASE Tick
    BY <1>2, <1>4 DEF Tick, transportVars
  <1>5. ASSUME NEW a \in Agents, SendDirect(a) \/ Moderate(a) PROVE HonestInv'
    <2>1. CASE SendDirect(a)
      BY <1>1, <2>1, SentKeepsHonest DEF SendDirect, Sent
    <2>2. CASE Moderate(a)
      BY <1>2, <2>2 DEF Moderate, transportVars
    <2>3. QED BY <1>5, <2>1, <2>2
  <1>6. CASE TransportNext /\ UNCHANGED <<listenVars, fanoutVars>>
    BY <1>2, <1>6 DEF TransportNext, Connect, Break, Deliver, fanoutVars
  <1>7. CASE ListenNext /\ UNCHANGED fanoutVars
    BY <1>1, <1>7, ListenKeepsHonest
  <1>8. CASE UNCHANGED vars
    BY <1>2, <1>8 DEF vars, transportVars, fanoutVars
  <1>9. QED BY <1>1, <1>3, <1>4, <1>5, <1>6, <1>7, <1>8 DEF Next

\* The agents some read answer of which has the resource.
Answered(r) == {a \in Agents : \E p \in read : p.from = a /\ r \in p.results}

\* They are finitely many, as the answers read are, whatever Agents is.
LEMMA AnsweredIsFinite ==
  ASSUME HonestInv, NEW r PROVE IsFiniteSet(Answered(r))
  <1> DEFINE answers == {p \in read : p.from \in Agents /\ r \in p.results}
  <1> DEFINE sender == [p \in answers |-> p.from]
  <1>1. answers \in SUBSET read
    OBVIOUS
  <1>2. IsFiniteSet(answers)
    BY <1>1, FS_Subset DEF HonestInv
  <1>3. sender \in [answers -> Answered(r)]
    BY DEF Answered
  <1>4. \A a \in Answered(r) : \E p \in answers : sender[p] = a
    BY DEF Answered
  <1>5. sender \in Surjection(answers, Answered(r))
    BY <1>3, <1>4 DEF Surjection
  <1>6. QED BY <1>2, <1>5, FS_Surjection

\* Each place on the list of a resource belongs to an agent that answered with it.
LEMMA ListedAnswered ==
  ASSUME HonestInv, NEW r, NEW i \in Agreeing(r)
  PROVE  results[i].agent \in Answered(r) /\ r \in InScheme
  <1>1. i \in DOMAIN results /\ r \in results[i].results
    BY DEF Agreeing
  <1>2. PICK p \in read : /\ p.kind = "answer"
                          /\ results[i].agent = p.from
                          /\ results[i].results = p.results \cap InScheme
    BY <1>1 DEF HonestInv, WasRead
  <1>3. QED BY <1>1, <1>2 DEF HonestInv, FromOthers, Answered

\* No agent has two places on it, so that there are no more places than agents.
LEMMA ListedOnce ==
  ASSUME FanoutTypes, HonestInv, NEW r
  PROVE  AgreementCount(r) <= Cardinality(Answered(r))
  <1> DEFINE agentAt == [i \in Agreeing(r) |-> results[i].agent]
  <1>1. agentAt \in [Agreeing(r) -> Answered(r)]
    BY ListedAnswered
  <1>2. ASSUME NEW i \in Agreeing(r), NEW k \in Agreeing(r), agentAt[i] = agentAt[k]
        PROVE  i = k
    <2>1. i \in 1 .. Len(results) /\ k \in 1 .. Len(results) /\ Len(results) \in Nat
      BY DEF FanoutTypes, Agreeing
    <2>2. r \in results[i].results /\ r \in results[k].results
      BY DEF Agreeing
    <2>3. results[i].agent = results[k].agent
      BY <1>2
    <2>4. ~(i < k)
      BY <2>1, <2>2, <2>3 DEF Agreeing
    <2>5. ~(k < i)
      BY <2>1, <2>2, <2>3 DEF Agreeing
    <2>6. QED BY <2>1, <2>4, <2>5
  <1>3. agentAt \in Injection(Agreeing(r), Answered(r))
    BY <1>1, <1>2 DEF Injection, IsInjective
  <1>4. QED BY <1>3, AnsweredIsFinite, FS_Injection DEF AgreementCount

LEMMA HonestSuffices == FanoutInv /\ HonestInv => AgreementIsHonest
  <1>1. SUFFICES ASSUME FanoutInv, HonestInv, NEW r \in Resources
                 PROVE  /\ AgreementCount(r) <= Cardinality(Answered(r))
                        /\ \A i \in Agreeing(r) : results[i].agent \in Answered(r)
                        /\ r \notin InScheme => AgreementCount(r) = 0
    BY DEF AgreementIsHonest, Answered
  <1>2. AgreementCount(r) <= Cardinality(Answered(r))
    BY <1>1, ListedOnce DEF FanoutInv
  <1>3. \A i \in Agreeing(r) : results[i].agent \in Answered(r) /\ r \in InScheme
    BY <1>1, ListedAnswered
  <1>4. r \notin InScheme => Agreeing(r) = {}
    BY <1>3
  <1>5. QED BY <1>2, <1>3, <1>4, FS_EmptySet DEF AgreementCount

\* The agreement a resource is ranked by (cluster.rs) counts only other nodes
\* that answered with it, and each of them once, however many answers, on
\* whichever channels, an agent gave.
THEOREM AgreementsAreHonest == Spec => []AgreementIsHonest
  <1>1. Init => FanoutInv /\ HonestInv
    <2>1. Init => HonestInv
      BY FS_EmptySet DEF Init, TransportInit, HonestInv, FromOthers, WasRead
    <2>2. QED BY <2>1, FanoutInitially
  <1>2. FanoutInv /\ HonestInv /\ [Next]_vars => FanoutInv' /\ HonestInv'
    BY FanoutStep, HonestStep
  <1>3. FanoutInv /\ HonestInv => AgreementIsHonest
    BY HonestSuffices
  <1>4. QED BY <1>1, <1>2, <1>3, PTL DEF Spec

-----------------------------------------------------------------------------
(* The rest of the types                                                   *)

\* What the proofs above have no use for.
RestTypes ==
    /\ subscribed \in BOOLEAN
    /\ stream \in [Via -> {"off", "connecting", "open", "broken"}]
    /\ \A v \in Via : Len(channel[v]) <= Backlog
    /\ delivered \subseteq sent \X Via
    /\ ListenTypeOK
    /\ blocked \subseteq Agents /\ blocksRead \in BOOLEAN
    /\ candidates \subseteq Nodes
    /\ at \in {"ask", "loop", "direct", "gossip", "done"} => candidates \subseteq Agents
    /\ queryIds \subseteq QueryId
    /\ now \in 0 .. Timeout
    /\ read \subseteq Answer

\* At first nothing is there.
LEMMA RestInitially == Init => RestTypes
  <1> SUFFICES ASSUME Init PROVE RestTypes
    OBVIOUS
  <1>1. ListenTypeOK
    BY ReachableAssumption DEF Init, ListenTypeOK
  <1>2. \A v \in Via : Len(channel[v]) <= Backlog
    <2>1. \A v \in Via : channel[v] = << >>
      BY DEF Init, TransportInit
    <2>2. QED BY <2>1, BacklogAssumption
  <1>3. now \in 0 .. Timeout
    BY TimeoutAssumption DEF Init
  <1>4. subscribed \in BOOLEAN /\ stream \in [Via -> {"off", "connecting", "open", "broken"}]
    BY DEF Init, TransportInit
  <1>5. delivered \subseteq sent \X Via
    BY DEF Init, TransportInit
  <1>6. QED BY <1>1, <1>2, <1>3, <1>4, <1>5 DEF Init, RestTypes

\* The statements of the command that touch no packet.
LEMMA CommandTypes ==
  FanoutInv /\ RestTypes /\ (ReadPeers \/ Discover \/ LoadBlocked \/ Loop \/ Tick) => RestTypes'
  <1> SUFFICES ASSUME FanoutInv, RestTypes PROVE
                 ReadPeers \/ Discover \/ LoadBlocked \/ Loop \/ Tick => RestTypes'
    OBVIOUS
  <1>1. ASSUME ReadPeers PROVE RestTypes'
    BY <1>1 DEF RestTypes, ReadPeers, Goto, ListenTypeOK, transportVars, listenVars
  <1>2. ASSUME Discover PROVE RestTypes'
    BY <1>2, ReachableAssumption
    DEF RestTypes, Discover, Goto, ListenTypeOK, transportVars, listenVars
  <1>3. ASSUME LoadBlocked PROVE RestTypes'
    BY <1>3 DEF RestTypes, LoadBlocked, Goto, ListenTypeOK, transportVars, listenVars, Nodes,
                FanoutInv, FanoutTypes
  <1>4. ASSUME Loop PROVE RestTypes'
    BY <1>4 DEF RestTypes, Loop, Goto, ListenTypeOK, transportVars, listenVars
  <1>5. ASSUME Tick PROVE RestTypes'
    BY <1>5, TimeoutAssumption
    DEF RestTypes, Tick, ListenTypeOK, transportVars, listenVars
  <1>6. QED BY <1>1, <1>2, <1>3, <1>4, <1>5

\* Those that open, ask and send.
LEMMA AskTypes ==
  ASSUME FanoutInv, RestTypes
  PROVE  /\ SubscribeAll => RestTypes'
         /\ \A v \in Via : StartListener(v) => RestTypes'
         /\ \A a \in Agents : Ask(a) \/ SendDirect(a) \/ Moderate(a) => RestTypes'
         /\ Publish => RestTypes'
  <1>1. ASSUME SubscribeAll PROVE RestTypes'
    BY <1>1 DEF RestTypes, SubscribeAll, Fail, Goto, ListenTypeOK, transportVars, listenVars
  <1>2. ASSUME NEW v \in Via, StartListener(v) PROVE RestTypes'
    BY <1>2 DEF RestTypes, StartListener, Goto, ListenTypeOK, transportVars, listenVars, Via
  <1>3. ASSUME NEW a \in Agents, Ask(a) PROVE RestTypes'
    BY <1>3 DEF RestTypes, Ask, ListenTypeOK, transportVars, listenVars, QueryId
  <1>4. ASSUME NEW a \in Agents, SendDirect(a) PROVE RestTypes'
    BY <1>4 DEF RestTypes, SendDirect, Sent, ListenTypeOK, transportVars, listenVars
  <1>5. ASSUME NEW a \in Agents, Moderate(a) PROVE RestTypes'
    BY <1>5 DEF RestTypes, Moderate, ListenTypeOK, transportVars, listenVars
  <1>6. ASSUME Publish PROVE RestTypes'
    <2>1. CASE Fail
      BY <2>1 DEF RestTypes, Fail, Goto, ListenTypeOK, transportVars, listenVars
    <2>2. CASE ~Fail
      <3>1. /\ at = "ask" /\ sent \subseteq sent' /\ queryIds' = queryIds \cup {"gossip"}
            /\ UNCHANGED <<subscribed, stream, channel, delivered, listener, peerCache, blocked,
                           blocksRead, candidates, now, read>>
        BY <1>6, <2>2 DEF Publish, Sent, listenVars
      <3>2. candidates' \subseteq Agents /\ candidates' \subseteq Nodes
        BY <3>1 DEF RestTypes
      <3>3. delivered' \subseteq sent' \X Via /\ queryIds' \subseteq QueryId
        BY <3>1 DEF RestTypes, QueryId
      <3>4. ListenTypeOK'
        BY <3>1 DEF RestTypes, ListenTypeOK
      <3>5. QED BY <3>1, <3>2, <3>3, <3>4 DEF RestTypes
    <2>3. QED BY <2>1, <2>2
  <1>7. QED BY <1>1, <1>2, <1>3, <1>4, <1>5, <1>6

\* A channel is read: what it held was sent.
LEMMA ReadTypes ==
  ASSUME FanoutInv, RestTypes, NEW v \in Via, Read(v) \/ ReadNothing(v)
  PROVE  RestTypes'
  <1>1. CASE ReadNothing(v)
    <2>1. /\ at \in Via
          /\ UNCHANGED <<subscribed, stream, channel, sent, delivered, listener, peerCache, blocked,
                         blocksRead, candidates, queryIds, now, read>>
      BY <1>1 DEF ReadNothing, transportVars, listenVars
    <2>2. candidates' \subseteq Agents
      BY <2>1 DEF RestTypes, Via
    <2>3. ListenTypeOK'
      BY <2>1 DEF RestTypes, ListenTypeOK
    <2>4. QED BY <2>1, <2>2, <2>3 DEF RestTypes
  <1>2. CASE Read(v)
    <2> DEFINE p == Head(channel[v])
    <2>1. FanoutTypes /\ channel[v] # << >>
      BY <1>2 DEF FanoutInv, Read
    <2>2. channel[v] \in Seq(Event) /\ p = channel[v][1] /\ 1 \in DOMAIN channel[v]
      BY <2>1, ChannelTypes
    <2>3. p.kind = "answer" => p \in Answer
      <3>1. p \in Event
        BY <2>1, <2>2, ChannelTypes
      <3>2. QED BY <3>1 DEF Event, Packet, Query, Noise
    <2>4. Len(Tail(channel[v])) <= Len(channel[v])
      BY <2>1, <2>2
    <2>5. channel' = [channel EXCEPT ![v] = Tail(@)]
      BY <1>2 DEF Read
    <2>6. \A w \in Via : Len(channel'[w]) <= Backlog
      <3>1. ASSUME NEW w \in Via PROVE Len(channel'[w]) <= Backlog
        <4>1. channel \in [Via -> Seq(Event)]
          BY <2>1 DEF FanoutTypes
        <4>2. CASE w = v
          <5>1. channel'[w] = Tail(channel[v])
            BY <2>5, <4>1, <4>2
          <5>2. /\ Len(channel[v]) <= Backlog /\ Len(channel[v]) \in Nat
                /\ Len(Tail(channel[v])) \in Nat
            BY <2>1, <2>2 DEF RestTypes
          <5>3. QED BY <2>4, <5>1, <5>2, BacklogAssumption
        <4>3. CASE w # v
          BY <2>5, <4>1, <4>3 DEF RestTypes
        <4>4. QED BY <4>2, <4>3
      <3>2. QED BY <3>1
    <2> HIDE DEF p
    <2>7. read' = (IF p.kind = "answer" THEN read \cup {p} ELSE read) /\ at' \in {"gossip", "loop"}
      BY <1>2 DEF Read, p, Goto, AfterRead, Take
    <2>8. /\ peerCache' \in {peerCache, peerCache \cup {p.from}}
          /\ peerCache' # peerCache => p.kind = "answer"
      BY <1>2 DEF Read, p, Take, Awaited
    <2>9. peerCache' \subseteq Nodes
      BY <2>3, <2>8 DEF RestTypes, ListenTypeOK, Answer
    <2>10. read' \subseteq Answer
      BY <2>3, <2>7 DEF RestTypes
    <2>11. /\ UNCHANGED <<subscribed, stream, sent, delivered, listener, blocked, blocksRead,
                          candidates, queryIds, now>>
           /\ at \in Via
      BY <1>2 DEF Read
    <2>12. candidates' \subseteq Agents
      BY <2>11 DEF RestTypes, Via
    <2>13. ListenTypeOK'
      BY <2>9, <2>11 DEF RestTypes, ListenTypeOK
    <2>14. QED BY <2>6, <2>10, <2>11, <2>12, <2>13 DEF RestTypes, Nodes
  <1>3. QED BY <1>1, <1>2

\* A stream or a listener moves; a channel that is full takes nothing.
LEMMA WireTypes ==
  ASSUME FanoutInv, RestTypes
  PROVE  /\ TransportNext /\ UNCHANGED <<listenVars, fanoutVars>> => RestTypes'
         /\ ListenNext /\ UNCHANGED fanoutVars => RestTypes'
  <1>1. channel \in [Via -> Seq(Event)] /\ sent \subseteq Packet
    BY DEF FanoutInv, FanoutTypes
  <1>2. ASSUME NEW v \in Via, NEW e, Len(channel[v]) < Backlog,
               channel' = [channel EXCEPT ![v] = Append(@, e)]
        PROVE  \A w \in Via : Len(channel'[w]) <= Backlog
    <2>1. ASSUME NEW w \in Via PROVE Len(channel'[w]) <= Backlog
      <3>1. CASE w = v
        <4>1. channel'[w] = Append(channel[v], e) /\ Len(channel[v]) \in Nat
          BY <1>1, <1>2, <3>1
        <4>2. Len(Append(channel[v], e)) = Len(channel[v]) + 1
          BY <1>1
        <4>3. QED BY <1>2, <4>1, <4>2, BacklogAssumption
      <3>2. CASE w # v
        BY <1>1, <1>2, <3>2 DEF RestTypes
      <3>3. QED BY <3>1, <3>2
    <2>2. QED BY <2>1
  <1>3. ASSUME TransportNext, UNCHANGED <<listenVars, fanoutVars>> PROVE RestTypes'
    <2>1. ASSUME NEW v \in Via, Connect(v) PROVE RestTypes'
      BY <1>3, <2>1 DEF RestTypes, Connect, ListenTypeOK, listenVars, fanoutVars
    <2>2. ASSUME NEW v \in Via, Break(v) PROVE RestTypes'
      <3>1. \A w \in Via : Len(channel'[w]) <= Backlog
        BY <1>2, <2>2 DEF Break
      <3>2. QED BY <1>3, <2>2, <3>1 DEF RestTypes, Break, ListenTypeOK, listenVars, fanoutVars
    <2>3. ASSUME NEW p \in sent, NEW v \in Via, Deliver(p, v) PROVE RestTypes'
      <3>1. \A w \in Via : Len(channel'[w]) <= Backlog
        BY <1>2, <2>3 DEF Deliver
      <3>2. QED BY <1>3, <2>3, <3>1 DEF RestTypes, Deliver, ListenTypeOK, listenVars, fanoutVars
    <2>4. QED BY <1>3, <2>1, <2>2, <2>3 DEF TransportNext
  <1>4. ASSUME UNCHANGED fanoutVars, NEW n \in Nodes, NEW p \in sent, Hear(n, p)
        PROVE  RestTypes'
    <2>1. Origin(p) \in Nodes
      BY <1>1 DEF Origin, Packet, Query, Answer, Nodes
    <2>2. listener' \in [Nodes -> {"up", "ended"}] /\ sent \subseteq sent'
      BY <1>4 DEF Hear, Respond, Sent, RestTypes, ListenTypeOK
    <2>3. peerCache' \subseteq Nodes
      BY <1>4, <2>1 DEF Hear, RestTypes, ListenTypeOK
    <2>4. UNCHANGED <<subscribed, stream, channel, delivered>>
      BY <1>4 DEF Hear
    <2>5. QED BY <1>4, <2>2, <2>3, <2>4 DEF RestTypes, ListenTypeOK, fanoutVars
  <1>5. QED BY <1>3, <1>4 DEF ListenNext

\* Every step keeps them.
LEMMA RestStep == FanoutInv /\ RestTypes /\ [Next]_vars => RestTypes'
  <1> SUFFICES ASSUME FanoutInv, RestTypes, [Next]_vars PROVE RestTypes'
    OBVIOUS
  <1>1. CASE Command
    BY <1>1, CommandTypes, AskTypes, ReadTypes DEF Command
  <1>2. CASE Tick
    BY <1>2, CommandTypes
  <1>3. ASSUME NEW a \in Agents, SendDirect(a) \/ Moderate(a) PROVE RestTypes'
    BY <1>3, AskTypes
  <1>4. CASE TransportNext /\ UNCHANGED <<listenVars, fanoutVars>>
    BY <1>4, WireTypes
  <1>5. CASE ListenNext /\ UNCHANGED fanoutVars
    BY <1>5, WireTypes
  <1>6. CASE UNCHANGED vars
    BY <1>6 DEF vars, transportVars, listenVars, fanoutVars, RestTypes, ListenTypeOK
  <1>7. QED BY <1>1, <1>2, <1>3, <1>4, <1>5, <1>6 DEF Next

(***************************************************************************)
(* Every variable of a fan-out keeps its type: the command asks only other *)
(* nodes, a channel holds no more than its backlog, and the loop's clock   *)
(* does not pass the timeout (network.rs, dispatcher.rs).                  *)
(***************************************************************************)
THEOREM FanoutsTypeCorrect == Spec => []TypeOK
  <1>1. FanoutInv /\ RestTypes => TypeOK
    BY DEF FanoutInv, FanoutTypes, RestTypes, TypeOK, TransportTypeOK, Kept, Before, Asking,
           Statements
  <1>2. QED
    BY <1>1, FanoutInitially, FanoutStep, RestInitially, RestStep, PTL DEF Spec
==============================================================================
