---------------------------- MODULE AvSaveProofs ----------------------------
(***************************************************************************)
(* Theorems about AvSave, for any number of saves and of deaths of the     *)
(* worker, and for files of any length.                                    *)
(***************************************************************************)
EXTENDS AvSave, FiniteSetTheorems, SequenceTheorems, TLAPS

-----------------------------------------------------------------------------
(* The invariant of one save, as a relation of the two ends of its port: p *)
(* is the page's side, W and P are the messages on their way to the worker *)
(* and to the page, b is the body, and clickedOn says that the navigation  *)
(* is still to come.                                                       *)

Early == {"idle", "opening", "opened", "confirming", "draining"}

Says(W, type) == \E i \in DOMAIN W : W[i].type = type

PullIn(P) == \E i \in DOMAIN P : P[i] = "pull"

\* One pull at most is on its way.
PullOnce(P) == \A i, j \in DOMAIN P : P[i] = "pull" /\ P[j] = "pull" => i = j

\* The first chunks of the file, in order.
Counted(q) == \A i \in 1 .. Len(q) : q[i] = i

\* A message that ends the pipe is the last, and comes from a save that is settled.
PortShaped(p, W) ==
    \A i \in DOMAIN W :
        IF W[i].type = "chunk" THEN i = 1 ELSE i = Len(W) /\ p.at \in Settled

\* A pull, the read it leads to, the chunk that comes of that and its place in
\* the queue: of these there is one at most, and none before a body asks.
OneOnItsWay(p, W, P, b) ==
    /\ PullOnce(P)
    /\ p.reading \in {0, 1} /\ b.queued \in {0, 1}
    /\ PullIn(P) => p.reading = 0 /\ ~Says(W, "chunk") /\ b.queued = 0
    /\ p.reading = 1 => ~Says(W, "chunk") /\ b.queued = 0 /\ p.parts = <<>>
    /\ Says(W, "chunk") => b.queued = 0
    /\ p.at # "piping" => p.reading = 0 /\ ~PullIn(P)
    /\ b.at \in {"none", "refused"} \/ (b.at = "open" /\ b.pulling = FALSE) =>
          ~PullIn(P) /\ p.reading = 0 /\ ~Says(W, "chunk")

\* What there is of a body before the page sends the browser to it.
NotYet(p, W, b, clickedOn) ==
    /\ p.at \in Early => W = <<>> /\ b = NoBody /\ ~clickedOn
    /\ clickedOn => b = NoBody
    /\ b.at \in {"none", "refused"} => b.queued = 0 /\ ~Says(W, "done")

\* The page hands over what it has in hand, then what it reads, in order.
InOrder(p) ==
    /\ Counted(p.handed)
    /\ p.at \in Early => p.handed = <<>>
    /\ p.at \in Early \cup {"piping"} =>
          \/ p.parts = <<>> /\ p.next = Len(p.handed) + 1
          \/ p.parts = << 1 >> /\ p.handed = <<>> /\ p.next = 2
    /\ p.at = "saved" => Len(p.handed) = Chunks

\* How far the body will have come when it has taken what is on its way.
Reached(W, b) == Len(b.got) + IF Says(W, "chunk") THEN 1 ELSE 0

\* What the body has got and what is on its way is what the page handed over.
Delivered(p, W, b) ==
    /\ Counted(b.got)
    /\ b.at = "closed" => Len(b.got) = Chunks
    /\ b.at \in {"none", "refused"} /\ p.at = "piping" => p.handed = <<>>
    /\ b.at = "open" =>
          /\ Says(W, "chunk") => W[1].of = Len(b.got) + 1
          /\ p.at = "piping" => Reached(W, b) = Len(p.handed)
          /\ Says(W, "done") => Reached(W, b) = Chunks

Flows(p, W, P, b, clickedOn) ==
    /\ PortShaped(p, W)
    /\ OneOnItsWay(p, W, P, b)
    /\ NotYet(p, W, b, clickedOn)
    /\ InOrder(p)
    /\ Delivered(p, W, b)

FlowInv ==
    \A s \in Saves : Flows(save[s], toWorker[s], toPage[s], body[s], s \in clicked)

PageMessage == {"ready", "pull", "cancelled"}

PortsTyped ==
    /\ save \in [Saves -> SaveState]
    /\ body \in [Saves -> BodyState]
    /\ toWorker \in [Saves -> Seq(Message)]
    /\ toPage \in [Saves -> Seq(PageMessage)]

RestTyped ==
    /\ posted \subseteq [save : Saves, to : 0 .. MaxDeaths]
    /\ clicked \subseteq Saves /\ downloads \subseteq Saves
    /\ worker \in [swaps : Nat, kills : Nat]
    /\ worker.swaps + worker.kills <= MaxDeaths
    /\ controller \in 0 .. worker.swaps
    /\ reasons \subseteq {"download"}

\* A token that was confirmed is with the worker unless its realm has died, and the
\* worker in control at the click was the last one asked.
TokenOK(s) ==
    /\ save[s].to <= controller /\ save[s].seen <= controller
    /\ save[s].at \in {"idle", "opening", "opened"} =>
          toPage[s] = <<>> /\ \A m \in posted : m.save # s
    /\ save[s].again = FALSE /\ worker.kills = 0 =>
          /\ save[s].at = "confirming" /\ toPage[s] # <<>> /\ worker.swaps = save[s].to =>
                s \in downloads
          /\ s \in clicked /\ worker.swaps = save[s].seen => s \in downloads
          /\ body[s].at = "refused" => worker.swaps # save[s].seen

TokenInv == \A s \in Saves : TokenOK(s)

-----------------------------------------------------------------------------
(* What goes through a port                                                *)

LEMMA SaysAppend ==
    ASSUME NEW W \in Seq(Message), NEW m \in Message, NEW type
    PROVE  /\ Append(W, m) \in Seq(Message)
           /\ Says(Append(W, m), type) <=> Says(W, type) \/ m.type = type
           /\ W # <<>> => Append(W, m)[1] = W[1]
<1>1. /\ Append(W, m) \in Seq(Message) /\ Len(Append(W, m)) = Len(W) + 1
      /\ \A i \in 1 .. Len(W) : Append(W, m)[i] = W[i]
      /\ Append(W, m)[Len(W) + 1] = m
      /\ DOMAIN Append(W, m) = 1 .. Len(W) + 1 /\ DOMAIN W = 1 .. Len(W)
      /\ Len(W) \in Nat /\ (W # <<>> => Len(W) > 0)
  OBVIOUS
<1>2. QED BY <1>1 DEF Says

LEMMA SaysTail ==
    ASSUME NEW W \in Seq(Message), W # <<>>, NEW type
    PROVE  /\ Tail(W) \in Seq(Message)
           /\ Says(Tail(W), type) => Says(W, type)
           /\ Says(W, type) => Says(Tail(W), type) \/ Head(W).type = type
<1>1. /\ Tail(W) \in Seq(Message) /\ Len(Tail(W)) = Len(W) - 1
      /\ \A i \in 1 .. Len(W) - 1 : Tail(W)[i] = W[i + 1]
      /\ Head(W) = W[1] /\ DOMAIN W = 1 .. Len(W) /\ DOMAIN Tail(W) = 1 .. Len(W) - 1
      /\ Len(W) \in Nat
  OBVIOUS
<1>2. Says(Tail(W), type) => Says(W, type)
  BY <1>1 DEF Says
<1>3. ASSUME NEW i \in 1 .. Len(W), W[i].type = type, i # 1
      PROVE  Says(Tail(W), type)
  <2>1. i - 1 \in 1 .. Len(W) - 1 /\ Tail(W)[i - 1] = W[i] BY <1>1, <1>3
  <2>2. QED BY <1>1, <1>3, <2>1 DEF Says
<1>4. QED BY <1>1, <1>2, <1>3 DEF Says

LEMMA SilentPort == \A type : ~Says(<<>>, type)
BY DEF Says

LEMMA PullAppend ==
    ASSUME NEW P \in Seq(PageMessage), NEW m \in PageMessage
    PROVE  /\ Append(P, m) \in Seq(PageMessage)
           /\ Append(P, m) # <<>>
           /\ PullIn(Append(P, m)) <=> PullIn(P) \/ m = "pull"
<1>1. /\ Append(P, m) \in Seq(PageMessage) /\ Len(Append(P, m)) = Len(P) + 1
      /\ \A i \in 1 .. Len(P) : Append(P, m)[i] = P[i]
      /\ Append(P, m)[Len(P) + 1] = m
      /\ DOMAIN Append(P, m) = 1 .. Len(P) + 1 /\ DOMAIN P = 1 .. Len(P)
      /\ Len(P) \in Nat
  OBVIOUS
<1>2. QED BY <1>1 DEF PullIn

LEMMA PullOnceAppend ==
    ASSUME NEW P \in Seq(PageMessage), NEW m \in PageMessage, PullOnce(P),
           m = "pull" => ~PullIn(P)
    PROVE  PullOnce(Append(P, m))
<1>1. /\ Len(Append(P, m)) = Len(P) + 1
      /\ \A i \in 1 .. Len(P) : Append(P, m)[i] = P[i]
      /\ Append(P, m)[Len(P) + 1] = m
      /\ DOMAIN Append(P, m) = 1 .. Len(P) + 1 /\ DOMAIN P = 1 .. Len(P)
      /\ Len(P) \in Nat
  OBVIOUS
<1>2. QED BY <1>1 DEF PullIn, PullOnce

\* The page takes the pull, and there is no other.
LEMMA PullTaken ==
    ASSUME NEW P \in Seq(PageMessage), PullOnce(P), P # <<>>, Head(P) = "pull"
    PROVE  /\ Tail(P) \in Seq(PageMessage)
           /\ PullIn(P) /\ ~PullIn(Tail(P)) /\ PullOnce(Tail(P))
<1>1. /\ Tail(P) \in Seq(PageMessage) /\ Len(Tail(P)) = Len(P) - 1
      /\ \A i \in 1 .. Len(P) - 1 : Tail(P)[i] = P[i + 1]
      /\ Head(P) = P[1] /\ DOMAIN P = 1 .. Len(P) /\ DOMAIN Tail(P) = 1 .. Len(P) - 1
      /\ Len(P) \in Nat /\ Len(P) > 0
  OBVIOUS
<1>2. PullIn(P) BY <1>1 DEF PullIn
<1>3. \A i \in DOMAIN Tail(P) : Tail(P)[i] # "pull"
  BY <1>1 DEF PullOnce
<1>4. QED BY <1>1, <1>2, <1>3 DEF PullIn, PullOnce

LEMMA NoPulls == ~PullIn(<<>>) /\ PullOnce(<<>>)
BY DEF PullIn, PullOnce

-----------------------------------------------------------------------------
(* The steps of the page, on one save                                      *)

\* Steps before the pipe, and those that change nothing the invariant is about.
LEMMA EarlyFlows ==
    ASSUME NEW p \in SaveState, NEW q \in SaveState, NEW W, NEW P, NEW P2, NEW b, NEW clickedOn,
           Flows(p, W, P, b, clickedOn), p.at \in Early, q.at \in Early \cup {"failed"},
           q.handed = p.handed, q.reading = p.reading, P2 \in {P, <<>>},
           \/ q.parts = p.parts /\ q.next = p.next
           \/ q.parts = << 1 >> /\ q.next = 2
    PROVE  Flows(q, W, P2, b, clickedOn)
<1>1. /\ W = <<>> /\ b = NoBody /\ p.handed = <<>> /\ p.reading = 0 /\ ~PullIn(P)
      /\ b.at = "none" /\ b.queued = 0 /\ b.got = <<>>
  BY DEF Flows, NotYet, InOrder, OneOnItsWay, Early, NoBody
<1>2. \A type : ~Says(W, type) BY <1>1, SilentPort
<1>3. PortShaped(q, W) BY <1>1 DEF PortShaped
<1>4. OneOnItsWay(q, W, P2, b)
  BY <1>1, <1>2, NoPulls DEF Flows, OneOnItsWay, PullOnce, Early
<1>5. NotYet(q, W, b, clickedOn)
  BY <1>1, <1>2 DEF Flows, NotYet
<1>6. InOrder(q) BY <1>1 DEF Flows, InOrder, Early
<1>7. Delivered(q, W, b) BY <1>1, <1>2 DEF Flows, Delivered, Early
<1>8. QED BY <1>3, <1>4, <1>5, <1>6, <1>7 DEF Flows

\* The click.
LEMMA ClickFlows ==
    ASSUME NEW p \in SaveState, NEW q \in SaveState, NEW W, NEW P, NEW b, NEW clickedOn,
           Flows(p, W, P, b, clickedOn), p.at \in Early, q.at = "piping",
           q.handed = p.handed, q.reading = p.reading, q.parts = p.parts, q.next = p.next
    PROVE  Flows(q, W, <<>>, b, TRUE)
<1>1. /\ W = <<>> /\ b = NoBody /\ p.handed = <<>> /\ p.reading = 0
      /\ b.at = "none" /\ b.queued = 0 /\ b.got = <<>>
  BY DEF Flows, NotYet, InOrder, OneOnItsWay, Early, NoBody
<1>2. \A type : ~Says(W, type) BY <1>1, SilentPort
<1>3. PortShaped(q, W) BY <1>1 DEF PortShaped
<1>4. OneOnItsWay(q, W, <<>>, b)
  BY <1>1, <1>2, NoPulls DEF OneOnItsWay, PullOnce
<1>5. NotYet(q, W, b, TRUE) BY <1>1, <1>2 DEF NotYet, Early
<1>6. InOrder(q) BY <1>1 DEF Flows, InOrder, Early
<1>7. Delivered(q, W, b) BY <1>1, <1>2 DEF Flows, Delivered
<1>8. QED BY <1>3, <1>4, <1>5, <1>6, <1>7 DEF Flows

\* A save is settled: what it hands over with that, if anything, is the end.
LEMMA SettledFlows ==
    ASSUME NEW p \in SaveState, NEW q \in SaveState, NEW W, NEW P, NEW b, NEW clickedOn,
           Flows(p, W, P, b, clickedOn), q.at \in Settled, q.reading = 0,
           Counted(q.handed), q.at = "saved" => Len(q.handed) = Chunks
    PROVE  Flows(q, W, <<>>, b, clickedOn)
<1>1. q.at \notin Early /\ q.at # "piping" BY DEF Settled, Early
<1>2. PortShaped(q, W) BY DEF Flows, PortShaped
<1>3. OneOnItsWay(q, W, <<>>, b)
  BY <1>1, NoPulls DEF Flows, OneOnItsWay, PullOnce
<1>4. NotYet(q, W, b, clickedOn) BY <1>1 DEF Flows, NotYet
<1>5. InOrder(q) BY <1>1 DEF InOrder
<1>6. Delivered(q, W, b) BY <1>1 DEF Flows, Delivered
<1>7. QED BY <1>2, <1>3, <1>4, <1>5, <1>6 DEF Flows

LEMMA EndedFlows ==
    ASSUME NEW p \in SaveState, NEW q \in SaveState, NEW W \in Seq(Message), NEW P,
           NEW b \in BodyState, NEW clickedOn, NEW m \in Message,
           Flows(p, W, P, b, clickedOn), p.at = "piping", q.at \in Settled, q.reading = 0,
           Counted(q.handed), q.at = "saved" => Len(q.handed) = Chunks,
           \/ m.type = "error"
           \/ m.type = "done" /\ p.reading = 1 /\ Len(p.handed) = Chunks
    PROVE  Flows(q, Append(W, m), <<>>, b, clickedOn)
<1> DEFINE V == Append(W, m)
<1>1. Flows(q, W, <<>>, b, clickedOn) BY SettledFlows
<1>2. q.at \notin Early /\ q.at # "piping" BY DEF Settled, Early
<1>3. /\ V \in Seq(Message) /\ (W # <<>> => V[1] = W[1])
      /\ \A type : Says(V, type) <=> Says(W, type) \/ m.type = type
  BY SaysAppend
<1>4. Says(V, "chunk") <=> Says(W, "chunk") BY <1>3
<1>5. Says(W, "chunk") => W # <<>> BY SilentPort
<1>6. PortShaped(q, V)
  <2>1. \A i \in DOMAIN W : W[i].type = "chunk" /\ i = 1
    BY DEF Flows, PortShaped, Settled
  <2>2. /\ Len(V) = Len(W) + 1 /\ \A i \in 1 .. Len(W) : V[i] = W[i]
        /\ V[Len(W) + 1] = m /\ DOMAIN V = 1 .. Len(W) + 1 /\ DOMAIN W = 1 .. Len(W)
        /\ Len(W) \in Nat
    OBVIOUS
  <2>3. QED BY <2>1, <2>2 DEF PortShaped
<1> HIDE DEF V
<1>7. OneOnItsWay(q, V, <<>>, b) BY <1>1, <1>4 DEF Flows, OneOnItsWay
<1>8. NotYet(q, V, b, clickedOn)
  <2>1. b.at \in {"none", "refused"} => ~Says(V, "done")
    BY <1>1, <1>3 DEF Flows, NotYet, OneOnItsWay
  <2>2. QED BY <1>1, <1>2, <2>1 DEF Flows, NotYet
<1>9. Delivered(q, V, b)
  <2>1. Reached(V, b) = Reached(W, b) BY <1>4 DEF Reached
  <2>2. b.at = "open" /\ Says(V, "done") => Reached(W, b) = Chunks
    BY <1>1, <1>3 DEF Flows, Delivered
  <2>3. QED BY <1>1, <1>2, <1>3, <1>4, <1>5, <2>1, <2>2 DEF Flows, Delivered
<1>10. QED BY <1>1, <1>6, <1>7, <1>8, <1>9 DEF Flows, V

\* A pull leads to a read.
LEMMA ReadFlows ==
    ASSUME NEW p \in SaveState, NEW q \in SaveState, NEW W \in Seq(Message),
           NEW P \in Seq(PageMessage), NEW b \in BodyState, NEW clickedOn,
           Flows(p, W, P, b, clickedOn), p.at = "piping", q.at = "piping",
           P # <<>>, Head(P) = "pull", p.parts = <<>>,
           q.handed = p.handed, q.parts = p.parts, q.next = p.next, q.reading = p.reading + 1
    PROVE  Flows(q, W, Tail(P), b, clickedOn)
<1>1. PullIn(P) /\ ~PullIn(Tail(P)) /\ PullOnce(Tail(P))
  BY PullTaken DEF Flows, OneOnItsWay
<1>2. q.reading = 1 BY <1>1 DEF Flows, OneOnItsWay
<1>3. PortShaped(q, W) BY DEF Flows, PortShaped
<1>4. OneOnItsWay(q, W, Tail(P), b)
  BY <1>1, <1>2 DEF Flows, OneOnItsWay
<1>5. NotYet(q, W, b, clickedOn) BY DEF Flows, NotYet, Early
<1>6. InOrder(q) BY DEF Flows, InOrder, Early
<1>7. Delivered(q, W, b) BY DEF Flows, Delivered
<1>8. QED BY <1>3, <1>4, <1>5, <1>6, <1>7 DEF Flows

\* A chunk goes down the port: the bytes in hand on a pull, what was read otherwise.
LEMMA HandFlows ==
    ASSUME NEW p \in SaveState, NEW q \in SaveState, NEW W \in Seq(Message),
           NEW P \in Seq(PageMessage), NEW P2, NEW b \in BodyState, NEW clickedOn,
           NEW chunk \in 1 .. Chunks,
           Flows(p, W, P, b, clickedOn), p.at = "piping", q.at = "piping",
           \/ /\ P # <<>> /\ Head(P) = "pull" /\ P2 = Tail(P)
              /\ p.parts # <<>> /\ chunk = Head(p.parts)
              /\ q.parts = Tail(p.parts) /\ q.next = p.next /\ q.reading = p.reading
           \/ /\ p.reading > 0 /\ P2 = P /\ chunk = p.next
              /\ q.parts = p.parts /\ q.next = p.next + 1 /\ q.reading = p.reading - 1,
           q.handed = Append(p.handed, chunk)
    PROVE  Flows(q, Append(W, [type |-> "chunk", of |-> chunk]), P2, b, clickedOn)
<1> DEFINE m == [type |-> "chunk", of |-> chunk]
           V == Append(W, m)
<1>1. /\ ~Says(W, "chunk") /\ b.queued = 0 /\ q.reading = 0
      /\ ~PullIn(P2) /\ PullOnce(P2)
      /\ ~(b.at \in {"none", "refused"} \/ (b.at = "open" /\ b.pulling = FALSE))
      /\ p.reading > 0 => p.parts = <<>>
  <2>1. CASE P # <<>> /\ Head(P) = "pull" /\ P2 = Tail(P) /\ q.reading = p.reading
    <3>1. PullIn(P) /\ ~PullIn(Tail(P)) /\ PullOnce(Tail(P))
      BY <2>1, PullTaken DEF Flows, OneOnItsWay
    <3>2. QED BY <2>1, <3>1 DEF Flows, OneOnItsWay
  <2>2. CASE p.reading > 0 /\ P2 = P /\ q.reading = p.reading - 1
    <3>1. p.reading = 1 BY <2>2 DEF Flows, OneOnItsWay
    <3>2. QED BY <2>2, <3>1 DEF Flows, OneOnItsWay
  <2>3. QED BY <2>1, <2>2
<1>2. W = <<>>
  <2>1. p.at \notin Settled BY DEF Settled
  <2>2. ASSUME NEW i \in DOMAIN W PROVE FALSE
    <3>1. W[i].type = "chunk" BY <2>1 DEF Flows, PortShaped
    <3>2. QED BY <1>1, <3>1 DEF Says
  <2>3. DOMAIN W = {} BY <2>2
  <2>4. QED BY <2>3
<1>3. m \in Message /\ m.type = "chunk" /\ m.of = chunk BY DEF Message
<1> HIDE DEF m
<1>4. V = <<m>> /\ DOMAIN V = {1} /\ V[1] = m /\ Len(V) = 1 BY <1>2, <1>3
<1>5. \A type : Says(V, type) <=> type = "chunk"
  BY <1>3, <1>4 DEF Says
<1> HIDE DEF V
<1>6. chunk = Len(p.handed) + 1 /\ Len(p.handed) \in Nat
      /\ (q.parts = <<>> /\ q.next = chunk + 1)
  <2>1. p.handed \in Seq(1 .. Chunks) /\ p.parts \in Seq(1 .. Chunks) BY DEF SaveState
  <2>2. CASE p.parts = <<>> /\ p.next = Len(p.handed) + 1
    BY <1>1, <2>1, <2>2
  <2>3. CASE p.parts = << 1 >> /\ p.handed = <<>> /\ p.next = 2
    <3>1. Tail(p.parts) = <<>> /\ Head(p.parts) = 1 BY <2>3
    <3>2. QED BY <1>1, <2>3, <3>1
  <2>4. QED BY <2>2, <2>3 DEF Flows, InOrder
<1>7. /\ Len(q.handed) = Len(p.handed) + 1 /\ Counted(q.handed)
  <2>1. p.handed \in Seq(1 .. Chunks) BY DEF SaveState
  <2>2. Counted(p.handed) BY DEF Flows, InOrder
  <2>3. QED BY <1>6, <2>1, <2>2 DEF Counted
<1>8. PortShaped(q, V) BY <1>3, <1>4 DEF PortShaped
<1>9. OneOnItsWay(q, V, P2, b)
  BY <1>1, <1>5 DEF OneOnItsWay
<1>10. NotYet(q, V, b, clickedOn)
  BY <1>1, <1>5 DEF Flows, NotYet, Early, NoBody
<1>11. InOrder(q) BY <1>6, <1>7 DEF InOrder, Early
<1>12. Delivered(q, V, b)
  <2>1. b.at = "open" => Len(b.got) = Len(p.handed)
    BY <1>1 DEF Flows, Delivered, Reached, BodyState
  <2>2. Reached(V, b) = Len(b.got) + 1 BY <1>5 DEF Reached
  <2>3. QED BY <1>1, <1>3, <1>4, <1>5, <1>6, <1>7, <2>1, <2>2 DEF Flows, Delivered
<1>13. QED BY <1>8, <1>9, <1>10, <1>11, <1>12 DEF Flows, V, m

-----------------------------------------------------------------------------
(* The steps of the worker and of the browser, on one save                 *)

LEMMA ToldFlows ==
    ASSUME NEW p \in SaveState, NEW W, NEW P \in Seq(PageMessage), NEW b, NEW clickedOn,
           NEW m \in {"ready", "cancelled"}, Flows(p, W, P, b, clickedOn)
    PROVE  Flows(p, W, Append(P, m), b, clickedOn)
<1>1. PullIn(Append(P, m)) <=> PullIn(P) BY PullAppend DEF PageMessage
<1>2. PullOnce(Append(P, m))
  BY PullOnceAppend DEF PageMessage, Flows, OneOnItsWay
<1>3. QED BY <1>1, <1>2 DEF Flows, OneOnItsWay

\* The navigation opens a body, or finds none.
LEMMA FetchFlows ==
    ASSUME NEW p \in SaveState, NEW W, NEW P, NEW b, NEW c,
           Flows(p, W, P, b, TRUE), c \in BodyState, c.at \in {"open", "refused"},
           c.got = <<>>, c.queued = 0, c.pulling = FALSE
    PROVE  Flows(p, W, P, c, FALSE)
<1>1. /\ b = NoBody /\ b.at = "none" /\ ~Says(W, "done") /\ ~Says(W, "chunk")
      /\ ~PullIn(P) /\ p.reading = 0 /\ b.got = <<>> /\ p.at \notin Early
  BY DEF Flows, NotYet, OneOnItsWay, NoBody
<1>2. PortShaped(p, W) /\ InOrder(p) BY DEF Flows
<1>3. OneOnItsWay(p, W, P, c) BY <1>1 DEF Flows, OneOnItsWay
<1>4. NotYet(p, W, c, FALSE) BY <1>1 DEF NotYet
<1>5. Delivered(p, W, c)
  BY <1>1 DEF Flows, Delivered, Reached, Counted
<1>6. QED BY <1>2, <1>3, <1>4, <1>5 DEF Flows

\* The stream asks for a chunk.
LEMMA PullFlows ==
    ASSUME NEW p \in SaveState, NEW W, NEW P \in Seq(PageMessage), NEW P2, NEW b \in BodyState,
           NEW c \in BodyState, NEW clickedOn,
           Flows(p, W, P, b, clickedOn), b.at = "open", b.queued = 0, b.pulling = FALSE,
           c.at = "open", c.queued = 0, c.pulling = TRUE, c.got = b.got,
           P2 = IF p.at \in Settled THEN P ELSE Append(P, "pull")
    PROVE  Flows(p, W, P2, c, clickedOn)
<1>1. ~PullIn(P) /\ p.reading = 0 /\ ~Says(W, "chunk")
  BY DEF Flows, OneOnItsWay
<1>2. p.at \in Settled \/ p.at = "piping"
  <2>1. p.at \notin Early BY DEF Flows, NotYet, NoBody
  <2>2. QED BY <2>1 DEF SaveState, Settled, Early
<1>3. PullOnce(P2) /\ (p.at # "piping" => ~PullIn(P2))
  BY <1>1, <1>2, PullOnceAppend DEF PageMessage, Flows, OneOnItsWay
<1>4. OneOnItsWay(p, W, P2, c) BY <1>1, <1>3 DEF Flows, OneOnItsWay
<1>5. NotYet(p, W, c, clickedOn) BY DEF Flows, NotYet, NoBody
<1>6. Delivered(p, W, c) BY DEF Flows, Delivered, Reached
<1>7. QED BY <1>4, <1>5, <1>6 DEF Flows

\* A message of the page is taken off the port by a body that has ended.
LEMMA IgnoredFlows ==
    ASSUME NEW p \in SaveState, NEW W \in Seq(Message), NEW P, NEW b \in BodyState, NEW clickedOn,
           Flows(p, W, P, b, clickedOn), W # <<>>, b.at \in {"errored", "closed"}
    PROVE  Flows(p, Tail(W), P, b, clickedOn)
<1>1. \A type : Says(Tail(W), type) => Says(W, type) BY SaysTail
<1>2. PortShaped(p, Tail(W))
  BY DEF Flows, PortShaped
<1>3. QED BY <1>1, <1>2 DEF Flows, OneOnItsWay, NotYet, Delivered, NoBody

\* A chunk reaches the body.
LEMMA GotFlows ==
    ASSUME NEW p \in SaveState, NEW W \in Seq(Message), NEW P, NEW b \in BodyState,
           NEW c \in BodyState, NEW clickedOn,
           Flows(p, W, P, b, clickedOn), W # <<>>, Head(W).type = "chunk", b.at = "open",
           c.at = "open", c.queued = b.queued + 1, c.pulling = FALSE,
           c.got = Append(b.got, Head(W).of)
    PROVE  Flows(p, Tail(W), P, c, clickedOn)
<1>1. /\ \A type : Says(Tail(W), type) => Says(W, type)
      /\ Says(W, "done") => Says(Tail(W), "done")
      /\ Head(W) = W[1] /\ Says(W, "chunk")
  <2>1. Head(W) = W[1] /\ 1 \in DOMAIN W OBVIOUS
  <2>2. Says(W, "chunk") BY <2>1 DEF Says
  <2>3. QED BY <2>1, <2>2, SaysTail
<1>2. ~Says(Tail(W), "chunk")
  BY DEF Flows, PortShaped, Says
<1>3. PortShaped(p, Tail(W)) BY DEF Flows, PortShaped
<1>4. /\ ~PullIn(P) /\ p.reading = 0 /\ b.queued = 0
  BY <1>1 DEF Flows, OneOnItsWay
<1>5. OneOnItsWay(p, Tail(W), P, c)
  BY <1>2, <1>4 DEF Flows, OneOnItsWay
<1>6. NotYet(p, Tail(W), c, clickedOn)
  BY DEF Flows, NotYet, NoBody
<1>7. /\ b.got \in Seq(1 .. Chunks) /\ Head(W).of = Len(b.got) + 1 /\ Counted(b.got)
  BY <1>1 DEF Flows, Delivered, BodyState
<1>8. Len(c.got) = Len(b.got) + 1 /\ Counted(c.got)
  BY <1>7 DEF Counted
<1>9. Reached(Tail(W), c) = Reached(W, b)
  BY <1>1, <1>2, <1>7, <1>8 DEF Reached
<1>10. Delivered(p, Tail(W), c)
  BY <1>1, <1>2, <1>8, <1>9 DEF Flows, Delivered
<1>11. QED BY <1>3, <1>5, <1>6, <1>10 DEF Flows

\* The end reaches it.
LEMMA DoneFlows ==
    ASSUME NEW p \in SaveState, NEW W \in Seq(Message), NEW P, NEW b \in BodyState,
           NEW c \in BodyState, NEW clickedOn,
           Flows(p, W, P, b, clickedOn), W # <<>>, Head(W).type = "done", b.at = "open",
           c.at = "closed", c.queued = b.queued, c.got = b.got
    PROVE  Flows(p, Tail(W), P, c, clickedOn)
<1>1. /\ \A type : Says(Tail(W), type) => Says(W, type)
      /\ Head(W) = W[1] /\ Says(W, "done")
  <2>1. Head(W) = W[1] /\ 1 \in DOMAIN W OBVIOUS
  <2>2. Says(W, "done") BY <2>1 DEF Says
  <2>3. QED BY <2>1, <2>2, SaysTail
<1>2. ~Says(W, "chunk")
  BY <1>1 DEF Flows, PortShaped, Says
<1>3. PortShaped(p, Tail(W)) BY DEF Flows, PortShaped
<1>4. OneOnItsWay(p, Tail(W), P, c)
  BY <1>1, <1>2 DEF Flows, OneOnItsWay
<1>5. NotYet(p, Tail(W), c, clickedOn)
  BY DEF Flows, NotYet, NoBody
<1>6. Len(c.got) = Chunks
  BY <1>1, <1>2 DEF Flows, Delivered, Reached, BodyState
<1>7. Delivered(p, Tail(W), c)
  BY <1>6 DEF Flows, Delivered
<1>8. QED BY <1>3, <1>4, <1>5, <1>7 DEF Flows

\* A body that is thrown away, with what is left of its port.
LEMMA BrokenFlows ==
    ASSUME NEW p \in SaveState, NEW W \in Seq(Message), NEW V \in Seq(Message), NEW P,
           NEW b \in BodyState, NEW clickedOn, NEW at \in {"errored", "cancelled", "lost"},
           Flows(p, W, P, b, clickedOn), b.at = "open",
           V = <<>> \/ (W # <<>> /\ V = Tail(W))
    PROVE  Flows(p, V, P, Broken(at), clickedOn)
<1>1. \A type : Says(V, type) => Says(W, type) BY SaysTail, SilentPort
<1>2. PortShaped(p, V) BY DEF Flows, PortShaped
<1>3. /\ Broken(at).at = at /\ Broken(at).queued = 0 /\ Broken(at).got = <<>>
  BY DEF Broken, NoBody
<1>4. OneOnItsWay(p, V, P, Broken(at))
  BY <1>1, <1>3 DEF Flows, OneOnItsWay
<1>5. NotYet(p, V, Broken(at), clickedOn)
  BY <1>3 DEF Flows, NotYet, NoBody
<1>6. Delivered(p, V, Broken(at)) BY <1>3 DEF Delivered, Counted
<1>7. QED BY <1>2, <1>4, <1>5, <1>6 DEF Flows

\* The port of a token or a body that is gone with its realm, before it had one.
LEMMA SilencedFlows ==
    ASSUME NEW p \in SaveState, NEW W, NEW P, NEW b \in BodyState, NEW clickedOn,
           Flows(p, W, P, b, clickedOn), b.at # "open"
    PROVE  Flows(p, <<>>, P, b, clickedOn)
BY SilentPort DEF Flows, PortShaped, OneOnItsWay, NotYet, Delivered

\* The browser writes a chunk to disk.
LEMMA WrittenFlows ==
    ASSUME NEW p \in SaveState, NEW W, NEW P, NEW b \in BodyState, NEW c \in BodyState,
           NEW clickedOn, Flows(p, W, P, b, clickedOn), b.queued > 0,
           c.at = b.at, c.queued = b.queued - 1, c.pulling = b.pulling, c.got = b.got
    PROVE  Flows(p, W, P, c, clickedOn)
<1>1. b.queued = 1 /\ c.queued = 0 BY DEF Flows, OneOnItsWay
<1>2. b # NoBody /\ b.at \notin {"none", "refused"} BY <1>1 DEF Flows, NotYet, NoBody
<1>3. QED BY <1>1, <1>2 DEF Flows, OneOnItsWay, NotYet, Delivered, Reached, NoBody

-----------------------------------------------------------------------------
(* The steps                                                               *)

Sound == PortsTyped /\ RestTyped /\ FlowInv

\* Steps of the page on one save, and of the worker on one body.
LEMMA PageKeeps ==
    ASSUME Sound, NEW s \in Saves, NEW q \in SaveState, Become(s, q),
           NEW V \in Seq(Message), toWorker' = [toWorker EXCEPT ![s] = V],
           NEW Q \in Seq(PageMessage), toPage' = [toPage EXCEPT ![s] = Q],
           body' = body, \A t \in Saves \ {s} : t \in clicked' <=> t \in clicked,
           Flows(q, V, Q, body[s], s \in clicked')
    PROVE  PortsTyped' /\ FlowInv'
<1>1. PortsTyped' BY DEF Sound, PortsTyped, Become
<1>2. /\ save'[s] = q /\ toWorker'[s] = V /\ toPage'[s] = Q /\ body'[s] = body[s]
      /\ \A t \in Saves \ {s} : /\ save'[t] = save[t] /\ toWorker'[t] = toWorker[t]
                                /\ toPage'[t] = toPage[t] /\ body'[t] = body[t]
  BY DEF Sound, PortsTyped, Become
<1>3. ASSUME NEW t \in Saves \ {s}
      PROVE  Flows(save'[t], toWorker'[t], toPage'[t], body'[t], t \in clicked')
  <2>1. Flows(save[t], toWorker[t], toPage[t], body[t], t \in clicked)
    BY DEF Sound, FlowInv
  <2>2. CASE t \in clicked
    BY <1>2, <2>1, <2>2 DEF Flows, NotYet
  <2>3. CASE t \notin clicked
    BY <1>2, <2>1, <2>3 DEF Flows, NotYet
  <2>4. QED BY <2>2, <2>3
<1>4. Flows(save'[s], toWorker'[s], toPage'[s], body'[s], s \in clicked')
  BY <1>2
<1>5. QED BY <1>1, <1>3, <1>4 DEF FlowInv

LEMMA BodyKeeps ==
    ASSUME Sound, NEW s \in Saves, save' = save,
           NEW c \in BodyState, body' = [body EXCEPT ![s] = c],
           NEW V \in Seq(Message), toWorker' = [toWorker EXCEPT ![s] = V],
           NEW Q \in Seq(PageMessage), toPage' = [toPage EXCEPT ![s] = Q],
           \A t \in Saves \ {s} : t \in clicked' <=> t \in clicked,
           Flows(save[s], V, Q, c, s \in clicked')
    PROVE  PortsTyped' /\ FlowInv'
<1>1. PortsTyped' BY DEF Sound, PortsTyped
<1>2. /\ body'[s] = c /\ toWorker'[s] = V /\ toPage'[s] = Q /\ save'[s] = save[s]
      /\ \A t \in Saves \ {s} : /\ save'[t] = save[t] /\ toWorker'[t] = toWorker[t]
                                /\ toPage'[t] = toPage[t] /\ body'[t] = body[t]
  BY DEF Sound, PortsTyped
<1>3. ASSUME NEW t \in Saves \ {s}
      PROVE  Flows(save'[t], toWorker'[t], toPage'[t], body'[t], t \in clicked')
  <2>1. Flows(save[t], toWorker[t], toPage[t], body[t], t \in clicked)
    BY DEF Sound, FlowInv
  <2>2. CASE t \in clicked
    BY <1>2, <2>1, <2>2 DEF Flows, NotYet
  <2>3. CASE t \notin clicked
    BY <1>2, <2>1, <2>3 DEF Flows, NotYet
  <2>4. QED BY <2>2, <2>3
<1>4. Flows(save'[s], toWorker'[s], toPage'[s], body'[s], s \in clicked')
  BY <1>2
<1>5. QED BY <1>1, <1>3, <1>4 DEF FlowInv

\* What is known of a save and of its port.
LEMMA OfSave ==
    ASSUME Sound, NEW s \in Saves
    PROVE  /\ save[s] \in SaveState /\ body[s] \in BodyState
           /\ toWorker[s] \in Seq(Message) /\ toPage[s] \in Seq(PageMessage)
           /\ Flows(save[s], toWorker[s], toPage[s], body[s], s \in clicked)
           /\ toWorker = [toWorker EXCEPT ![s] = toWorker[s]]
           /\ toPage = [toPage EXCEPT ![s] = toPage[s]]
           /\ body = [body EXCEPT ![s] = body[s]]
BY DEF Sound, PortsTyped, FlowInv

LEMMA FinishFields ==
    ASSUME Sound, NEW s \in Saves, NEW at \in Settled
    PROVE  /\ Finish(s, at) \in SaveState
           /\ Finish(s, at).at = at /\ Finish(s, at).reading = 0
           /\ Finish(s, at).handed = IF at = "saved" THEN save[s].handed ELSE <<>>
           /\ Finish(s, at).to = save[s].to /\ Finish(s, at).again = save[s].again
           /\ Finish(s, at).seen = save[s].seen
<1>1. save[s] \in SaveState BY DEF Sound, PortsTyped
<1> DEFINE h == IF at = "saved" THEN save[s].handed ELSE <<>>
<1>2. h \in Seq(1 .. Chunks) /\ <<>> \in Seq(1 .. Chunks)
  <2>1. save[s].handed \in Seq(1 .. Chunks) BY <1>1 DEF SaveState
  <2>2. <<>> \in Seq(1 .. Chunks) OBVIOUS
  <2>3. CASE at = "saved" BY <2>1, <2>2, <2>3
  <2>4. CASE at # "saved" BY <2>2, <2>4
  <2>5. QED BY <2>3, <2>4
<1>3. Finish(s, at) = [save[s] EXCEPT !.at = at, !.deadline = "none", !.reading = 0,
                          !.parts = <<>>, !.next = 1, !.aborted = FALSE, !.handed = h]
  BY DEF Finish
<1> HIDE DEF h
<1>4. /\ Finish(s, at).at = at /\ Finish(s, at).reading = 0 /\ Finish(s, at).handed = h
      /\ Finish(s, at).to = save[s].to /\ Finish(s, at).again = save[s].again
      /\ Finish(s, at).seen = save[s].seen
  BY <1>1, <1>3 DEF SaveState
<1>5. Finish(s, at) \in SaveState
  <2>1. 1 \in 1 .. Chunks + 1 BY ChunksAssumption
  <2>2. Finish(s, at) = [at |-> at, to |-> save[s].to, again |-> save[s].again,
                         seen |-> save[s].seen, parts |-> <<>>, next |-> 1, reading |-> 0,
                         handed |-> h, deadline |-> "none", aborted |-> FALSE]
    BY <1>1, <1>3 DEF SaveState
  <2>3. /\ save[s].to \in 0 .. MaxDeaths /\ save[s].again \in BOOLEAN
        /\ save[s].seen \in 0 .. MaxDeaths
    BY <1>1 DEF SaveState
  <2>4. 0 \in 0 .. 2 OBVIOUS
  <2>5. QED BY <1>2, <2>1, <2>2, <2>3, <2>4 DEF SaveState
<1>6. QED BY <1>4, <1>5 DEF h

LEMMA FailureIsSettled == \A s : Failure(s) \in Settled \ {"saved"}
BY DEF Failure, Settled

\* A save that fails or is cancelled, with or without a word to the worker.
LEMMA Abandoned ==
    ASSUME Sound, NEW s \in Saves, NEW at \in Settled \ {"saved"},
           save[s].at = "piping", Become(s, Finish(s, at)), Close(s),
           Post(s, [type |-> "error"]) \/ UNCHANGED toWorker, UNCHANGED <<clicked, body>>
    PROVE  PortsTyped' /\ FlowInv'
<1> DEFINE q == Finish(s, at)
<1>1. /\ q \in SaveState /\ q.at = at /\ q.reading = 0 /\ q.handed = <<>>
  BY FinishFields
<1> HIDE DEF q
<1>2. Counted(q.handed) BY <1>1 DEF Counted
<1>3. Become(s, q) BY DEF q
<1>4. toPage' = [toPage EXCEPT ![s] = <<>>] /\ <<>> \in Seq(PageMessage)
  BY DEF Close
<1>5. CASE Post(s, [type |-> "error"])
  <2> DEFINE m == [type |-> "error"]
  <2>1. m \in Message /\ m.type = "error" BY DEF Message
  <2>2. toWorker' = [toWorker EXCEPT ![s] = Append(toWorker[s], m)]
    BY <1>5 DEF Post
  <2> HIDE DEF m
  <2>3. Append(toWorker[s], m) \in Seq(Message) BY <2>1, OfSave
  <2>4. Flows(q, Append(toWorker[s], m), <<>>, body[s], s \in clicked)
    BY <1>1, <1>2, <2>1, OfSave, EndedFlows
  <2>5. QED BY <1>1, <1>3, <1>4, <2>2, <2>3, <2>4, PageKeeps
<1>6. CASE UNCHANGED toWorker
  <2>1. Flows(q, toWorker[s], <<>>, body[s], s \in clicked)
    BY <1>1, <1>2, OfSave, SettledFlows
  <2>2. toWorker' = [toWorker EXCEPT ![s] = toWorker[s]] /\ toWorker[s] \in Seq(Message)
    BY <1>6, OfSave
  <2>3. QED BY <1>1, <1>3, <1>4, <2>1, <2>2, PageKeeps
<1>7. QED BY <1>5, <1>6

LEMMA EarlyKeeps ==
    ASSUME Sound, NEW s \in Saves, NEW q \in SaveState, save[s].at \in Early,
           q.at \in Early \cup {"failed"}, q.handed = save[s].handed,
           q.reading = save[s].reading,
           \/ q.parts = save[s].parts /\ q.next = save[s].next
           \/ q.parts = << 1 >> /\ q.next = 2,
           Become(s, q), UNCHANGED <<toWorker, body, clicked>>,
           UNCHANGED toPage \/ toPage' = [toPage EXCEPT ![s] = <<>>]
    PROVE  PortsTyped' /\ FlowInv'
<1>1. PICK Q \in {toPage[s], <<>>} : toPage' = [toPage EXCEPT ![s] = Q]
  BY OfSave
<1>2. Q \in Seq(PageMessage)
  <2>1. toPage[s] \in Seq(PageMessage) BY OfSave
  <2>2. <<>> \in Seq(PageMessage) OBVIOUS
  <2>3. QED BY <1>1, <2>1, <2>2
<1>3. Flows(q, toWorker[s], Q, body[s], s \in clicked)
  <2>1. save[s] \in SaveState /\ Flows(save[s], toWorker[s], toPage[s], body[s], s \in clicked)
    BY OfSave
  <2>2. QED BY <2>1, <1>1, EarlyFlows
<1>4. toWorker' = [toWorker EXCEPT ![s] = toWorker[s]] /\ toWorker[s] \in Seq(Message)
  BY OfSave
<1>5. QED BY <1>1, <1>2, <1>3, <1>4, PageKeeps

LEMMA OpenFromDialogKeeps ==
    ASSUME Sound, NEW s \in Saves, OpenFromDialog(s) \/ OpenAutonomi(s)
    PROVE  PortsTyped' /\ FlowInv'
<1>1. PICK at \in {"opening", "opened", "draining", "failed"} :
        Become(s, [save[s] EXCEPT !.at = at])
  BY DEF OpenFromDialog, OpenAutonomi
<1> DEFINE q == [save[s] EXCEPT !.at = at]
<1>2. save[s] \in SaveState BY OfSave
<1>3. q \in SaveState /\ q.at = at /\ q.handed = save[s].handed /\ q.parts = save[s].parts
      /\ q.next = save[s].next /\ q.reading = save[s].reading
  BY <1>2 DEF SaveState, Settled
<1>4. Become(s, q) BY <1>1
<1> HIDE DEF q
<1>5. save[s].at \in Early /\ q.at \in Early \cup {"failed"}
  BY <1>3 DEF OpenFromDialog, OpenAutonomi, Early
<1>6. UNCHANGED <<toWorker, toPage, body, clicked>>
  BY DEF OpenFromDialog, OpenAutonomi, realm
<1>7. QED BY <1>3, <1>4, <1>5, <1>6, EarlyKeeps

LEMMA OpenFromRowKeeps ==
    ASSUME Sound, NEW s \in Saves, OpenFromRow(s) PROVE PortsTyped' /\ FlowInv'
<1>1. PICK at \in {"opened", "draining"} :
        Become(s, [save[s] EXCEPT !.at = at, !.parts = << 1 >>, !.next = 2])
  BY DEF OpenFromRow
<1> DEFINE q == [save[s] EXCEPT !.at = at, !.parts = << 1 >>, !.next = 2]
<1>2. save[s] \in SaveState BY OfSave
<1>3. << 1 >> \in Seq(1 .. Chunks) /\ 2 \in 1 .. Chunks + 1 BY ChunksAssumption
<1>4. q \in SaveState /\ q.at = at /\ q.handed = save[s].handed /\ q.parts = << 1 >>
      /\ q.next = 2 /\ q.reading = save[s].reading
  BY <1>2, <1>3 DEF SaveState, Settled
<1>5. Become(s, q) BY <1>1
<1> HIDE DEF q
<1>6. save[s].at \in Early /\ q.at \in Early \cup {"failed"}
  BY <1>4 DEF OpenFromRow, Early
<1>7. UNCHANGED <<toWorker, toPage, body, clicked>> BY DEF OpenFromRow, realm
<1>8. QED BY <1>4, <1>5, <1>6, <1>7, EarlyKeeps

\* The fields a registration and a change of plan touch.
LEMMA RegisteredFields ==
    ASSUME Sound, NEW s \in Saves, NEW again \in BOOLEAN
    PROVE  LET q == [save[s] EXCEPT !.at = "confirming", !.to = controller, !.again = again]
               d == [save[s] EXCEPT !.at = "draining"]
           IN /\ q \in SaveState /\ q.at = "confirming" /\ q.handed = save[s].handed
              /\ q.parts = save[s].parts /\ q.next = save[s].next
              /\ q.reading = save[s].reading
              /\ q.to = controller /\ q.again = again /\ q.seen = save[s].seen
              /\ d \in SaveState /\ d.at = "draining" /\ d.handed = save[s].handed
              /\ d.parts = save[s].parts /\ d.next = save[s].next
              /\ d.reading = save[s].reading
              /\ d.to = save[s].to /\ d.again = save[s].again /\ d.seen = save[s].seen
<1>1. save[s] \in SaveState BY OfSave
<1>2. controller \in 0 .. MaxDeaths
  BY DeathsAssumption DEF Sound, RestTyped
<1>3. QED BY <1>1, <1>2 DEF SaveState

LEMMA RegisterOnKeeps ==
    ASSUME Sound, NEW s \in Saves, NEW again \in BOOLEAN, save[s].at \in Early,
           RegisterOn(s, controller, again), UNCHANGED <<toWorker, body, clicked>>,
           UNCHANGED toPage \/ toPage' = [toPage EXCEPT ![s] = <<>>]
    PROVE  PortsTyped' /\ FlowInv'
<1> DEFINE q == [save[s] EXCEPT !.at = "confirming", !.to = controller, !.again = again]
<1>1. Become(s, q) BY DEF RegisterOn
<1>2. q \in SaveState /\ q.at = "confirming" /\ q.handed = save[s].handed
      /\ q.parts = save[s].parts /\ q.next = save[s].next /\ q.reading = save[s].reading
  BY RegisteredFields
<1> HIDE DEF q
<1>3. q.at \in Early BY <1>2 DEF Early
<1>4. QED BY <1>1, <1>2, <1>3, EarlyKeeps

LEMMA DrainingKeeps ==
    ASSUME Sound, NEW s \in Saves, save[s].at \in Early,
           Become(s, [save[s] EXCEPT !.at = "draining"]), UNCHANGED <<toWorker, body, clicked>>,
           UNCHANGED toPage \/ toPage' = [toPage EXCEPT ![s] = <<>>]
    PROVE  PortsTyped' /\ FlowInv'
<1> DEFINE q == [save[s] EXCEPT !.at = "draining"]
<1>1. Become(s, q) OBVIOUS
<1>2. q \in SaveState /\ q.at = "draining" /\ q.handed = save[s].handed
      /\ q.parts = save[s].parts /\ q.next = save[s].next /\ q.reading = save[s].reading
  BY RegisteredFields
<1> HIDE DEF q
<1>3. q.at \in Early BY <1>2 DEF Early
<1>4. QED BY <1>1, <1>2, <1>3, EarlyKeeps

LEMMA StartSWDownloadKeeps ==
    ASSUME Sound, NEW s \in Saves, StartSWDownload(s) PROVE PortsTyped' /\ FlowInv'
<1>1. save[s].at \in Early /\ UNCHANGED <<toWorker, toPage, body, clicked>>
  BY DEF StartSWDownload, realm, Early
<1>2. CASE RegisterOn(s, controller, FALSE) BY <1>1, <1>2, RegisterOnKeeps
<1>3. CASE Become(s, [save[s] EXCEPT !.at = "draining"]) BY <1>1, <1>3, DrainingKeeps
<1>4. QED BY <1>2, <1>3 DEF StartSWDownload

LEMMA AskAgainKeeps ==
    ASSUME Sound, NEW s \in Saves, save[s].at = "confirming", AskAgain(s),
           UNCHANGED <<toWorker, body>>, toPage' = [toPage EXCEPT ![s] = <<>>]
    PROVE  PortsTyped' /\ FlowInv'
BY RegisterOnKeeps DEF AskAgain, Early

LEMMA ConfirmTimeoutKeeps ==
    ASSUME Sound, NEW s \in Saves, ConfirmTimeout(s) PROVE PortsTyped' /\ FlowInv'
<1>1. /\ save[s].at = "confirming" /\ save[s].at \in Early /\ UNCHANGED <<toWorker, body>>
      /\ toPage' = [toPage EXCEPT ![s] = <<>>]
  BY DEF ConfirmTimeout, realm, Early
<1>2. CASE AskAgain(s) BY <1>1, <1>2, AskAgainKeeps
<1>3. CASE Become(s, [save[s] EXCEPT !.at = "draining"]) /\ UNCHANGED clicked
  BY <1>1, <1>3, DrainingKeeps
<1>4. QED BY <1>2, <1>3 DEF ConfirmTimeout

LEMMA ClickedFields ==
    ASSUME Sound, NEW s \in Saves
    PROVE  LET q == [save[s] EXCEPT !.at = "piping", !.deadline = "first", !.seen = controller]
           IN /\ q \in SaveState /\ q.at = "piping" /\ q.handed = save[s].handed
              /\ q.parts = save[s].parts /\ q.next = save[s].next
              /\ q.reading = save[s].reading
              /\ q.to = save[s].to /\ q.again = save[s].again /\ q.seen = controller
<1>1. save[s] \in SaveState BY OfSave
<1>2. controller \in 0 .. MaxDeaths
  BY DeathsAssumption DEF Sound, RestTyped
<1>3. QED BY <1>1, <1>2 DEF SaveState

LEMMA HearReadyKeeps ==
    ASSUME Sound, NEW s \in Saves, HearReady(s) PROVE PortsTyped' /\ FlowInv'
<1>1. /\ save[s].at = "confirming" /\ save[s].at \in Early /\ UNCHANGED <<toWorker, body>>
      /\ toPage' = [toPage EXCEPT ![s] = <<>>]
  BY DEF HearReady, realm, Early
<1>2. CASE AskAgain(s) BY <1>1, <1>2, AskAgainKeeps
<1> DEFINE q == [save[s] EXCEPT !.at = "piping", !.deadline = "first", !.seen = controller]
<1>3. CASE Become(s, q) /\ clicked' = clicked \cup {s}
  <2>1. q \in SaveState /\ q.at = "piping" /\ q.handed = save[s].handed
        /\ q.parts = save[s].parts /\ q.next = save[s].next /\ q.reading = save[s].reading
    BY ClickedFields
  <2>2. Become(s, q) BY <1>3
  <2> HIDE DEF q
  <2>3. /\ save[s] \in SaveState
        /\ Flows(save[s], toWorker[s], toPage[s], body[s], s \in clicked)
        /\ toWorker[s] \in Seq(Message) /\ toWorker' = [toWorker EXCEPT ![s] = toWorker[s]]
    BY <1>1, OfSave
  <2>4. Flows(q, toWorker[s], <<>>, body[s], TRUE)
    BY <1>1, <2>1, <2>3, ClickFlows
  <2>5. (s \in clicked') = TRUE BY <1>3
  <2>6. Flows(q, toWorker[s], <<>>, body[s], s \in clicked') BY <2>4, <2>5
  <2>7. \A t \in Saves \ {s} : t \in clicked' <=> t \in clicked BY <1>3
  <2>8. <<>> \in Seq(PageMessage) OBVIOUS
  <2>9. QED BY <1>1, <2>1, <2>2, <2>3, <2>6, <2>7, <2>8, PageKeeps
<1>4. QED BY <1>2, <1>3 DEF HearReady

LEMMA HeadAndTail ==
    ASSUME NEW S, NEW q \in Seq(S), q # <<>>
    PROVE  Head(q) \in S /\ Tail(q) \in Seq(S)
BY HeadTailProperties

\* What the page hands over: the bytes in hand, or what it read.
Handed(s, chunk) ==
    [save[s] EXCEPT !.handed = Append(save[s].handed, chunk), !.deadline = "worker",
                    !.parts = IF save[s].parts # <<>> THEN Tail(save[s].parts) ELSE <<>>,
                    !.reading = IF save[s].parts # <<>> THEN save[s].reading
                                ELSE save[s].reading - 1,
                    !.next = IF save[s].parts # <<>> THEN save[s].next ELSE save[s].next + 1]

LEMMA HandedIs ==
    ASSUME Sound, NEW s \in Saves, NEW chunk, Hand(s, chunk)
    PROVE  /\ Become(s, Handed(s, chunk))
           /\ toWorker' = [toWorker EXCEPT ![s] =
                             Append(toWorker[s], [type |-> "chunk", of |-> chunk])]
<1>1. CASE save[s].parts # <<>>
  BY <1>1 DEF Hand, Post, Handed
<1>2. CASE save[s].parts = <<>>
  BY <1>2 DEF Hand, Post, Handed
<1>3. QED BY <1>1, <1>2

LEMMA HandedFields ==
    ASSUME Sound, NEW s \in Saves, NEW chunk \in 1 .. Chunks,
           \/ save[s].parts # <<>>
           \/ save[s].parts = <<>> /\ save[s].next <= Chunks /\ save[s].reading > 0
    PROVE  LET q == Handed(s, chunk) IN
             /\ q \in SaveState
             /\ q.at = save[s].at /\ q.handed = Append(save[s].handed, chunk)
             /\ q.to = save[s].to /\ q.again = save[s].again /\ q.seen = save[s].seen
             /\ save[s].parts # <<>> => /\ q.parts = Tail(save[s].parts)
                                        /\ q.next = save[s].next
                                        /\ q.reading = save[s].reading
             /\ save[s].parts = <<>> => /\ q.parts = save[s].parts
                                        /\ q.next = save[s].next + 1
                                        /\ q.reading = save[s].reading - 1
<1> DEFINE h == Append(save[s].handed, chunk)
           ps == IF save[s].parts # <<>> THEN Tail(save[s].parts) ELSE <<>>
           r == IF save[s].parts # <<>> THEN save[s].reading ELSE save[s].reading - 1
           n == IF save[s].parts # <<>> THEN save[s].next ELSE save[s].next + 1
<1>1. save[s] \in SaveState BY OfSave
<1>2. /\ save[s].handed \in Seq(1 .. Chunks) /\ save[s].parts \in Seq(1 .. Chunks)
      /\ save[s].reading \in 0 .. 2 /\ save[s].next \in 1 .. Chunks + 1
  BY <1>1 DEF SaveState
<1>3. h \in Seq(1 .. Chunks) BY <1>2
<1>4. ps \in Seq(1 .. Chunks)
  <2>1. <<>> \in Seq(1 .. Chunks) OBVIOUS
  <2>2. CASE save[s].parts # <<>>
    <3>1. Tail(save[s].parts) \in Seq(1 .. Chunks) BY <1>2, <2>2, HeadAndTail
    <3>2. QED BY <2>2, <3>1
  <2>3. CASE save[s].parts = <<>> BY <2>1, <2>3
  <2>4. QED BY <2>2, <2>3
<1>5. r \in 0 .. 2 BY <1>2
<1>6. n \in 1 .. Chunks + 1
  <2>1. CASE save[s].parts # <<>> BY <1>2, <2>1
  <2>2. CASE save[s].parts = <<>> /\ save[s].next <= Chunks
    BY <1>2, <2>2, ChunksAssumption
  <2>3. QED BY <2>1, <2>2
<1>7. Handed(s, chunk) = [save[s] EXCEPT !.handed = h, !.deadline = "worker", !.parts = ps,
                                         !.reading = r, !.next = n]
  BY DEF Handed
<1>8. /\ save[s].parts # <<>> => ps = Tail(save[s].parts) /\ n = save[s].next
                                 /\ r = save[s].reading
      /\ save[s].parts = <<>> => ps = save[s].parts /\ n = save[s].next + 1
                                 /\ r = save[s].reading - 1
  OBVIOUS
<1> HIDE DEF h, ps, r, n
<1> DEFINE q == Handed(s, chunk)
<1>9. /\ q.at = save[s].at /\ q.handed = h /\ q.parts = ps /\ q.reading = r /\ q.next = n
      /\ q.to = save[s].to /\ q.again = save[s].again /\ q.seen = save[s].seen
  BY <1>1, <1>7 DEF SaveState
<1>10. q \in SaveState
  BY <1>1, <1>3, <1>4, <1>5, <1>6, <1>7 DEF SaveState
<1> HIDE DEF q
<1>11. QED BY <1>8, <1>9, <1>10 DEF h, q

\* A chunk handed over, on a pull or after a read.
LEMMA HandKeeps ==
    ASSUME Sound, NEW s \in Saves, NEW chunk, save[s].at = "piping", Hand(s, chunk),
           UNCHANGED <<body, clicked>>,
           \/ /\ toPage[s] # <<>> /\ Head(toPage[s]) = "pull"
              /\ toPage' = [toPage EXCEPT ![s] = Tail(@)]
              /\ save[s].parts # <<>> /\ chunk = Head(save[s].parts)
           \/ /\ UNCHANGED toPage
              /\ save[s].reading > 0 /\ save[s].next <= Chunks /\ chunk = save[s].next
    PROVE  PortsTyped' /\ FlowInv'
<1> DEFINE q == Handed(s, chunk)
           m == [type |-> "chunk", of |-> chunk]
<1>1. /\ save[s] \in SaveState /\ body[s] \in BodyState
      /\ toWorker[s] \in Seq(Message) /\ toPage[s] \in Seq(PageMessage)
      /\ Flows(save[s], toWorker[s], toPage[s], body[s], s \in clicked)
      /\ toPage = [toPage EXCEPT ![s] = toPage[s]]
  BY OfSave
<1>2. /\ save[s].parts \in Seq(1 .. Chunks) /\ save[s].next \in 1 .. Chunks + 1
      /\ save[s].reading \in 0 .. 2
  BY <1>1 DEF SaveState
<1>3. save[s].reading > 0 => save[s].parts = <<>>
  BY <1>1, <1>2 DEF Flows, OneOnItsWay
<1>4. chunk \in 1 .. Chunks
  <2>1. CASE save[s].parts # <<>> /\ chunk = Head(save[s].parts)
    BY <1>2, <2>1, HeadAndTail
  <2>2. CASE save[s].next <= Chunks /\ chunk = save[s].next
    BY <1>2, <2>2, ChunksAssumption
  <2>3. QED BY <2>1, <2>2
<1>5. /\ Become(s, q) /\ toWorker' = [toWorker EXCEPT ![s] = Append(toWorker[s], m)]
  BY HandedIs
<1>6. m \in Message BY <1>4 DEF Message
<1>7. /\ q \in SaveState
      /\ q.at = save[s].at /\ q.handed = Append(save[s].handed, chunk)
      /\ save[s].parts # <<>> => /\ q.parts = Tail(save[s].parts)
                                 /\ q.next = save[s].next /\ q.reading = save[s].reading
      /\ save[s].parts = <<>> => /\ q.parts = save[s].parts
                                 /\ q.next = save[s].next + 1
                                 /\ q.reading = save[s].reading - 1
  BY <1>3, <1>4, HandedFields
<1>8. Append(toWorker[s], m) \in Seq(Message) BY <1>1, <1>6
<1> HIDE DEF q
<1>9. CASE /\ toPage[s] # <<>> /\ Head(toPage[s]) = "pull"
           /\ toPage' = [toPage EXCEPT ![s] = Tail(@)]
           /\ save[s].parts # <<>> /\ chunk = Head(save[s].parts)
  <2>1. Flows(q, Append(toWorker[s], m), Tail(toPage[s]), body[s], s \in clicked)
    BY <1>1, <1>4, <1>7, <1>9, HandFlows
  <2>2. Tail(toPage[s]) \in Seq(PageMessage) BY <1>1, <1>9
  <2> HIDE DEF m
  <2>3. QED BY <1>5, <1>7, <1>8, <1>9, <2>1, <2>2, PageKeeps
<1>10. CASE /\ UNCHANGED toPage
            /\ save[s].reading > 0 /\ save[s].next <= Chunks /\ chunk = save[s].next
  <2>1. Flows(q, Append(toWorker[s], m), toPage[s], body[s], s \in clicked)
    BY <1>1, <1>3, <1>4, <1>7, <1>10, HandFlows
  <2>2. toPage' = [toPage EXCEPT ![s] = toPage[s]] BY <1>1, <1>10
  <2> HIDE DEF m
  <2>3. QED BY <1>1, <1>5, <1>7, <1>8, <1>10, <2>1, <2>2, PageKeeps
<1>11. QED BY <1>9, <1>10

LEMMA ReadChunkKeeps ==
    ASSUME Sound, NEW s \in Saves, ReadChunk(s) PROVE PortsTyped' /\ FlowInv'
BY HandKeeps DEF ReadChunk, realm

LEMMA ReadingFields ==
    ASSUME Sound, NEW s \in Saves, save[s].reading \in {0, 1}
    PROVE  LET q == [save[s] EXCEPT !.reading = @ + 1, !.deadline = "network"]
           IN /\ q \in SaveState /\ q.at = save[s].at /\ q.handed = save[s].handed
              /\ q.parts = save[s].parts /\ q.next = save[s].next
              /\ q.reading = save[s].reading + 1
              /\ q.to = save[s].to /\ q.again = save[s].again /\ q.seen = save[s].seen
<1>1. save[s] \in SaveState BY OfSave
<1> DEFINE r == save[s].reading + 1
<1>2. r \in 0 .. 2 OBVIOUS
<1> HIDE DEF r
<1>3. [save[s] EXCEPT !.reading = @ + 1, !.deadline = "network"]
        = [save[s] EXCEPT !.reading = r, !.deadline = "network"]
  BY DEF r
<1> DEFINE q == [save[s] EXCEPT !.reading = r, !.deadline = "network"]
<1>4. /\ q \in SaveState /\ q.at = save[s].at /\ q.handed = save[s].handed
      /\ q.parts = save[s].parts /\ q.next = save[s].next /\ q.reading = r
      /\ q.to = save[s].to /\ q.again = save[s].again /\ q.seen = save[s].seen
  BY <1>1, <1>2 DEF SaveState
<1> HIDE DEF q
<1>5. QED BY <1>3, <1>4 DEF q, r

LEMMA HandlePullKeeps ==
    ASSUME Sound, NEW s \in Saves, HandlePull(s) PROVE PortsTyped' /\ FlowInv'
<1>1. /\ save[s].at = "piping" /\ UNCHANGED <<body, clicked>>
      /\ toPage[s] # <<>> /\ Head(toPage[s]) = "pull"
  BY DEF HandlePull, realm
<1>2. CASE Post(s, [type |-> "error"]) /\ Become(s, Finish(s, "cancelled")) /\ Close(s)
  <2>1. "cancelled" \in Settled \ {"saved"} BY DEF Settled
  <2>2. QED BY <1>1, <1>2, <2>1, Abandoned
<1>3. CASE /\ toPage' = [toPage EXCEPT ![s] = Tail(@)]
           /\ save[s].parts # <<>> /\ Hand(s, Head(save[s].parts))
  BY <1>1, <1>3, HandKeeps
<1> DEFINE q == [save[s] EXCEPT !.reading = @ + 1, !.deadline = "network"]
<1>4. CASE /\ toPage' = [toPage EXCEPT ![s] = Tail(@)]
           /\ save[s].parts = <<>> /\ Become(s, q) /\ UNCHANGED toWorker
  <2>1. /\ save[s] \in SaveState /\ body[s] \in BodyState
        /\ toWorker[s] \in Seq(Message) /\ toPage[s] \in Seq(PageMessage)
        /\ Flows(save[s], toWorker[s], toPage[s], body[s], s \in clicked)
        /\ toWorker' = [toWorker EXCEPT ![s] = toWorker[s]]
    BY <1>4, OfSave
  <2>2. save[s].reading \in {0, 1} BY <2>1 DEF Flows, OneOnItsWay
  <2>3. /\ q \in SaveState /\ q.at = save[s].at /\ q.handed = save[s].handed
        /\ q.parts = save[s].parts /\ q.next = save[s].next
        /\ q.reading = save[s].reading + 1
    BY <2>2, ReadingFields
  <2>4. Become(s, q) BY <1>4
  <2> HIDE DEF q
  <2>5. Flows(q, toWorker[s], Tail(toPage[s]), body[s], s \in clicked)
    BY <1>1, <1>4, <2>1, <2>3, ReadFlows
  <2>6. Tail(toPage[s]) \in Seq(PageMessage) BY <1>1, <2>1
  <2>7. QED BY <1>1, <1>4, <2>1, <2>3, <2>4, <2>5, <2>6, PageKeeps
<1>5. QED BY <1>2, <1>3, <1>4 DEF HandlePull

LEMMA ReadEndKeeps ==
    ASSUME Sound, NEW s \in Saves, ReadEnd(s) PROVE PortsTyped' /\ FlowInv'
<1>1. /\ save[s].at = "piping" /\ save[s].reading > 0 /\ UNCHANGED <<body, clicked>>
      /\ Close(s)
  BY DEF ReadEnd, realm
<1>2. CASE Post(s, [type |-> "error"]) /\ Become(s, Finish(s, "failed"))
  <2>1. "failed" \in Settled \ {"saved"} BY DEF Settled
  <2>2. QED BY <1>1, <1>2, <2>1, Abandoned
<1>3. CASE Whole(s) /\ Post(s, [type |-> "done"]) /\ Become(s, Finish(s, "saved"))
  <2> DEFINE q == Finish(s, "saved")
             m == [type |-> "done"]
  <2>1. /\ save[s] \in SaveState /\ body[s] \in BodyState
        /\ toWorker[s] \in Seq(Message)
        /\ Flows(save[s], toWorker[s], toPage[s], body[s], s \in clicked)
    BY OfSave
  <2>2. save[s].reading = 1
    <3>1. save[s].reading \in {0, 1} BY <2>1 DEF Flows, OneOnItsWay
    <3>2. QED BY <1>1, <3>1
  <2>3. "saved" \in Settled BY DEF Settled
  <2>4. /\ q \in SaveState /\ q.at = "saved" /\ q.reading = 0 /\ q.handed = save[s].handed
    BY <2>3, FinishFields
  <2>5. Len(save[s].handed) = Chunks BY <1>3 DEF Whole
  <2>6. Counted(save[s].handed) BY <2>1 DEF Flows, InOrder
  <2>7. m \in Message /\ m.type = "done" BY DEF Message
  <2>8. /\ Become(s, q) /\ toWorker' = [toWorker EXCEPT ![s] = Append(toWorker[s], m)]
        /\ toPage' = [toPage EXCEPT ![s] = <<>>] /\ <<>> \in Seq(PageMessage)
    BY <1>1, <1>3 DEF Post, Close
  <2> HIDE DEF q, m
  <2>9. Append(toWorker[s], m) \in Seq(Message) BY <2>1, <2>7
  <2>10. Flows(q, Append(toWorker[s], m), <<>>, body[s], s \in clicked)
    BY <1>1, <2>1, <2>2, <2>3, <2>4, <2>5, <2>6, <2>7, EndedFlows
  <2>11. QED BY <1>1, <2>4, <2>8, <2>9, <2>10, PageKeeps
<1>4. QED BY <1>2, <1>3 DEF ReadEnd

LEMMA GivenUpKeeps ==
    ASSUME Sound, NEW s \in Saves, ReadFails(s) \/ TimerFires(s) \/ HearCancelled(s)
    PROVE  PortsTyped' /\ FlowInv'
<1>1. /\ save[s].at = "piping" /\ UNCHANGED <<body, clicked>> /\ Close(s)
      /\ Post(s, [type |-> "error"]) \/ UNCHANGED toWorker
  BY DEF ReadFails, TimerFires, HearCancelled, realm
<1>2. PICK at \in Settled \ {"saved"} : Become(s, Finish(s, at))
  BY FailureIsSettled DEF ReadFails, TimerFires, HearCancelled, Settled
<1>3. QED BY <1>1, <1>2, Abandoned

LEMMA StoppedFields ==
    ASSUME Sound, NEW s \in Saves
    PROVE  LET q == [save[s] EXCEPT !.aborted = TRUE]
           IN /\ q \in SaveState /\ q.at = save[s].at /\ q.handed = save[s].handed
              /\ q.parts = save[s].parts /\ q.next = save[s].next
              /\ q.reading = save[s].reading
              /\ q.to = save[s].to /\ q.again = save[s].again /\ q.seen = save[s].seen
<1>1. save[s] \in SaveState BY OfSave
<1>2. QED BY <1>1 DEF SaveState

LEMMA StopKeeps ==
    ASSUME Sound, NEW s \in Saves, Stop(s) PROVE PortsTyped' /\ FlowInv'
<1> DEFINE q == [save[s] EXCEPT !.aborted = TRUE]
<1>1. Become(s, q) /\ UNCHANGED <<toWorker, toPage, body, clicked>> BY DEF Stop, realm
<1>2. /\ q \in SaveState /\ q.at = save[s].at /\ q.handed = save[s].handed
      /\ q.parts = save[s].parts /\ q.next = save[s].next /\ q.reading = save[s].reading
  BY StoppedFields
<1> HIDE DEF q
<1>3. /\ toWorker[s] \in Seq(Message) /\ toPage[s] \in Seq(PageMessage)
      /\ Flows(save[s], toWorker[s], toPage[s], body[s], s \in clicked)
      /\ toWorker' = [toWorker EXCEPT ![s] = toWorker[s]]
      /\ toPage' = [toPage EXCEPT ![s] = toPage[s]]
  BY <1>1, OfSave
<1>4. Flows(q, toWorker[s], toPage[s], body[s], s \in clicked)
  BY <1>2, <1>3 DEF Flows, PortShaped, OneOnItsWay, NotYet, InOrder, Delivered
<1>5. QED BY <1>1, <1>2, <1>3, <1>4, PageKeeps

\* The file through memory: what Drain leaves.
LEMMA DrainedFields ==
    ASSUME Sound, NEW s \in Saves, Drain(s)
    PROVE  \E q \in SaveState :
             /\ Become(s, q) /\ q.at \in Settled /\ q.reading = 0
             /\ Counted(q.handed) /\ (q.at = "saved" => Len(q.handed) = Chunks)
             /\ q.to = save[s].to /\ q.again = save[s].again /\ q.seen = save[s].seen
<1> DEFINE file == [i \in 1 .. Chunks |-> i]
<1>1. PICK q : /\ Become(s, q)
               /\ \/ q = [Finish(s, "saved") EXCEPT !.handed = file]
                  \/ q = Finish(s, Failure(s))
  <2>1. PICK end \in save[s].next - 1 .. Chunks :
          Become(s, IF ~save[s].aborted /\ end = Chunks
                    THEN [Finish(s, "saved") EXCEPT !.handed = [i \in 1 .. end |-> i]]
                    ELSE Finish(s, Failure(s)))
    BY DEF Drain
  <2>2. CASE ~save[s].aborted /\ end = Chunks BY <2>1, <2>2
  <2>3. CASE ~(~save[s].aborted /\ end = Chunks) BY <2>1, <2>3
  <2>4. QED BY <2>2, <2>3
<1>2. CASE q = Finish(s, Failure(s))
  <2>1. Failure(s) \in Settled /\ Failure(s) # "saved" BY FailureIsSettled
  <2>2. /\ q \in SaveState /\ q.at = Failure(s) /\ q.reading = 0 /\ q.handed = <<>>
        /\ q.to = save[s].to /\ q.again = save[s].again /\ q.seen = save[s].seen
    BY <1>2, <2>1, FinishFields
  <2>3. Counted(q.handed) BY <2>2 DEF Counted
  <2>4. QED BY <1>1, <2>1, <2>2, <2>3
<1>3. CASE q = [Finish(s, "saved") EXCEPT !.handed = file]
  <2> DEFINE f == Finish(s, "saved")
  <2>1. "saved" \in Settled BY DEF Settled
  <2>2. /\ f \in SaveState /\ f.at = "saved" /\ f.reading = 0
        /\ f.to = save[s].to /\ f.again = save[s].again /\ f.seen = save[s].seen
    BY <2>1, FinishFields
  <2> HIDE DEF f
  <2>3. Chunks \in Nat BY ChunksAssumption
  <2>4. file \in Seq(1 .. Chunks) /\ Len(file) = Chunks /\ Counted(file)
    BY <2>3 DEF Counted
  <2> HIDE DEF file
  <2>5. q = [f EXCEPT !.handed = file] BY <1>3 DEF f
  <2>6. /\ q \in SaveState /\ q.at = "saved" /\ q.reading = 0 /\ q.handed = file
        /\ q.to = f.to /\ q.again = f.again /\ q.seen = f.seen
    BY <2>2, <2>4, <2>5 DEF SaveState
  <2>7. QED BY <1>1, <2>1, <2>2, <2>4, <2>6
<1>4. QED BY <1>1, <1>2, <1>3

LEMMA DrainKeeps ==
    ASSUME Sound, NEW s \in Saves, Drain(s) PROVE PortsTyped' /\ FlowInv'
<1>1. PICK q \in SaveState :
        /\ Become(s, q) /\ q.at \in Settled /\ q.reading = 0
        /\ Counted(q.handed) /\ (q.at = "saved" => Len(q.handed) = Chunks)
  BY DrainedFields
<1>2. UNCHANGED <<toWorker, toPage, body, clicked>> BY DEF Drain, realm
<1>3. /\ save[s] \in SaveState /\ toWorker[s] \in Seq(Message)
      /\ toPage[s] \in Seq(PageMessage)
      /\ Flows(save[s], toWorker[s], toPage[s], body[s], s \in clicked)
      /\ toWorker' = [toWorker EXCEPT ![s] = toWorker[s]]
      /\ toPage' = [toPage EXCEPT ![s] = toPage[s]]
  BY <1>2, OfSave
<1>4. Flows(q, toWorker[s], <<>>, body[s], s \in clicked)
  BY <1>1, <1>3, SettledFlows
<1>5. q.at # "piping" /\ save[s].at = "draining" /\ q.at \notin Early
  BY <1>1 DEF Drain, Settled, Early
<1>6. PullOnce(toPage[s]) /\ ~PullIn(toPage[s])
  BY <1>3, <1>5 DEF Flows, OneOnItsWay
<1>7. Flows(q, toWorker[s], toPage[s], body[s], s \in clicked)
  BY <1>4, <1>6 DEF Flows, OneOnItsWay
<1>8. QED BY <1>1, <1>2, <1>3, <1>7, PageKeeps

LEMMA ControllerChangeKeeps ==
    ASSUME Sound, ControllerChange PROVE PortsTyped' /\ FlowInv'
<1>1. UNCHANGED <<toWorker, body, clicked>> BY DEF ControllerChange, realm
<1>2. ASSUME NEW s \in Saves
      PROVE  /\ save'[s] \in SaveState /\ toPage'[s] \in Seq(PageMessage)
             /\ Flows(save'[s], toWorker[s], toPage'[s], body[s], s \in clicked)
  <2>1. /\ save[s] \in SaveState /\ toPage[s] \in Seq(PageMessage)
        /\ Flows(save[s], toWorker[s], toPage[s], body[s], s \in clicked)
    BY OfSave
  <2>2. CASE save[s].at = "piping"
    <3> DEFINE q == Finish(s, Failure(s))
    <3>1. Failure(s) \in Settled /\ Failure(s) # "saved" BY FailureIsSettled
    <3>2. /\ q \in SaveState /\ q.at = Failure(s) /\ q.reading = 0 /\ q.handed = <<>>
      BY <3>1, FinishFields
    <3>3. save'[s] = q /\ toPage'[s] = <<>> BY <2>2 DEF ControllerChange
    <3> HIDE DEF q
    <3>4. Counted(q.handed) BY <3>2 DEF Counted
    <3>5. Flows(q, toWorker[s], <<>>, body[s], s \in clicked)
      BY <2>1, <3>1, <3>2, <3>4, SettledFlows
    <3>6. QED BY <3>2, <3>3, <3>5
  <2>3. CASE save[s].at # "piping"
    <3>1. save'[s] = save[s] /\ toPage'[s] = toPage[s] BY <2>3 DEF ControllerChange
    <3>2. QED BY <2>1, <3>1
  <2>4. QED BY <2>2, <2>3
<1>3. PortsTyped'
  <2>1. /\ save' = [s \in Saves |-> IF save[s].at = "piping" THEN Finish(s, Failure(s))
                                    ELSE save[s]]
        /\ toPage' = [s \in Saves |-> IF save[s].at = "piping" THEN <<>> ELSE toPage[s]]
    BY DEF ControllerChange
  <2>2. save' \in [Saves -> SaveState] BY <1>2, <2>1
  <2>3. toPage' \in [Saves -> Seq(PageMessage)] BY <1>2, <2>1
  <2>4. QED BY <1>1, <2>2, <2>3 DEF PortsTyped, Sound
<1>4. FlowInv' BY <1>1, <1>2 DEF FlowInv
<1>5. QED BY <1>3, <1>4

LEMMA RegisterTokenKeeps ==
    ASSUME Sound, NEW m \in posted, RegisterToken(m) PROVE PortsTyped' /\ FlowInv'
<1> DEFINE s == m.save
<1>1. s \in Saves BY DEF Sound, RestTyped
<1>2. save' = save /\ UNCHANGED <<toWorker, body, clicked>> BY DEF RegisterToken, page
<1>3. toPage' = toPage \/ toPage' = [toPage EXCEPT ![s] = Append(@, "ready")]
  BY DEF RegisterToken
<1> HIDE DEF s
<1>4. /\ save[s] \in SaveState /\ body[s] \in BodyState
      /\ toWorker[s] \in Seq(Message) /\ toPage[s] \in Seq(PageMessage)
      /\ Flows(save[s], toWorker[s], toPage[s], body[s], s \in clicked)
      /\ toWorker' = [toWorker EXCEPT ![s] = toWorker[s]]
      /\ body' = [body EXCEPT ![s] = body[s]]
      /\ toPage = [toPage EXCEPT ![s] = toPage[s]]
  BY <1>1, <1>2, OfSave
<1>5. CASE toPage' = toPage
  <2>1. toPage' = [toPage EXCEPT ![s] = toPage[s]] BY <1>4, <1>5
  <2>2. QED BY <1>1, <1>2, <1>4, <2>1, BodyKeeps
<1>6. CASE toPage' = [toPage EXCEPT ![s] = Append(@, "ready")]
  <2>1. "ready" \in PageMessage /\ "ready" \in {"ready", "cancelled"} BY DEF PageMessage
  <2>2. Append(toPage[s], "ready") \in Seq(PageMessage) BY <1>4, <2>1, PullAppend
  <2>3. Flows(save[s], toWorker[s], Append(toPage[s], "ready"), body[s], s \in clicked)
    BY <1>4, <2>1, ToldFlows
  <2>4. QED BY <1>1, <1>2, <1>4, <1>6, <2>2, <2>3, BodyKeeps
<1>7. QED BY <1>3, <1>5, <1>6

\* What a navigation finds: nothing was there before it.
LEMMA FetchedFields ==
    ASSUME Sound, NEW s \in clicked, Fetch(s)
    PROVE  /\ s \in Saves
           /\ \E c \in BodyState :
                /\ body' = [body EXCEPT ![s] = c] /\ c.at \in {"open", "refused"}
                /\ c.at = "refused" => s \notin downloads
                /\ c.got = <<>> /\ c.queued = 0 /\ c.pulling = FALSE
<1>1. s \in Saves BY DEF Sound, RestTyped
<1>2. body[s] = NoBody
  <2>1. Flows(save[s], toWorker[s], toPage[s], body[s], s \in clicked) BY <1>1, OfSave
  <2>2. QED BY <2>1 DEF Flows, NotYet
<1>3. PICK at \in {"open", "refused"} : /\ body' = [body EXCEPT ![s].at = at]
                                        /\ at = "refused" => s \notin downloads
  BY DEF Fetch
<1> DEFINE c == [body[s] EXCEPT !.at = at]
<1>4. body[s] \in BodyState BY <1>1, OfSave
<1>5. /\ body[s].pulling = FALSE /\ body[s].queued = 0 /\ body[s].got = <<>>
  BY <1>2 DEF NoBody
<1>6. /\ c \in BodyState /\ c.at = at /\ c.pulling = body[s].pulling
      /\ c.queued = body[s].queued /\ c.got = body[s].got
  BY <1>4 DEF BodyState
<1>7. body' = [body EXCEPT ![s] = c] BY <1>3
<1> HIDE DEF c
<1>8. QED BY <1>1, <1>3, <1>5, <1>6, <1>7

LEMMA FetchKeeps ==
    ASSUME Sound, NEW s, Fetch(s) PROVE PortsTyped' /\ FlowInv'
<1>1. s \in clicked /\ clicked' = clicked \ {s} /\ save' = save
      /\ UNCHANGED <<toWorker, toPage>>
  BY DEF Fetch, page
<1>2. s \in Saves BY <1>1, FetchedFields
<1>3. PICK c \in BodyState :
        /\ body' = [body EXCEPT ![s] = c] /\ c.at \in {"open", "refused"}
        /\ c.got = <<>> /\ c.queued = 0 /\ c.pulling = FALSE
  BY <1>1, FetchedFields
<1>4. /\ save[s] \in SaveState
      /\ toWorker[s] \in Seq(Message) /\ toPage[s] \in Seq(PageMessage)
      /\ Flows(save[s], toWorker[s], toPage[s], body[s], s \in clicked)
      /\ toWorker' = [toWorker EXCEPT ![s] = toWorker[s]]
      /\ toPage' = [toPage EXCEPT ![s] = toPage[s]]
  BY <1>1, <1>2, OfSave
<1>5. (s \in clicked) = TRUE /\ (s \in clicked') = FALSE BY <1>1
<1>6. Flows(save[s], toWorker[s], toPage[s], body[s], TRUE) BY <1>4, <1>5
<1>7. Flows(save[s], toWorker[s], toPage[s], c, FALSE) BY <1>3, <1>4, <1>6, FetchFlows
<1>8. Flows(save[s], toWorker[s], toPage[s], c, s \in clicked') BY <1>5, <1>7
<1>9. \A t \in Saves \ {s} : t \in clicked' <=> t \in clicked BY <1>1
<1>10. QED BY <1>1, <1>2, <1>3, <1>4, <1>8, <1>9, BodyKeeps

LEMMA PullKeeps ==
    ASSUME Sound, NEW s \in Saves, Pull(s) PROVE PortsTyped' /\ FlowInv'
<1> DEFINE c == [body[s] EXCEPT !.pulling = TRUE]
           Q == IF save[s].at \in Settled THEN toPage[s] ELSE Append(toPage[s], "pull")
<1>1. /\ save[s] \in SaveState /\ body[s] \in BodyState
      /\ toWorker[s] \in Seq(Message) /\ toPage[s] \in Seq(PageMessage)
      /\ Flows(save[s], toWorker[s], toPage[s], body[s], s \in clicked)
      /\ toWorker = [toWorker EXCEPT ![s] = toWorker[s]]
      /\ toPage = [toPage EXCEPT ![s] = toPage[s]]
  BY OfSave
<1>2. /\ save' = save /\ UNCHANGED <<toWorker, clicked>>
      /\ body[s].at = "open" /\ body[s].queued = 0 /\ ~body[s].pulling
      /\ body' = [body EXCEPT ![s] = c]
  BY DEF Pull, page
<1>3. toPage' = [toPage EXCEPT ![s] = Q]
  <2>1. CASE save[s].at \in Settled BY <1>1, <2>1 DEF Pull, Tell
  <2>2. CASE save[s].at \notin Settled BY <2>2 DEF Pull, Tell
  <2>3. QED BY <2>1, <2>2
<1>4. /\ c \in BodyState /\ c.at = "open" /\ c.queued = 0 /\ c.pulling = TRUE
      /\ c.got = body[s].got
  BY <1>1, <1>2 DEF BodyState
<1>5. body[s].pulling = FALSE
  <2>1. body[s].pulling \in BOOLEAN BY <1>1 DEF BodyState
  <2>2. QED BY <1>2, <2>1
<1>6. Q \in Seq(PageMessage)
  <2>1. Append(toPage[s], "pull") \in Seq(PageMessage)
    BY <1>1, PullAppend DEF PageMessage
  <2>2. QED BY <1>1, <2>1
<1> HIDE DEF c
<1>7. Flows(save[s], toWorker[s], Q, c, s \in clicked)
  BY <1>1, <1>2, <1>4, <1>5, PullFlows
<1> HIDE DEF Q
<1>8. QED BY <1>1, <1>2, <1>3, <1>4, <1>6, <1>7, BodyKeeps

\* What a message does to a body.
LEMMA WorkerTakesKeeps ==
    ASSUME Sound, NEW s \in Saves, WorkerTakes(s) PROVE PortsTyped' /\ FlowInv'
<1> DEFINE W == toWorker[s]
           msg == Head(W)
           b == body[s]
<1>1. /\ save[s] \in SaveState /\ b \in BodyState
      /\ W \in Seq(Message) /\ toPage[s] \in Seq(PageMessage)
      /\ Flows(save[s], W, toPage[s], b, s \in clicked)
      /\ toPage = [toPage EXCEPT ![s] = toPage[s]] /\ body = [body EXCEPT ![s] = b]
  BY OfSave
<1>2. /\ save' = save /\ UNCHANGED <<toPage, clicked>> /\ W # <<>>
      /\ toWorker' = [toWorker EXCEPT ![s] = Tail(W)]
      /\ b.at \in {"open", "errored", "closed"}
  BY DEF WorkerTakes, page
<1>3. msg \in Message /\ Tail(W) \in Seq(Message) BY <1>1, <1>2, HeadAndTail
<1>4. /\ b.at # "open" => body' = [body EXCEPT ![s] = b]
      /\ b.at = "open" /\ msg.type = "done" =>
           body' = [body EXCEPT ![s] = [b EXCEPT !.at = "closed", !.pulling = FALSE]]
      /\ b.at = "open" /\ msg.type = "error" =>
           body' = [body EXCEPT ![s] = Broken("errored")]
      /\ b.at = "open" /\ msg.type = "chunk" =>
           body' = [body EXCEPT ![s] = [b EXCEPT !.queued = b.queued + 1, !.pulling = FALSE,
                                                 !.got = Append(b.got, msg.of)]]
  <2>1. body' = [body EXCEPT ![s] = Taken(b, msg)] BY DEF WorkerTakes
  <2>2. b.at # "open" => Taken(b, msg) = b BY DEF Taken
  <2>3. b.at = "open" /\ msg.type = "done" =>
          Taken(b, msg) = [b EXCEPT !.at = "closed", !.pulling = FALSE]
    BY DEF Taken
  <2>4. b.at = "open" /\ msg.type = "error" => Taken(b, msg) = Broken("errored")
    BY DEF Taken
  <2>5. b.at = "open" /\ msg.type = "chunk" =>
          Taken(b, msg) = [b EXCEPT !.queued = b.queued + 1, !.pulling = FALSE,
                                    !.got = Append(b.got, msg.of)]
    BY DEF Taken
  <2> HIDE DEF W, msg, b
  <2>6. QED BY <2>1, <2>2, <2>3, <2>4, <2>5
<1>5. msg.type \in {"chunk", "done", "error"}
      /\ (msg.type = "chunk" => msg.of \in 1 .. Chunks)
  BY <1>3 DEF Message
<1>6. b.queued \in Nat /\ b.got \in Seq(1 .. Chunks) BY <1>1 DEF BodyState
<1> HIDE DEF W, msg, b
<1>7. ASSUME NEW c \in BodyState, body' = [body EXCEPT ![s] = c],
             Flows(save[s], Tail(W), toPage[s], c, s \in clicked)
      PROVE  PortsTyped' /\ FlowInv'
  BY <1>1, <1>2, <1>3, <1>7, BodyKeeps
<1>8. CASE b.at # "open"
  <2>1. Flows(save[s], Tail(W), toPage[s], b, s \in clicked)
    BY <1>1, <1>2, <1>8, IgnoredFlows
  <2>2. QED BY <1>1, <1>4, <1>7, <1>8, <2>1
<1>9. CASE b.at = "open" /\ msg.type = "done"
  <2> DEFINE c == [b EXCEPT !.at = "closed", !.pulling = FALSE]
  <2>1. c \in BodyState /\ c.at = "closed" /\ c.queued = b.queued /\ c.got = b.got
    BY <1>1 DEF BodyState
  <2>2. body' = [body EXCEPT ![s] = c] BY <1>4, <1>9
  <2> HIDE DEF c
  <2>3. Head(W).type = "done" BY <1>9 DEF msg
  <2>4. Flows(save[s], Tail(W), toPage[s], c, s \in clicked)
    BY <1>1, <1>2, <1>9, <2>1, <2>3, DoneFlows
  <2>5. QED BY <1>7, <2>1, <2>2, <2>4
<1>10. CASE b.at = "open" /\ msg.type = "error"
  <2> DEFINE c == Broken("errored")
  <2>1. <<>> \in Seq(1 .. Chunks) OBVIOUS
  <2>2. c \in BodyState BY <2>1 DEF Broken, NoBody, BodyState
  <2>3. body' = [body EXCEPT ![s] = c] BY <1>4, <1>10
  <2>4. Flows(save[s], Tail(W), toPage[s], c, s \in clicked)
    BY <1>1, <1>2, <1>3, <1>10, BrokenFlows
  <2> HIDE DEF c
  <2>5. QED BY <1>7, <2>2, <2>3, <2>4
<1>11. CASE b.at = "open" /\ msg.type = "chunk"
  <2> DEFINE n == b.queued + 1
             g == Append(b.got, msg.of)
             c == [b EXCEPT !.queued = n, !.pulling = FALSE, !.got = g]
  <2>1. n \in Nat /\ g \in Seq(1 .. Chunks) BY <1>5, <1>6, <1>11
  <2>2. body' = [body EXCEPT ![s] = c] BY <1>4, <1>11
  <2> HIDE DEF n, g
  <2>3. c \in BodyState /\ c.at = "open" /\ c.queued = n /\ c.pulling = FALSE /\ c.got = g
    BY <1>1, <1>11, <2>1 DEF BodyState
  <2> HIDE DEF c
  <2>4. /\ c.queued = b.queued + 1 /\ c.got = Append(b.got, Head(W).of)
        /\ Head(W).type = "chunk"
    BY <1>11, <2>3 DEF n, g, msg
  <2>5. Flows(save[s], Tail(W), toPage[s], c, s \in clicked)
    BY <1>1, <1>2, <1>11, <2>3, <2>4, GotFlows
  <2>6. QED BY <1>7, <2>2, <2>3, <2>5
<1>12. QED BY <1>5, <1>8, <1>9, <1>10, <1>11

LEMMA WriteOutKeeps ==
    ASSUME Sound, NEW s \in Saves, WriteOut(s) PROVE PortsTyped' /\ FlowInv'
<1> DEFINE n == body[s].queued - 1
           c == [body[s] EXCEPT !.queued = n]
<1>1. /\ save[s] \in SaveState /\ body[s] \in BodyState
      /\ toWorker[s] \in Seq(Message) /\ toPage[s] \in Seq(PageMessage)
      /\ Flows(save[s], toWorker[s], toPage[s], body[s], s \in clicked)
      /\ toWorker = [toWorker EXCEPT ![s] = toWorker[s]]
      /\ toPage = [toPage EXCEPT ![s] = toPage[s]]
  BY OfSave
<1>2. /\ save' = save /\ UNCHANGED <<toWorker, toPage, clicked>> /\ body[s].queued > 0
      /\ body' = [body EXCEPT ![s] = c]
  BY DEF WriteOut, page
<1>3. n \in Nat
  <2>1. body[s].queued \in Nat BY <1>1 DEF BodyState
  <2>2. QED BY <1>2, <2>1
<1> HIDE DEF n
<1>4. /\ c \in BodyState /\ c.at = body[s].at /\ c.queued = n
      /\ c.pulling = body[s].pulling /\ c.got = body[s].got
  BY <1>1, <1>3 DEF BodyState
<1> HIDE DEF c
<1>5. c.queued = body[s].queued - 1 BY <1>4 DEF n
<1>6. Flows(save[s], toWorker[s], toPage[s], c, s \in clicked)
  BY <1>1, <1>2, <1>4, <1>5, WrittenFlows
<1>7. QED BY <1>1, <1>2, <1>4, <1>6, BodyKeeps

LEMMA BrokenTyped ==
    ASSUME NEW at \in {"errored", "cancelled", "lost"} PROVE Broken(at) \in BodyState
<1>1. <<>> \in Seq(1 .. Chunks) OBVIOUS
<1>2. QED BY <1>1 DEF Broken, NoBody, BodyState

LEMMA UserCancelsKeeps ==
    ASSUME Sound, NEW s \in Saves, UserCancels(s) PROVE PortsTyped' /\ FlowInv'
<1> DEFINE c == Broken("cancelled")
           Q == IF save[s].at \in Settled THEN toPage[s] ELSE Append(toPage[s], "cancelled")
<1>1. /\ save[s] \in SaveState /\ body[s] \in BodyState
      /\ toWorker[s] \in Seq(Message) /\ toPage[s] \in Seq(PageMessage)
      /\ Flows(save[s], toWorker[s], toPage[s], body[s], s \in clicked)
      /\ toPage = [toPage EXCEPT ![s] = toPage[s]]
  BY OfSave
<1>2. /\ save' = save /\ UNCHANGED clicked /\ body[s].at = "open"
      /\ toWorker' = [toWorker EXCEPT ![s] = <<>>] /\ <<>> \in Seq(Message)
      /\ body' = [body EXCEPT ![s] = c]
  BY DEF UserCancels, page
<1>3. toPage' = [toPage EXCEPT ![s] = Q]
  <2>1. CASE save[s].at \in Settled BY <1>1, <2>1 DEF UserCancels, Tell
  <2>2. CASE save[s].at \notin Settled BY <2>2 DEF UserCancels, Tell
  <2>3. QED BY <2>1, <2>2
<1>4. c \in BodyState BY BrokenTyped
<1>5. Flows(save[s], <<>>, toPage[s], c, s \in clicked)
  BY <1>1, <1>2, BrokenFlows
<1> HIDE DEF c
<1>6. "cancelled" \in PageMessage BY DEF PageMessage
<1>7. Q \in Seq(PageMessage) /\ Flows(save[s], <<>>, Q, c, s \in clicked)
  <2>1. CASE save[s].at \in Settled BY <1>1, <1>5, <2>1
  <2>2. CASE save[s].at \notin Settled
    <3>1. Q = Append(toPage[s], "cancelled") BY <2>2
    <3> HIDE DEF Q
    <3>2. Append(toPage[s], "cancelled") \in Seq(PageMessage) BY <1>1, <1>6, PullAppend
    <3>3. Flows(save[s], <<>>, Append(toPage[s], "cancelled"), c, s \in clicked)
      BY <1>1, <1>5, ToldFlows
    <3>4. QED BY <3>1, <3>2, <3>3
  <2>3. QED BY <2>1, <2>2
<1> HIDE DEF Q
<1>8. QED BY <1>1, <1>2, <1>3, <1>4, <1>7, BodyKeeps

LEMMA RealmDiesKeeps ==
    ASSUME Sound, RealmDies PROVE PortsTyped' /\ FlowInv'
<1>1. UNCHANGED <<save, toPage, clicked>> BY DEF RealmDies, page
<1>2. ASSUME NEW s \in Saves
      PROVE  /\ body'[s] \in BodyState /\ toWorker'[s] \in Seq(Message)
             /\ Flows(save[s], toWorker'[s], toPage[s], body'[s], s \in clicked)
  <2>1. /\ save[s] \in SaveState /\ body[s] \in BodyState /\ toWorker[s] \in Seq(Message)
        /\ Flows(save[s], toWorker[s], toPage[s], body[s], s \in clicked)
    BY OfSave
  <2>2. <<>> \in Seq(Message) OBVIOUS
  <2>3. CASE body[s].at = "open"
    <3>1. body'[s] = Broken("lost") /\ toWorker'[s] = <<>> BY <2>3 DEF RealmDies
    <3>2. Broken("lost") \in BodyState BY BrokenTyped
    <3>3. Flows(save[s], <<>>, toPage[s], Broken("lost"), s \in clicked)
      BY <2>1, <2>2, <2>3, BrokenFlows
    <3>4. QED BY <2>2, <3>1, <3>2, <3>3
  <2>4. CASE body[s].at # "open" /\ s \in downloads
    <3>1. body'[s] = body[s] /\ toWorker'[s] = <<>> BY <2>4 DEF RealmDies
    <3>2. Flows(save[s], <<>>, toPage[s], body[s], s \in clicked)
      BY <2>1, <2>4, SilencedFlows
    <3>3. QED BY <2>1, <2>2, <3>1, <3>2
  <2>5. CASE body[s].at # "open" /\ s \notin downloads
    <3>1. body'[s] = body[s] /\ toWorker'[s] = toWorker[s] BY <2>5 DEF RealmDies
    <3>2. QED BY <2>1, <3>1
  <2>6. QED BY <2>3, <2>4, <2>5
<1>3. PortsTyped'
  <2>1. /\ body' = [s \in Saves |-> IF body[s].at = "open" THEN Broken("lost") ELSE body[s]]
        /\ toWorker' = [s \in Saves |-> IF s \in downloads \/ body[s].at = "open" THEN <<>>
                                        ELSE toWorker[s]]
    BY DEF RealmDies
  <2>2. body' \in [Saves -> BodyState] BY <1>2, <2>1
  <2>3. toWorker' \in [Saves -> Seq(Message)] BY <1>2, <2>1
  <2>4. QED BY <1>1, <2>2, <2>3 DEF PortsTyped, Sound
<1>4. FlowInv' BY <1>1, <1>2 DEF FlowInv
<1>5. QED BY <1>3, <1>4

\* Steps of one save at the page, and the rest.
LEMMA PageRest ==
    ASSUME Sound, NEW s \in Saves,
           \/ PageStep(s) \/ NetworkStep(s) \/ OpenFromDialog(s) \/ OpenFromRow(s) \/ Stop(s)
    PROVE  RestTyped'
<1>1. RestTyped BY DEF Sound
<1>2. ASSUME UNCHANGED <<posted, clicked, controller, reasons>>, UNCHANGED realm PROVE RestTyped'
  BY <1>1, <1>2 DEF RestTyped, realm
<1>3. ASSUME UNCHANGED <<posted, clicked, controller>>, UNCHANGED realm,
             UNCHANGED reasons \/ Close(s)
      PROVE  RestTyped'
  BY <1>1, <1>3 DEF RestTyped, realm, Close
<1>4. ASSUME NEW again \in BOOLEAN, RegisterOn(s, controller, again),
             UNCHANGED <<clicked, controller, reasons>>, UNCHANGED realm
      PROVE  RestTyped'
  <2>1. controller \in 0 .. MaxDeaths BY <1>1, DeathsAssumption DEF RestTyped
  <2>2. [save |-> s, to |-> controller] \in [save : Saves, to : 0 .. MaxDeaths]
    BY <2>1
  <2>3. posted' \subseteq [save : Saves, to : 0 .. MaxDeaths]
    BY <1>1, <1>4, <2>2 DEF RestTyped, RegisterOn
  <2>4. QED BY <1>1, <1>4, <2>3 DEF RestTyped, realm
<1>5. OpenFromDialog(s) \/ OpenAutonomi(s) \/ OpenFromRow(s) \/ Drain(s) \/ Stop(s) => RestTyped'
  BY <1>2 DEF OpenFromDialog, OpenAutonomi, OpenFromRow, Drain, Stop
<1>6. ASSUME StartSWDownload(s) PROVE RestTyped'
  BY <1>2, <1>4, <1>6 DEF StartSWDownload
<1>7. ASSUME AskAgain(s), UNCHANGED controller, UNCHANGED realm PROVE RestTyped'
  BY <1>4, <1>7 DEF AskAgain
<1>8. ASSUME ConfirmTimeout(s) PROVE RestTyped'
  BY <1>2, <1>7, <1>8 DEF ConfirmTimeout
<1>9. ASSUME HearReady(s) PROVE RestTyped'
  <2>1. CASE AskAgain(s) BY <1>7, <1>9, <2>1 DEF HearReady
  <2>2. CASE /\ clicked' = clicked \cup {s} /\ reasons' = reasons \cup {"download"}
             /\ UNCHANGED <<posted, controller>> /\ UNCHANGED realm
    BY <1>1, <2>2 DEF RestTyped, realm
  <2>3. QED BY <1>9, <2>1, <2>2 DEF HearReady
<1>10. ASSUME HandlePull(s) PROVE RestTyped'
  BY <1>3, <1>10 DEF HandlePull, Hand
<1>11. ReadChunk(s) \/ ReadEnd(s) \/ ReadFails(s) \/ TimerFires(s) \/ HearCancelled(s) => RestTyped'
  BY <1>3 DEF ReadChunk, Hand, ReadEnd, ReadFails, TimerFires, HearCancelled
<1>12. QED
  BY <1>5, <1>6, <1>8, <1>9, <1>10, <1>11 DEF PageStep, NetworkStep

LEMMA WorkerRest ==
    ASSUME Sound, NEW s \in Saves, WorkerStep(s) \/ WriteOut(s) \/ UserCancels(s)
    PROVE  RestTyped'
<1>1. RestTyped BY DEF Sound
<1>2. ASSUME NEW m \in posted, RegisterToken(m) PROVE RestTyped'
  <2>1. m.save \in Saves BY <1>1 DEF RestTyped
  <2>2. /\ posted' \subseteq posted /\ UNCHANGED <<clicked, worker, controller, reasons>>
        /\ downloads' \subseteq downloads \cup {m.save}
    BY <1>2 DEF RegisterToken, page
  <2>3. QED BY <1>1, <2>1, <2>2 DEF RestTyped
<1>3. ASSUME UNCHANGED <<posted, worker, controller, reasons>>,
             clicked' \subseteq clicked, downloads' \subseteq downloads
      PROVE  RestTyped'
  BY <1>1, <1>3 DEF RestTyped
<1>4. Fetch(s) => RestTyped' BY <1>3 DEF Fetch, page
<1>5. Pull(s) => RestTyped' BY <1>3 DEF Pull, page
<1>6. WorkerTakes(s) => RestTyped' BY <1>3 DEF WorkerTakes, page
<1>7. WriteOut(s) \/ UserCancels(s) => RestTyped' BY <1>3 DEF WriteOut, UserCancels, page
<1>8. QED BY <1>2, <1>4, <1>5, <1>6, <1>7 DEF WorkerStep

LEMMA GlobalRest ==
    ASSUME Sound, ControllerChange \/ Kill \/ Swap PROVE RestTyped'
<1>1. RestTyped BY DEF Sound
<1>2. CASE ControllerChange
  BY <1>1, <1>2 DEF RestTyped, ControllerChange, realm
<1>3. CASE Kill \/ Swap
  <2>1. /\ UNCHANGED <<posted, clicked, controller, reasons>> /\ downloads' = {}
    BY <1>3 DEF Kill, Swap, RealmDies, page
  <2>2. /\ worker \in [swaps : Nat, kills : Nat]
        /\ worker.swaps + worker.kills < MaxDeaths /\ controller \in 0 .. worker.swaps
    BY <1>1, <1>3 DEF RestTyped, Kill, Swap
  <2>3. /\ worker' \in [swaps : Nat, kills : Nat]
        /\ worker'.swaps \in {worker.swaps, worker.swaps + 1}
        /\ worker'.swaps + worker'.kills = worker.swaps + worker.kills + 1
    <3>1. CASE Kill BY <2>2, <3>1 DEF Kill
    <3>2. CASE Swap BY <2>2, <3>2 DEF Swap
    <3>3. QED BY <1>3, <3>1, <3>2
  <2>4. QED BY <1>1, <2>1, <2>2, <2>3, DeathsAssumption DEF RestTyped
<1>4. QED BY <1>2, <1>3

LEMMA SoundInit == Init => Sound
<1> SUFFICES ASSUME Init PROVE Sound OBVIOUS
<1> DEFINE idle == [at |-> "idle", to |-> 0, again |-> FALSE, seen |-> 0, parts |-> <<>>,
                    next |-> 1, reading |-> 0, handed |-> <<>>, deadline |-> "none",
                    aborted |-> FALSE]
<1>1. /\ <<>> \in Seq(1 .. Chunks) /\ <<>> \in Seq(Message) /\ <<>> \in Seq(PageMessage)
      /\ 1 \in 1 .. Chunks + 1 /\ 0 \in 0 .. MaxDeaths
  BY ChunksAssumption, DeathsAssumption
<1>2. idle \in SaveState BY <1>1 DEF SaveState
<1>3. NoBody \in BodyState BY <1>1 DEF NoBody, BodyState
<1>4. /\ idle.at = "idle" /\ idle.reading = 0 /\ idle.parts = <<>> /\ idle.handed = <<>>
      /\ idle.next = 1
  OBVIOUS
<1> HIDE DEF idle
<1>5. Flows(idle, <<>>, <<>>, NoBody, FALSE)
  <2>1. NoBody.at = "none" /\ NoBody.queued = 0 /\ NoBody.got = <<>> BY DEF NoBody
  <2>2. OneOnItsWay(idle, <<>>, <<>>, NoBody)
    BY <1>4, <2>1, NoPulls, SilentPort DEF OneOnItsWay
  <2>3. InOrder(idle) BY <1>4 DEF InOrder, Counted, Early
  <2>4. Delivered(idle, <<>>, NoBody) BY <1>4, <2>1 DEF Delivered, Counted
  <2>5. NotYet(idle, <<>>, NoBody, FALSE) BY <1>4, <2>1, SilentPort DEF NotYet
  <2>6. DOMAIN <<>> = {} OBVIOUS
  <2>7. PortShaped(idle, <<>>) BY <2>6 DEF PortShaped
  <2>8. QED BY <2>2, <2>3, <2>4, <2>5, <2>7 DEF Flows
<1>6. /\ save = [s \in Saves |-> idle] /\ body = [s \in Saves |-> NoBody]
      /\ toWorker = [s \in Saves |-> <<>>] /\ toPage = [s \in Saves |-> <<>>]
      /\ clicked = {}
  BY DEF Init, idle
<1>7. PortsTyped BY <1>1, <1>2, <1>3, <1>6 DEF PortsTyped
<1>8. FlowInv
  <2>1. ASSUME NEW s \in Saves
        PROVE  Flows(save[s], toWorker[s], toPage[s], body[s], s \in clicked)
    <3>1. (s \in clicked) = FALSE BY <1>6
    <3>2. save[s] = idle /\ toWorker[s] = <<>> /\ toPage[s] = <<>> /\ body[s] = NoBody
      BY <1>6
    <3>3. QED BY <1>5, <3>1, <3>2
  <2>2. QED BY <2>1 DEF FlowInv
<1>9. RestTyped BY DeathsAssumption DEF Init, RestTyped
<1>10. QED BY <1>7, <1>8, <1>9 DEF Sound

LEMMA SoundStep ==
    ASSUME Sound, [Next]_vars PROVE Sound'
<1>1. CASE UNCHANGED vars
  BY <1>1 DEF vars, Sound, PortsTyped, RestTyped, FlowInv
<1>2. CASE ControllerChange
  BY <1>2, ControllerChangeKeeps, GlobalRest DEF Sound
<1>3. CASE Kill \/ Swap
  <2>1. RealmDies BY <1>3 DEF Kill, Swap
  <2>2. QED BY <1>3, <2>1, RealmDiesKeeps, GlobalRest DEF Sound
<1>4. ASSUME NEW s \in Saves,
             PageStep(s) \/ NetworkStep(s) \/ OpenFromDialog(s) \/ OpenFromRow(s) \/ Stop(s)
      PROVE  Sound'
  <2>1. RestTyped' BY <1>4, PageRest
  <2>2. PortsTyped' /\ FlowInv'
    <3>1. OpenFromDialog(s) \/ OpenAutonomi(s) => PortsTyped' /\ FlowInv'
      BY OpenFromDialogKeeps
    <3>2. OpenFromRow(s) => PortsTyped' /\ FlowInv' BY OpenFromRowKeeps
    <3>3. StartSWDownload(s) => PortsTyped' /\ FlowInv' BY StartSWDownloadKeeps
    <3>4. HearReady(s) => PortsTyped' /\ FlowInv' BY HearReadyKeeps
    <3>5. ConfirmTimeout(s) => PortsTyped' /\ FlowInv' BY ConfirmTimeoutKeeps
    <3>6. HandlePull(s) => PortsTyped' /\ FlowInv' BY HandlePullKeeps
    <3>7. ReadFails(s) \/ TimerFires(s) \/ HearCancelled(s) => PortsTyped' /\ FlowInv'
      BY GivenUpKeeps
    <3>8. Drain(s) => PortsTyped' /\ FlowInv' BY DrainKeeps
    <3>9. ReadChunk(s) => PortsTyped' /\ FlowInv' BY ReadChunkKeeps
    <3>10. ReadEnd(s) => PortsTyped' /\ FlowInv' BY ReadEndKeeps
    <3>11. Stop(s) => PortsTyped' /\ FlowInv' BY StopKeeps
    <3>12. QED BY <1>4, <3>1, <3>2, <3>3, <3>4, <3>5, <3>6, <3>7, <3>8, <3>9, <3>10, <3>11
               DEF PageStep, NetworkStep
  <2>3. QED BY <2>1, <2>2 DEF Sound
<1>5. ASSUME NEW s \in Saves, WorkerStep(s) \/ WriteOut(s) \/ UserCancels(s) PROVE Sound'
  <2>1. RestTyped' BY <1>5, WorkerRest
  <2>2. PortsTyped' /\ FlowInv'
    <3>1. ASSUME NEW m \in posted, RegisterToken(m) PROVE PortsTyped' /\ FlowInv'
      BY <3>1, RegisterTokenKeeps
    <3>2. Fetch(s) => PortsTyped' /\ FlowInv' BY FetchKeeps
    <3>3. Pull(s) => PortsTyped' /\ FlowInv' BY PullKeeps
    <3>4. WorkerTakes(s) => PortsTyped' /\ FlowInv' BY WorkerTakesKeeps
    <3>5. WriteOut(s) => PortsTyped' /\ FlowInv' BY WriteOutKeeps
    <3>6. UserCancels(s) => PortsTyped' /\ FlowInv' BY UserCancelsKeeps
    <3>7. QED BY <1>5, <3>1, <3>2, <3>3, <3>4, <3>5, <3>6 DEF WorkerStep
  <2>3. QED BY <2>1, <2>2 DEF Sound
<1>6. QED BY <1>1, <1>2, <1>3, <1>4, <1>5 DEF Next, UserStep

LEMMA AlwaysSound == Spec => []Sound
<1>1. Sound /\ [Next]_vars => Sound' BY SoundStep
<1>2. QED BY SoundInit, <1>1, PTL DEF Spec

-----------------------------------------------------------------------------
(* The theorems                                                            *)

\* What the page, the ports, the bodies and the worker hold is of its kind in every
\* reachable state.
THEOREM SavesTypeCorrect == Spec => []SaveTypeOK
<1>1. Sound => SaveTypeOK
  <2>1. SUFFICES ASSUME Sound PROVE SaveTypeOK OBVIOUS
  <2>2. \A s \in Saves : \A i \in DOMAIN toWorker[s] : toWorker[s][i] \in Message
    BY <2>1 DEF Sound, PortsTyped
  <2>3. QED BY <2>1, <2>2 DEF Sound, PortsTyped, RestTyped, SaveTypeOK
<1>2. QED BY AlwaysSound, <1>1, PTL

\* A save that is reported as saved, and a download the browser completes, is the
\* whole file, every chunk once and in order (app.js, pipeReaderToPort).
THEOREM FilesAreWhole == Spec => []SavedIsWhole
<1>1. Sound => SavedIsWhole
  <2>1. SUFFICES ASSUME Sound PROVE SavedIsWhole OBVIOUS
  <2> DEFINE file == [i \in 1 .. Chunks |-> i]
  <2>2. ASSUME NEW q \in Seq(1 .. Chunks), Counted(q), Len(q) = Chunks PROVE q = file
    <3>1. q = [i \in 1 .. Chunks |-> q[i]] BY <2>2
    <3>2. \A i \in 1 .. Chunks : q[i] = i BY <2>2 DEF Counted
    <3>3. QED BY <3>1, <3>2
  <2> HIDE DEF file
  <2>3. ASSUME NEW s \in Saves
        PROVE  /\ save[s].at = "saved" => save[s].handed = file
               /\ body[s].at = "closed" => body[s].got = file
    <3>1. /\ save[s] \in SaveState /\ body[s] \in BodyState
          /\ Flows(save[s], toWorker[s], toPage[s], body[s], s \in clicked)
      BY <2>1, OfSave
    <3>2. save[s].handed \in Seq(1 .. Chunks) /\ body[s].got \in Seq(1 .. Chunks)
      BY <3>1 DEF SaveState, BodyState
    <3>3. QED BY <2>2, <3>1, <3>2 DEF Flows, InOrder, Delivered
  <2>4. QED BY <2>3 DEF SavedIsWhole, file
<1>2. QED BY AlwaysSound, <1>1, PTL

\* The network read never runs ahead of the disk: of each save one chunk at most is
\* being read, on its way or queued in the worker (pipeReaderToPort answers a pull
\* with one chunk, and the worker asks when its queue is empty).
THEOREM ReadsAwaitDisk == Spec => []OneChunkInFlight
<1>1. Sound => OneChunkInFlight
  <2>1. SUFFICES ASSUME Sound PROVE OneChunkInFlight OBVIOUS
  <2>2. ASSUME NEW s \in Saves
        PROVE  save[s].reading
                 + Cardinality({i \in DOMAIN toWorker[s] : toWorker[s][i].type = "chunk"})
                 + body[s].queued <= 1
    <3> DEFINE W == toWorker[s]
               sent == {i \in DOMAIN W : W[i].type = "chunk"}
    <3>1. Flows(save[s], W, toPage[s], body[s], s \in clicked) BY <2>1, <2>2, OfSave
    <3>2. /\ save[s].reading \in {0, 1} /\ body[s].queued \in {0, 1}
          /\ save[s].reading = 1 => ~Says(W, "chunk") /\ body[s].queued = 0
          /\ Says(W, "chunk") => body[s].queued = 0
      BY <3>1 DEF Flows, OneOnItsWay
    <3>3. CASE Says(W, "chunk")
      <4>1. sent = {1} BY <3>1, <3>3 DEF Flows, PortShaped, Says
      <4>2. Cardinality(sent) = 1 BY <4>1, FS_Singleton
      <4>3. QED BY <3>2, <3>3, <4>2
    <3>4. CASE ~Says(W, "chunk")
      <4>1. sent = {} BY <3>4 DEF Says
      <4>2. Cardinality(sent) = 0 BY <4>1, FS_EmptySet
      <4>3. QED BY <3>2, <4>2
    <3>5. QED BY <3>3, <3>4
  <2>3. QED BY <2>2 DEF OneChunkInFlight
<1>2. QED BY AlwaysSound, <1>1, PTL

-----------------------------------------------------------------------------
(* The token                                                               *)

\* A save that has registered its token and waits for no confirmation.
Later == {"piping", "draining"} \cup Settled

LEMMA PageToken ==
    ASSUME Sound, TokenInv, NEW s \in Saves, NEW q, Become(s, q),
           q.to = save[s].to, q.again = save[s].again, q.seen = save[s].seen,
           q.at \in Later,
           UNCHANGED <<body, downloads, worker, controller, posted, clicked>>,
           \A t \in Saves \ {s} : toPage'[t] = toPage[t]
    PROVE  TokenInv'
<1>1. save'[s] = q /\ \A t \in Saves \ {s} : save'[t] = save[t]
  BY DEF Become, Sound, PortsTyped
<1>2. TokenOK(s)'
  <2>1. TokenOK(s) BY DEF TokenInv
  <2>2. q.at \notin {"idle", "opening", "opened", "confirming"} BY DEF Later, Settled
  <2>3. QED BY <1>1, <2>1, <2>2 DEF TokenOK
<1>3. ASSUME NEW t \in Saves \ {s} PROVE TokenOK(t)'
  <2>1. TokenOK(t) BY DEF TokenInv
  <2>2. QED BY <1>1, <2>1 DEF TokenOK
<1>4. QED BY <1>2, <1>3 DEF TokenInv

\* The steps up to the click, on the save they are about.
LEMMA EarlyToken ==
    ASSUME Sound, TokenInv, NEW s \in Saves, NEW q, Become(s, q), TokenOK(s)',
           UNCHANGED <<body, downloads, worker, controller>>,
           \A m \in posted' : m.save # s => m \in posted,
           \A t \in Saves \ {s} : toPage'[t] = toPage[t] /\ (t \in clicked' <=> t \in clicked)
    PROVE  TokenInv'
<1>1. \A t \in Saves \ {s} : save'[t] = save[t]
  BY DEF Become, Sound, PortsTyped
<1>2. ASSUME NEW t \in Saves \ {s} PROVE TokenOK(t)'
  <2>1. TokenOK(t) BY DEF TokenInv
  <2>2. QED BY <1>1, <2>1 DEF TokenOK
<1>3. QED BY <1>2 DEF TokenInv

\* Before the click there is no body, and no navigation.
LEMMA EarlyHasNothing ==
    ASSUME Sound, NEW s \in Saves, save[s].at \in Early
    PROVE  body[s] = NoBody /\ body[s].at = "none" /\ s \notin clicked
<1>1. Flows(save[s], toWorker[s], toPage[s], body[s], s \in clicked) BY OfSave
<1>2. QED BY <1>1 DEF Flows, NotYet, NoBody

LEMMA ToPageElsewhere ==
    ASSUME Sound, NEW s \in Saves,
           \/ UNCHANGED toPage
           \/ \E Q : toPage' = [toPage EXCEPT ![s] = Q]
    PROVE  \A t \in Saves \ {s} : toPage'[t] = toPage[t]
BY DEF Sound, PortsTyped

LEMMA OpeningToken ==
    ASSUME Sound, TokenInv, NEW s \in Saves,
           OpenFromDialog(s) \/ OpenAutonomi(s) \/ OpenFromRow(s)
    PROVE  TokenInv'
<1>1. save[s] \in SaveState /\ TokenOK(s) BY OfSave DEF TokenInv
<1>2. /\ save[s].at \in {"idle", "opening"}
      /\ UNCHANGED <<toPage, posted, clicked, body, downloads, worker, controller>>
  BY DEF OpenFromDialog, OpenAutonomi, OpenFromRow, realm
<1>3. PICK q : /\ Become(s, q)
               /\ q.to = save[s].to /\ q.again = save[s].again /\ q.seen = save[s].seen
               /\ q.at \in {"opening", "opened", "draining", "failed"}
  <2>1. CASE OpenFromDialog(s) \/ OpenAutonomi(s)
    <3>1. PICK at \in {"opening", "opened", "draining", "failed"} :
            Become(s, [save[s] EXCEPT !.at = at])
      BY <2>1 DEF OpenFromDialog, OpenAutonomi
    <3> DEFINE q == [save[s] EXCEPT !.at = at]
    <3>2. q.to = save[s].to /\ q.again = save[s].again /\ q.seen = save[s].seen /\ q.at = at
      BY <1>1 DEF SaveState
    <3>3. Become(s, q) BY <3>1
    <3> HIDE DEF q
    <3>4. QED BY <3>2, <3>3
  <2>2. CASE OpenFromRow(s)
    <3>1. PICK at \in {"opened", "draining"} :
            Become(s, [save[s] EXCEPT !.at = at, !.parts = << 1 >>, !.next = 2])
      BY <2>2 DEF OpenFromRow
    <3> DEFINE q == [save[s] EXCEPT !.at = at, !.parts = << 1 >>, !.next = 2]
    <3>2. q.to = save[s].to /\ q.again = save[s].again /\ q.seen = save[s].seen /\ q.at = at
      BY <1>1 DEF SaveState
    <3>3. Become(s, q) BY <3>1
    <3> HIDE DEF q
    <3>4. QED BY <3>2, <3>3
  <2>3. QED BY <2>1, <2>2
<1>4. body[s].at = "none" /\ s \notin clicked BY <1>2, EarlyHasNothing DEF Early
<1>5. save'[s] = q BY <1>3 DEF Become, Sound, PortsTyped
<1>6. TokenOK(s)' BY <1>1, <1>2, <1>3, <1>4, <1>5 DEF TokenOK
<1>7. QED BY <1>2, <1>3, <1>6, EarlyToken

\* The token is registered: for the first time, with no confirmation on its way, or
\* again, when nothing is promised any more.
LEMMA RegisterOnToken ==
    ASSUME Sound, TokenInv, NEW s \in Saves, NEW again \in BOOLEAN, save[s].at \in Early,
           RegisterOn(s, controller, again), UNCHANGED <<clicked, body, downloads, worker, controller>>,
           UNCHANGED toPage \/ toPage' = [toPage EXCEPT ![s] = <<>>],
           again = FALSE => toPage'[s] = <<>>
    PROVE  TokenInv'
<1> DEFINE q == [save[s] EXCEPT !.at = "confirming", !.to = controller, !.again = again]
<1>1. Become(s, q) /\ posted' = posted \cup {[save |-> s, to |-> controller]}
  BY DEF RegisterOn
<1>2. q.at = "confirming" /\ q.to = controller /\ q.again = again /\ q.seen = save[s].seen
  BY RegisteredFields
<1> HIDE DEF q
<1>3. save'[s] = q BY <1>1 DEF Become, Sound, PortsTyped
<1>4. body[s].at = "none" /\ s \notin clicked BY EarlyHasNothing
<1>5. TokenOK(s) /\ controller \in Nat
  BY DEF TokenInv, Sound, RestTyped
<1>6. TokenOK(s)' BY <1>2, <1>3, <1>4, <1>5 DEF TokenOK
<1>7. \A m \in posted' : m.save # s => m \in posted BY <1>1
<1>8. \A t \in Saves \ {s} : toPage'[t] = toPage[t] BY ToPageElsewhere
<1>9. QED BY <1>1, <1>6, <1>7, <1>8, EarlyToken

LEMMA DrainingToken ==
    ASSUME Sound, TokenInv, NEW s \in Saves, Become(s, [save[s] EXCEPT !.at = "draining"]),
           UNCHANGED <<posted, clicked, body, downloads, worker, controller>>,
           UNCHANGED toPage \/ toPage' = [toPage EXCEPT ![s] = <<>>]
    PROVE  TokenInv'
<1> DEFINE q == [save[s] EXCEPT !.at = "draining"]
<1>1. q.at = "draining" /\ q.to = save[s].to /\ q.again = save[s].again /\ q.seen = save[s].seen
  BY RegisteredFields
<1>2. Become(s, q) OBVIOUS
<1> HIDE DEF q
<1>3. \A t \in Saves \ {s} : toPage'[t] = toPage[t] BY ToPageElsewhere
<1>4. q.at \in Later BY <1>1 DEF Later
<1>5. QED BY <1>1, <1>2, <1>3, <1>4, PageToken

LEMMA StartSWDownloadToken ==
    ASSUME Sound, TokenInv, NEW s \in Saves, StartSWDownload(s) PROVE TokenInv'
<1>1. /\ save[s].at = "opened" /\ save[s].at \in Early
      /\ UNCHANGED <<toPage, clicked, body, downloads, worker, controller>>
  BY DEF StartSWDownload, realm, Early
<1>2. toPage[s] = <<>>
  <2>1. TokenOK(s) BY DEF TokenInv
  <2>2. QED BY <1>1, <2>1 DEF TokenOK
<1>3. CASE RegisterOn(s, controller, FALSE) BY <1>1, <1>2, <1>3, RegisterOnToken
<1>4. CASE Become(s, [save[s] EXCEPT !.at = "draining"]) /\ UNCHANGED posted
  BY <1>1, <1>4, DrainingToken
<1>5. QED BY <1>3, <1>4 DEF StartSWDownload

LEMMA AskAgainToken ==
    ASSUME Sound, TokenInv, NEW s \in Saves, save[s].at = "confirming", AskAgain(s),
           UNCHANGED <<body, downloads, worker, controller>>,
           toPage' = [toPage EXCEPT ![s] = <<>>]
    PROVE  TokenInv'
<1>1. RegisterOn(s, controller, TRUE) /\ UNCHANGED clicked BY DEF AskAgain
<1>2. save[s].at \in Early BY DEF Early
<1>3. QED BY <1>1, <1>2, RegisterOnToken

LEMMA ConfirmTimeoutToken ==
    ASSUME Sound, TokenInv, NEW s \in Saves, ConfirmTimeout(s) PROVE TokenInv'
<1>1. /\ save[s].at = "confirming" /\ UNCHANGED <<body, downloads, worker, controller>>
      /\ toPage' = [toPage EXCEPT ![s] = <<>>]
  BY DEF ConfirmTimeout, realm
<1>2. CASE AskAgain(s) BY <1>1, <1>2, AskAgainToken
<1>3. CASE Become(s, [save[s] EXCEPT !.at = "draining"]) /\ UNCHANGED <<posted, clicked>>
  BY <1>1, <1>3, DrainingToken
<1>4. QED BY <1>2, <1>3 DEF ConfirmTimeout

\* The click: the worker in control is the one that confirmed.
LEMMA HearReadyToken ==
    ASSUME Sound, TokenInv, NEW s \in Saves, HearReady(s) PROVE TokenInv'
<1>1. /\ save[s].at = "confirming" /\ UNCHANGED <<body, downloads, worker, controller>>
      /\ toPage' = [toPage EXCEPT ![s] = <<>>] /\ toPage[s] # <<>>
  BY DEF HearReady, realm
<1>2. CASE AskAgain(s) BY <1>1, <1>2, AskAgainToken
<1> DEFINE q == [save[s] EXCEPT !.at = "piping", !.deadline = "first", !.seen = controller]
<1>3. CASE /\ Become(s, q) /\ clicked' = clicked \cup {s} /\ UNCHANGED posted
           /\ NotReplaced(s)
  <2>1. q.at = "piping" /\ q.to = save[s].to /\ q.again = save[s].again /\ q.seen = controller
    BY ClickedFields
  <2>2. Become(s, q) BY <1>3
  <2> HIDE DEF q
  <2>3. save'[s] = q BY <2>2 DEF Become, Sound, PortsTyped
  <2>4. body[s].at = "none" BY <1>1, EarlyHasNothing DEF Early
  <2>5. TokenOK(s) /\ controller \in Nat BY DEF TokenInv, Sound, RestTyped
  <2>6. save[s].again \in BOOLEAN
    <3>1. save[s] \in SaveState BY OfSave
    <3>2. QED BY <3>1 DEF SaveState
  <2>7. save[s].again = FALSE => controller = save[s].to
    BY <1>3, <2>6 DEF NotReplaced
  <2>8. TokenOK(s)' BY <1>1, <2>1, <2>3, <2>4, <2>5, <2>7 DEF TokenOK
  <2>9. \A t \in Saves \ {s} : toPage'[t] = toPage[t] BY <1>1, ToPageElsewhere
  <2>10. QED BY <1>1, <1>3, <2>2, <2>8, <2>9, EarlyToken
<1>4. QED BY <1>2, <1>3 DEF HearReady

\* The pipe and the drain know nothing of tokens.
LEMMA FinishToken ==
    ASSUME Sound, TokenInv, NEW s \in Saves, NEW at \in Settled, Become(s, Finish(s, at)),
           UNCHANGED <<body, downloads, worker, controller, posted, clicked>>,
           UNCHANGED toPage \/ Close(s)
    PROVE  TokenInv'
<1> DEFINE q == Finish(s, at)
<1>1. q.at = at /\ q.to = save[s].to /\ q.again = save[s].again /\ q.seen = save[s].seen
  BY FinishFields
<1>2. Become(s, q) OBVIOUS
<1> HIDE DEF q
<1>3. \A t \in Saves \ {s} : toPage'[t] = toPage[t] BY ToPageElsewhere DEF Close
<1>4. q.at \in Later BY <1>1 DEF Later
<1>5. QED BY <1>1, <1>2, <1>3, <1>4, PageToken

LEMMA HandToken ==
    ASSUME Sound, TokenInv, NEW s \in Saves, NEW chunk, Hand(s, chunk), save[s].at = "piping",
           UNCHANGED <<body, downloads, worker, controller, posted, clicked>>,
           UNCHANGED toPage \/ \E Q : toPage' = [toPage EXCEPT ![s] = Q]
    PROVE  TokenInv'
<1> DEFINE q == Handed(s, chunk)
<1>1. Become(s, q) BY HandedIs
<1>2. save[s] \in SaveState BY OfSave
<1>3. q.at = save[s].at /\ q.to = save[s].to /\ q.again = save[s].again
      /\ q.seen = save[s].seen
  BY <1>2 DEF Handed, SaveState
<1> HIDE DEF q
<1>4. \A t \in Saves \ {s} : toPage'[t] = toPage[t] BY ToPageElsewhere
<1>5. q.at \in Later BY <1>3 DEF Later
<1>6. QED BY <1>1, <1>3, <1>4, <1>5, PageToken

LEMMA HandlePullToken ==
    ASSUME Sound, TokenInv, NEW s \in Saves, HandlePull(s) PROVE TokenInv'
<1>1. save[s].at = "piping" /\ UNCHANGED <<body, downloads, worker, controller, posted, clicked>>
  BY DEF HandlePull, realm
<1>2. CASE Become(s, Finish(s, "cancelled")) /\ Close(s)
  BY <1>1, <1>2, FinishToken DEF Settled
<1>3. CASE toPage' = [toPage EXCEPT ![s] = Tail(@)] /\ Hand(s, Head(save[s].parts))
  BY <1>1, <1>3, HandToken
<1> DEFINE q == [save[s] EXCEPT !.reading = @ + 1, !.deadline = "network"]
<1>4. CASE toPage' = [toPage EXCEPT ![s] = Tail(@)] /\ Become(s, q)
  <2>1. save[s] \in SaveState BY OfSave
  <2>2. q.at = save[s].at /\ q.to = save[s].to /\ q.again = save[s].again
        /\ q.seen = save[s].seen
    BY <2>1 DEF SaveState
  <2>3. Become(s, q) BY <1>4
  <2> HIDE DEF q
  <2>4. \A t \in Saves \ {s} : toPage'[t] = toPage[t] BY <1>4, ToPageElsewhere
  <2>5. q.at \in Later BY <1>1, <2>2 DEF Later
  <2>6. QED BY <1>1, <2>2, <2>3, <2>4, <2>5, PageToken
<1>5. QED BY <1>2, <1>3, <1>4 DEF HandlePull

LEMMA LatePageToken ==
    ASSUME Sound, TokenInv, NEW s \in Saves,
           ReadChunk(s) \/ ReadEnd(s) \/ ReadFails(s) \/ TimerFires(s) \/ HearCancelled(s)
             \/ Stop(s) \/ Drain(s)
    PROVE  TokenInv'
<1>1. UNCHANGED <<body, downloads, worker, controller, posted, clicked>>
  BY DEF ReadChunk, ReadEnd, ReadFails, TimerFires, HearCancelled, Stop, Drain, realm
<1>2. ASSUME ReadChunk(s) PROVE TokenInv'
  BY <1>1, <1>2, HandToken DEF ReadChunk
<1>3. ASSUME ReadEnd(s) PROVE TokenInv'
  <2>1. PICK at \in Settled : Become(s, Finish(s, at)) BY <1>3 DEF ReadEnd, Settled
  <2>2. Close(s) BY <1>3 DEF ReadEnd
  <2>3. QED BY <1>1, <2>1, <2>2, FinishToken
<1>4. ASSUME ReadFails(s) \/ TimerFires(s) \/ HearCancelled(s) PROVE TokenInv'
  <2>1. PICK at \in Settled : Become(s, Finish(s, at))
    BY <1>4, FailureIsSettled DEF ReadFails, TimerFires, HearCancelled, Settled
  <2>2. Close(s) BY <1>4 DEF ReadFails, TimerFires, HearCancelled
  <2>3. QED BY <1>1, <2>1, <2>2, FinishToken
<1>5. ASSUME Stop(s) PROVE TokenInv'
  <2> DEFINE q == [save[s] EXCEPT !.aborted = TRUE]
  <2>1. Become(s, q) /\ UNCHANGED toPage /\ save[s].at \in {"piping", "draining"}
    BY <1>5 DEF Stop
  <2>2. q.at = save[s].at /\ q.to = save[s].to /\ q.again = save[s].again
        /\ q.seen = save[s].seen
    BY StoppedFields
  <2> HIDE DEF q
  <2>3. q.at \in Later BY <2>1, <2>2 DEF Later
  <2>4. QED BY <1>1, <2>1, <2>2, <2>3, PageToken
<1>6. ASSUME Drain(s) PROVE TokenInv'
  <2>1. PICK q \in SaveState :
          /\ Become(s, q) /\ q.at \in Settled
          /\ q.to = save[s].to /\ q.again = save[s].again /\ q.seen = save[s].seen
    BY <1>6, DrainedFields
  <2>2. UNCHANGED toPage BY <1>6 DEF Drain
  <2>3. q.at \in Later BY <2>1 DEF Later
  <2>4. QED BY <1>1, <2>1, <2>2, <2>3, PageToken
<1>7. QED BY <1>2, <1>3, <1>4, <1>5, <1>6

LEMMA ControllerChangeToken ==
    ASSUME Sound, TokenInv, ControllerChange PROVE TokenInv'
<1>1. /\ controller' = worker.swaps
      /\ UNCHANGED <<body, downloads, worker, posted, clicked>>
      /\ controller \in 0 .. worker.swaps /\ worker.swaps \in Nat
  BY DEF ControllerChange, realm, Sound, RestTyped
<1>2. ASSUME NEW s \in Saves PROVE TokenOK(s)'
  <2>1. /\ TokenOK(s) /\ save[s].to \in 0 .. MaxDeaths /\ save[s].seen \in 0 .. MaxDeaths
    <3>1. save[s] \in SaveState BY OfSave
    <3>2. QED BY <3>1 DEF TokenInv, SaveState
  <2>2. CASE save[s].at = "piping"
    <3> DEFINE q == Finish(s, Failure(s))
    <3>1. Failure(s) \in Settled BY FailureIsSettled
    <3>2. /\ q.at \in Settled /\ q.to = save[s].to /\ q.again = save[s].again
          /\ q.seen = save[s].seen
      BY <3>1, FinishFields
    <3>3. save'[s] = q BY <2>2 DEF ControllerChange
    <3> HIDE DEF q
    <3>4. q.at \notin {"idle", "opening", "opened", "confirming"} BY <3>2 DEF Settled
    <3>5. QED BY <1>1, <2>1, <3>2, <3>3, <3>4, DeathsAssumption DEF TokenOK
  <2>3. CASE save[s].at # "piping"
    <3>1. save'[s] = save[s] /\ toPage'[s] = toPage[s] BY <2>3 DEF ControllerChange
    <3>2. QED BY <1>1, <2>1, <3>1, DeathsAssumption DEF TokenOK
  <2>4. QED BY <2>2, <2>3
<1>3. QED BY <1>2 DEF TokenInv

\* The worker that confirms has the token, and the sweep takes none that is waited for.
LEMMA RegisterTokenToken ==
    ASSUME Sound, TokenInv, NEW m \in posted, RegisterToken(m) PROVE TokenInv'
<1>1. /\ posted' \subseteq posted /\ UNCHANGED <<save, body, worker, controller, clicked>>
  BY DEF RegisterToken, page
<1>2. CASE UNCHANGED <<downloads, toPage>>
  <2>1. ASSUME NEW s \in Saves PROVE TokenOK(s)'
    <3>1. TokenOK(s) BY DEF TokenInv
    <3>2. QED BY <1>1, <1>2, <3>1 DEF TokenOK
  <2>2. QED BY <2>1 DEF TokenInv
<1>3. CASE /\ \E swept \in {{}, {s \in downloads \ clicked :
                                   save[s].at \in {"draining"} \cup Settled}} :
                downloads' = (downloads \ swept) \cup {m.save}
           /\ toPage' = IF m.save \in downloads THEN toPage
                        ELSE [toPage EXCEPT ![m.save] = Append(@, "ready")]
  <2>1. ASSUME NEW s \in Saves PROVE TokenOK(s)'
    <3>1. TokenOK(s) BY DEF TokenInv
    <3>2. s \in downloads /\ (s \in clicked \/ save[s].at = "confirming") => s \in downloads'
      BY <1>3 DEF Settled
    <3>3. CASE s = m.save
      <4>1. s \in downloads' BY <1>3, <3>3
      <4>2. save[s].at \notin {"idle", "opening", "opened"} BY <3>1, <3>3 DEF TokenOK
      <4>3. QED BY <1>1, <3>1, <4>1, <4>2 DEF TokenOK
    <3>4. CASE s # m.save
      <4>1. toPage'[s] = toPage[s] BY <1>3, <3>4 DEF Sound, PortsTyped
      <4>2. QED BY <1>1, <3>1, <3>2, <4>1 DEF TokenOK
    <3>5. QED BY <3>3, <3>4
  <2>2. QED BY <2>1 DEF TokenInv
<1>4. QED BY <1>2, <1>3 DEF RegisterToken

LEMMA FetchToken ==
    ASSUME Sound, TokenInv, NEW t, Fetch(t) PROVE TokenInv'
<1>1. /\ t \in clicked /\ clicked' = clicked \ {t} /\ downloads' = downloads \ {t}
      /\ UNCHANGED <<save, toPage, posted, worker, controller>>
  BY DEF Fetch, page
<1>2. t \in Saves BY <1>1 DEF Sound, RestTyped
<1>3. PICK c \in BodyState : /\ body' = [body EXCEPT ![t] = c]
                             /\ c.at = "refused" => t \notin downloads
  BY <1>1, FetchedFields
<1>4. TokenOK(t)'
  <2>1. TokenOK(t) BY <1>2 DEF TokenInv
  <2>2. save[t].at \notin Early BY <1>1, <1>2, EarlyHasNothing
  <2>3. body'[t] = c BY <1>2, <1>3 DEF Sound, PortsTyped
  <2>4. QED BY <1>1, <1>3, <2>1, <2>2, <2>3 DEF TokenOK, Early
<1>5. ASSUME NEW s \in Saves \ {t} PROVE TokenOK(s)'
  <2>1. TokenOK(s) BY DEF TokenInv
  <2>2. body'[s] = body[s] BY <1>3 DEF Sound, PortsTyped
  <2>3. QED BY <1>1, <2>1, <2>2 DEF TokenOK
<1>6. QED BY <1>4, <1>5 DEF TokenInv

\* What goes on between a body and the disk refuses nothing.
LEMMA BodyToken ==
    ASSUME Sound, TokenInv, NEW s \in Saves, NEW c, body' = [body EXCEPT ![s] = c],
           c.at = "refused" => body[s].at = "refused",
           UNCHANGED <<save, posted, clicked, downloads, worker, controller>>,
           UNCHANGED toPage \/ (body[s].at = "open" /\ \E Q : toPage' = [toPage EXCEPT ![s] = Q])
    PROVE  TokenInv'
<1>1. body'[s] = c /\ \A t \in Saves \ {s} : body'[t] = body[t] BY DEF Sound, PortsTyped
<1>2. \A t \in Saves \ {s} : toPage'[t] = toPage[t] BY ToPageElsewhere
<1>3. save[s].at \in Early => toPage'[s] = toPage[s] BY EarlyHasNothing
<1>4. ASSUME NEW t \in Saves PROVE TokenOK(t)'
  <2>1. TokenOK(t) BY DEF TokenInv
  <2>2. save[t].at \in Early => toPage'[t] = toPage[t] BY <1>2, <1>3
  <2>3. body'[t].at = "refused" => body[t].at = "refused" BY <1>1
  <2>4. QED BY <2>1, <2>2, <2>3 DEF TokenOK, Early
<1>5. QED BY <1>4 DEF TokenInv

LEMMA StreamToken ==
    ASSUME Sound, TokenInv, NEW s \in Saves,
           Pull(s) \/ WorkerTakes(s) \/ WriteOut(s) \/ UserCancels(s)
    PROVE  TokenInv'
<1>1. UNCHANGED <<save, posted, clicked, downloads, worker, controller>>
  BY DEF Pull, WorkerTakes, WriteOut, UserCancels, page
<1>2. body[s] \in BodyState BY OfSave
<1>3. ASSUME NEW msg, Tell(s, msg)
      PROVE  UNCHANGED toPage \/ \E Q : toPage' = [toPage EXCEPT ![s] = Q]
  BY <1>3 DEF Tell
<1>4. ASSUME Pull(s) PROVE TokenInv'
  <2> DEFINE c == [body[s] EXCEPT !.pulling = TRUE]
  <2>1. c.at = body[s].at BY <1>2 DEF BodyState
  <2>2. body' = [body EXCEPT ![s] = c] /\ body[s].at = "open" BY <1>4 DEF Pull
  <2> HIDE DEF c
  <2>3. Tell(s, "pull") BY <1>4 DEF Pull
  <2>4. UNCHANGED toPage \/ \E Q : toPage' = [toPage EXCEPT ![s] = Q] BY <1>3, <2>3
  <2>5. QED BY <1>1, <2>1, <2>2, <2>4, BodyToken
<1>5. ASSUME WorkerTakes(s) PROVE TokenInv'
  <2> DEFINE c == Taken(body[s], Head(toWorker[s]))
  <2>1. body' = [body EXCEPT ![s] = c] /\ UNCHANGED toPage BY <1>5 DEF WorkerTakes
  <2>2. c.at = "refused" => body[s].at = "refused"
    BY <1>2 DEF Taken, Broken, NoBody, BodyState
  <2> HIDE DEF c
  <2>3. QED BY <1>1, <2>1, <2>2, BodyToken
<1>6. ASSUME WriteOut(s) PROVE TokenInv'
  <2> DEFINE c == [body[s] EXCEPT !.queued = @ - 1]
  <2>1. c.at = body[s].at BY <1>2 DEF BodyState
  <2>2. body' = [body EXCEPT ![s] = c] /\ UNCHANGED toPage BY <1>6 DEF WriteOut
  <2> HIDE DEF c
  <2>3. QED BY <1>1, <2>1, <2>2, BodyToken
<1>7. ASSUME UserCancels(s) PROVE TokenInv'
  <2>1. /\ body' = [body EXCEPT ![s] = Broken("cancelled")] /\ body[s].at = "open"
        /\ Tell(s, "cancelled")
    BY <1>7 DEF UserCancels
  <2>2. Broken("cancelled").at = "cancelled" BY DEF Broken, NoBody
  <2>3. UNCHANGED toPage \/ \E Q : toPage' = [toPage EXCEPT ![s] = Q] BY <1>3, <2>1
  <2>4. QED BY <1>1, <2>1, <2>2, <2>3, BodyToken
<1>8. QED BY <1>4, <1>5, <1>6, <1>7

\* A worker that is killed is counted; one that is replaced is none a save has asked.
LEMMA RealmDiesToken ==
    ASSUME Sound, TokenInv, Kill \/ Swap PROVE TokenInv'
<1>1. /\ UNCHANGED <<save, toPage, posted, clicked, controller>> /\ RealmDies
  BY DEF Kill, Swap, RealmDies, page
<1>2. /\ worker \in [swaps : Nat, kills : Nat] /\ controller \in 0 .. worker.swaps
  BY DEF Sound, RestTyped
<1>3. \/ worker'.kills # 0
      \/ worker'.swaps = worker.swaps + 1
  <2>1. CASE Kill BY <1>2, <2>1 DEF Kill
  <2>2. CASE Swap BY <1>2, <2>2 DEF Swap
  <2>3. QED BY <2>1, <2>2
<1>4. ASSUME NEW s \in Saves PROVE TokenOK(s)'
  <2>1. TokenOK(s) BY DEF TokenInv
  <2>2. save[s].to \in Nat /\ save[s].seen \in Nat
    <3>1. save[s] \in SaveState BY OfSave
    <3>2. QED BY <3>1, DeathsAssumption DEF SaveState
  <2>3. worker'.kills = 0 => worker'.swaps # save[s].to /\ worker'.swaps # save[s].seen
    BY <1>2, <1>3, <2>1, <2>2 DEF TokenOK
  <2>4. QED BY <1>1, <2>1, <2>3 DEF TokenOK
<1>5. QED BY <1>4 DEF TokenInv

LEMMA TokenStep ==
    ASSUME Sound, TokenInv, [Next]_vars PROVE TokenInv'
<1>1. CASE UNCHANGED vars
  BY <1>1 DEF vars, TokenInv, TokenOK
<1>2. CASE ControllerChange BY <1>2, ControllerChangeToken
<1>3. CASE Kill \/ Swap BY <1>3, RealmDiesToken
<1>4. ASSUME NEW s \in Saves,
             PageStep(s) \/ NetworkStep(s) \/ OpenFromDialog(s) \/ OpenFromRow(s) \/ Stop(s)
      PROVE  TokenInv'
  <2>1. OpenFromDialog(s) \/ OpenAutonomi(s) \/ OpenFromRow(s) => TokenInv' BY OpeningToken
  <2>2. StartSWDownload(s) => TokenInv' BY StartSWDownloadToken
  <2>3. HearReady(s) => TokenInv' BY HearReadyToken
  <2>4. ConfirmTimeout(s) => TokenInv' BY ConfirmTimeoutToken
  <2>5. HandlePull(s) => TokenInv' BY HandlePullToken
  <2>6. ReadChunk(s) \/ ReadEnd(s) \/ ReadFails(s) \/ TimerFires(s) \/ HearCancelled(s)
          \/ Stop(s) \/ Drain(s) => TokenInv'
    BY LatePageToken
  <2>7. QED BY <1>4, <2>1, <2>2, <2>3, <2>4, <2>5, <2>6 DEF PageStep, NetworkStep
<1>5. ASSUME NEW s \in Saves, WorkerStep(s) \/ WriteOut(s) \/ UserCancels(s) PROVE TokenInv'
  <2>1. ASSUME NEW m \in posted, RegisterToken(m) PROVE TokenInv'
    BY <2>1, RegisterTokenToken
  <2>2. Fetch(s) => TokenInv' BY FetchToken
  <2>3. Pull(s) \/ WorkerTakes(s) \/ WriteOut(s) \/ UserCancels(s) => TokenInv' BY StreamToken
  <2>4. QED BY <1>5, <2>1, <2>2, <2>3 DEF WorkerStep
<1>6. QED BY <1>1, <1>2, <1>3, <1>4, <1>5 DEF Next, UserStep

LEMMA TokenInit == Init => TokenInv
BY DEF Init, TokenInv, TokenOK, NoBody

\* A click is answered with 404 only when the realm that knew its token has died too
\* late for the page to see: it was killed, or replaced after the click, or while the
\* token was registered for the second time (startSWDownload, downloads of the worker).
THEOREM ClicksAreServed == Spec => []RefusedOnlyIfRealmLost
<1>1. Sound /\ TokenInv => RefusedOnlyIfRealmLost
  <2>1. SUFFICES ASSUME Sound, TokenInv, NEW s \in Saves, body[s].at = "refused"
                 PROVE  worker.kills > 0 \/ save[s].again \/ worker.swaps # save[s].seen
    BY DEF RefusedOnlyIfRealmLost
  <2>2. TokenOK(s) BY <2>1 DEF TokenInv
  <2>3. save[s].again \in BOOLEAN /\ worker.kills \in Nat
    <3>1. save[s] \in SaveState BY <2>1, OfSave
    <3>2. QED BY <2>1, <3>1 DEF SaveState, Sound, RestTyped
  <2>4. QED BY <2>1, <2>2, <2>3 DEF TokenOK
<1>2. Sound /\ TokenInv /\ [Next]_vars => Sound' /\ TokenInv'
  BY SoundStep, TokenStep
<1>3. QED BY SoundInit, TokenInit, <1>1, <1>2, PTL DEF Spec
=============================================================================
