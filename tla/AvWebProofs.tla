----------------------------- MODULE AvWebProofs -----------------------------
(***************************************************************************)
(* Theorems about `av web` and its page: FetchJob, whose job, thread and   *)
(* polling loop must tell one story; AvWebServer, whose handlers must work *)
(* on whole bodies of our own; and AvPage, whose results area several      *)
(* conversations write to.  Each part is: what is said of the values, one  *)
(* lemma per kind of step, the theorems.                                   *)
(***************************************************************************)
EXTENDS FetchJob, AvWebServer, AvPage, SequenceTheorems, TLAPS

-----------------------------------------------------------------------------
(* Fetch jobs                                                              *)

\* A log: the numbers are consecutive up to the next, and nothing but progress
\* comes before the last event.
IsLog(job) ==
    /\ Len(job.events) <= job.next /\ Len(job.events) <= MaxEvents
    /\ job.next > 0 => Len(job.events) > 0
    /\ \A k \in 1 .. Len(job.events) : job.events[k].seq = job.next - Len(job.events) + k - 1
    /\ \A k \in 1 .. Len(job.events) - 1 : job.events[k].kind = "progress"

\* The kind of the last event of a log.
LastKind(job) == job.events[Len(job.events)].kind

\* The least number of a set that has one.
LEMMA MinIs ==
    ASSUME NEW S \in SUBSET Nat, NEW n \in S, \A k \in S : n <= k
    PROVE  Min(S) = n
<1>1. \E x \in S : \A y \in S : x =< y OBVIOUS
<1>2. Min(S) \in S /\ \A y \in S : Min(S) =< y BY <1>1, Zenon DEF Min
<1> DEFINE least == Min(S)
<1>3. least \in S /\ least <= n /\ n <= least BY <1>2
<1>4. least \in Nat /\ n \in Nat BY <1>3
<1> HIDE DEF least
<1>5. least = n BY <1>3, <1>4
<1>6. QED BY <1>5 DEF least

\* The fields of a job.
LEMMA JobIs ==
    ASSUME NEW job \in Job
    PROVE  /\ job.events \in Seq(Event) /\ job.next \in Nat /\ job.finished \in BOOLEAN
           /\ job.age \in 0 .. Retain /\ job # None
           /\ Len(job.events) \in Nat /\ DOMAIN job.events = 1 .. Len(job.events)
           /\ \A k \in 1 .. Len(job.events) : job.events[k] \in Event
BY NoneIsNoJob DEF Job

\* What a poll is given: all from the cursor on.
LEMMA UnseenIs ==
    ASSUME NEW job \in Job, IsLog(job), NEW since \in Nat, since <= job.next
    PROVE  \E n \in 0 .. Len(job.events) :
              /\ Unseen(job, since) \in Seq(Event)
              /\ Len(Unseen(job, since)) = Len(job.events) - n
              /\ \A k \in 1 .. Len(job.events) - n : Unseen(job, since)[k] = job.events[n + k]
              /\ \A k \in 1 .. Len(job.events) : k <= n <=> job.events[k].seq < since
<1> DEFINE es == job.events
           b == job.next - Len(es)
           n == IF since <= b THEN 0 ELSE since - b
           kept == {k \in DOMAIN es : es[k].seq >= since}
<1>1. /\ es \in Seq(Event) /\ job.next \in Nat /\ Len(es) \in Nat /\ DOMAIN es = 1 .. Len(es)
      /\ \A k \in 1 .. Len(es) : es[k] \in Event
  BY JobIs
<1>2. b \in Nat /\ \A k \in 1 .. Len(es) : es[k].seq = b + k - 1
  BY <1>1 DEF IsLog
<1>3. n \in 0 .. Len(es) /\ since <= b + Len(es)
  BY <1>1, <1>2
<1>4. Unseen(job, since) = From(es, kept) BY DEF Unseen
<1> HIDE DEF es, b
<1>5. \A k \in 1 .. Len(es) : k <= n <=> es[k].seq < since
  BY <1>1, <1>2, <1>3
<1>6. \A k \in 1 .. Len(es) : k \in kept <=> k > n
  <2>1. \A k \in 1 .. Len(es) : es[k].seq \in Nat BY <1>1 DEF Event
  <2>2. QED BY <1>1, <1>3, <1>5, <2>1
<1>7. kept \subseteq 1 .. Len(es) BY <1>1
<1> HIDE DEF n, kept
<1>8. CASE n = Len(es)
  <2>1. kept = {} BY <1>1, <1>6, <1>7, <1>8
  <2>2. Unseen(job, since) = << >> BY <1>4, <2>1 DEF From
  <2>3. QED BY <1>1, <1>3, <1>5, <1>8, <2>2 DEF es
<1>9. CASE n # Len(es)
  <2>0. n \in Nat /\ n + 1 \in 1 .. Len(es) /\ n + 1 > n 
    <3> DEFINE w == Len(es)
    <3>1. w \in Nat /\ n \in 0 .. w /\ n # w BY <1>1, <1>3, <1>9
    <3> HIDE DEF w
    <3>2. n \in Nat /\ n + 1 \in 1 .. w /\ n + 1 > n BY <3>1
    <3>3. QED BY <3>2 DEF w
  <2>1. n + 1 \in kept /\ n + 1 \in 1 .. Len(es) BY <1>6, <2>0
  <2>2. \A k \in kept : n + 1 <= k BY <1>1, <1>3, <1>6, <1>7
  <2>3. kept \in SUBSET Nat BY <1>1, <1>7
  <2>4. Min(kept) = n + 1 BY <2>1, <2>2, <2>3, MinIs
  <2>5. Unseen(job, since) = SubSeq(es, n + 1, Len(es)) BY <1>4, <2>1, <2>4 DEF From
  <2>6. \A k \in n + 1 .. Len(es) : es[k] \in Event BY <1>1, <1>3
  <2> DEFINE u == SubSeq(es, n + 1, Len(es))
  <2>7. /\ u \in Seq(Event) /\ Len(u) = Len(es) - n
        /\ \A k \in 1 .. Len(es) - n : u[k] = es[n + k]
    BY <1>1, <1>3, <2>1, <2>6
  <2> HIDE DEF u
  <2>8. QED BY <1>3, <1>5, <2>5, <2>7 DEF u, es
<1>10. QED BY <1>8, <1>9

\* The page handles all of it: an outcome is the last there is.
LEMMA HandledIs ==
    ASSUME NEW es \in Seq(Event), \A k \in 1 .. Len(es) - 1 : es[k].kind = "progress"
    PROVE  Handled(es) = es
<1> DEFINE outcomes == {k \in DOMAIN es : es[k].kind # "progress"}
<1>1. Len(es) \in Nat /\ DOMAIN es = 1 .. Len(es) OBVIOUS
<1>2. \A k \in outcomes : k = Len(es) /\ k \in Nat BY <1>1
<1>3. Handled(es) = IF outcomes = {} THEN es ELSE SubSeq(es, 1, Min(outcomes)) BY DEF Handled
<1> HIDE DEF outcomes
<1>4. CASE outcomes = {} BY <1>3, <1>4
<1>5. CASE outcomes # {}
  <2>1. Len(es) \in outcomes /\ outcomes \in SUBSET Nat BY <1>2, <1>5
  <2>2. \A k \in outcomes : Len(es) <= k BY <1>1, <1>2
  <2>3. Min(outcomes) = Len(es) BY <2>1, <2>2, MinIs
  <2>4. Handled(es) = SubSeq(es, 1, Len(es)) BY <1>3, <1>5, <2>3
  <2>5. SubSeq(es, 1, Len(es)) = es
    <3> DEFINE u == SubSeq(es, 1, Len(es))
    <3>1. \A k \in 1 .. Len(es) : es[k] \in Event BY <1>1
    <3>2. u \in Seq(Event) /\ Len(u) = Len(es) /\ \A k \in 1 .. Len(es) : u[k] = es[k]
      BY <1>1, <3>1
    <3> HIDE DEF u
    <3>3. u = es BY <3>2, SeqEqual
    <3>4. QED BY <3>3 DEF u
  <2>6. QED BY <2>4, <2>5
<1>6. QED BY <1>4, <1>5

\* An event is pushed onto a log of progress.
LEMMA PushedIs ==
    ASSUME NEW job \in Job, IsLog(job), ~job.finished,
           job.next > 0 => LastKind(job) = "progress", NEW kind \in Kind
    PROVE  LET new == Pushed(job, kind)
           IN  /\ new \in Job /\ IsLog(new) /\ new.next = job.next + 1 /\ LastKind(new) = kind
               /\ new.finished = job.finished
               /\ \A k \in DOMAIN new.events :
                     \/ new.events[k].seq = job.next
                     \/ \E i \in DOMAIN job.events : job.events[i].seq = new.events[k].seq
<1> DEFINE es == job.events
           e == [seq |-> job.next, kind |-> kind]
           g == Append(es, e)
           ns == IF Len(g) > MaxEvents THEN Tail(g) ELSE g
           nn == job.next + 1
           new == [job EXCEPT !.next = nn, !.events = ns]
<1>1. /\ es \in Seq(Event) /\ job.next \in Nat /\ Len(es) \in Nat /\ DOMAIN es = 1 .. Len(es)
      /\ \A k \in 1 .. Len(es) : es[k] \in Event
  BY JobIs
<1>2. Pushed(job, kind) = new BY JobIs DEF Pushed
<1>3. e \in Event /\ e.seq = job.next /\ e.kind = kind BY <1>1 DEF Event
<1>4. /\ Len(es) <= job.next /\ Len(es) <= MaxEvents /\ MaxEvents \in Nat /\ MaxEvents > 0
      /\ \A k \in 1 .. Len(es) : es[k].seq = job.next - Len(es) + k - 1
      /\ \A k \in 1 .. Len(es) : es[k].kind = "progress"
  <2>1. MaxEvents \in Nat /\ MaxEvents > 0 BY MaxEventsAssumption
  <2>2. Len(es) > 0 => es[Len(es)].kind = "progress" BY <1>1 DEF IsLog, LastKind
  <2>3. QED BY <1>1, <2>1, <2>2 DEF IsLog
<1> HIDE DEF es, e
<1>5. /\ g \in Seq(Event) /\ Len(g) = Len(es) + 1 /\ g[Len(es) + 1] = e
      /\ \A k \in 1 .. Len(es) : g[k] = es[k]
  BY <1>1, <1>3
<1> HIDE DEF g
<1>6. PICK d \in {0, 1} :
        /\ ns \in Seq(Event) /\ Len(ns) = Len(es) + 1 - d /\ Len(ns) <= MaxEvents /\ Len(ns) > 0
        /\ \A k \in 1 .. Len(es) + 1 - d : ns[k] = g[k + d]
  <2>1. CASE Len(g) > MaxEvents
    <3>1. ns = Tail(g) BY <2>1
    <3>2. g # << >> BY <1>1, <1>5
    <3>3. /\ Tail(g) \in Seq(Event) /\ Len(Tail(g)) = Len(g) - 1
          /\ \A k \in 1 .. Len(g) - 1 : Tail(g)[k] = g[k + 1]
      BY <1>5, <3>2, HeadTailProperties
    <3> HIDE DEF ns
    <3>40. Len(es) + 1 > MaxEvents BY <1>5, <2>1
    <3> DEFINE w == Len(es)
    <3>41. w \in Nat /\ MaxEvents \in Nat /\ w <= MaxEvents /\ w + 1 > MaxEvents
      BY <1>1, <1>4, <3>40
    <3> HIDE DEF w
    <3>42. w = MaxEvents BY <3>41
    <3>4. Len(es) = MaxEvents BY <3>42 DEF w
    <3>5. Len(Tail(g)) = Len(es) /\ Len(es) + 1 - 1 = Len(es) /\ Len(g) - 1 = Len(es)
      BY <1>1, <1>5, <3>3
    <3>6. \A k \in 1 .. Len(es) + 1 - 1 : ns[k] = g[k + 1] BY <3>1, <3>3, <3>5
    <3>7. /\ ns \in Seq(Event) /\ Len(ns) = Len(es) + 1 - 1 /\ Len(ns) <= MaxEvents /\ Len(ns) > 0
      BY <1>4, <3>1, <3>3, <3>4, <3>5
    <3>8. QED BY <3>6, <3>7
  <2>2. CASE ~(Len(g) > MaxEvents)
    <3>1. ns = g BY <2>2
    <3> HIDE DEF ns
    <3>2. \A k \in 1 .. Len(es) + 1 - 0 : ns[k] = g[k + 0] BY <1>1, <3>1
    <3>3. QED BY <1>1, <1>4, <1>5, <2>2, <3>1, <3>2
  <2>3. QED BY <2>1, <2>2
<1> HIDE DEF ns
<1>7. nn \in Nat BY <1>1
<1>8. /\ new \in Job /\ new.next = nn /\ new.events = ns /\ new.finished = job.finished
  BY <1>6, <1>7 DEF Job
<1> HIDE DEF new
<1>9. \A k \in 1 .. Len(ns) :
        \/ k = Len(ns) /\ ns[k] = e
        \/ k < Len(ns) /\ k + d \in 1 .. Len(es) /\ ns[k] = es[k + d]
  <2> SUFFICES ASSUME NEW k \in 1 .. Len(ns)
               PROVE  \/ k = Len(ns) /\ ns[k] = e
                      \/ k < Len(ns) /\ k + d \in 1 .. Len(es) /\ ns[k] = es[k + d]
    OBVIOUS
  <2>1. ns[k] = g[k + d] /\ d \in Nat /\ k \in Nat /\ k >= 1 /\ k <= Len(es) + 1 - d
    BY <1>1, <1>6
  <2>2. CASE k = Len(ns)
    <3>1. k + d = Len(es) + 1 BY <1>1, <1>6, <2>1, <2>2
    <3>2. QED BY <1>5, <2>1, <2>2, <3>1
  <2>3. CASE k # Len(ns)
    <3>1. k < Len(ns) /\ k + d \in 1 .. Len(es) BY <1>1, <1>6, <2>1, <2>3
    <3>2. QED BY <1>5, <2>1, <3>1
  <2>4. QED BY <2>2, <2>3
<1>10. \A k \in 1 .. Len(ns) : ns[k].seq = nn - Len(ns) + k - 1
  <2> SUFFICES ASSUME NEW k \in 1 .. Len(ns) PROVE ns[k].seq = nn - Len(ns) + k - 1
    OBVIOUS
  <2>0. d \in Nat /\ Len(ns) = Len(es) + 1 - d /\ k \in Nat BY <1>1, <1>6
  <2>1. CASE k = Len(ns) /\ ns[k] = e BY <1>1, <1>3, <2>0, <2>1
  <2>2. CASE k + d \in 1 .. Len(es) /\ ns[k] = es[k + d]
    <3>1. es[k + d].seq = job.next - Len(es) + (k + d) - 1 BY <1>4, <2>2
    <3>2. QED BY <1>1, <2>0, <2>2, <3>1
  <2>3. QED BY <1>9, <2>1, <2>2
<1>11. \A k \in 1 .. Len(ns) - 1 : ns[k].kind = "progress"
  <2> SUFFICES ASSUME NEW k \in 1 .. Len(ns) - 1 PROVE ns[k].kind = "progress"
    OBVIOUS
  <2>1. k \in 1 .. Len(ns) /\ k # Len(ns) BY <1>6
  <2>2. k + d \in 1 .. Len(es) /\ ns[k] = es[k + d] BY <1>9, <2>1
  <2>3. QED BY <1>4, <2>2
<1>12. Len(ns) <= nn BY <1>1, <1>4, <1>6
<1>13. IsLog(new) BY <1>1, <1>6, <1>8, <1>10, <1>11, <1>12 DEF IsLog
<1>14. LastKind(new) = kind
  <2>1. Len(ns) \in 1 .. Len(ns) BY <1>6
  <2>2. ns[Len(ns)] = e BY <1>9, <2>1
  <2>3. QED BY <1>3, <1>8, <2>2 DEF LastKind
<1>15. \A k \in DOMAIN new.events :
          \/ new.events[k].seq = job.next
          \/ \E i \in DOMAIN job.events : job.events[i].seq = new.events[k].seq
  <2>1. DOMAIN ns = 1 .. Len(ns) BY <1>6
  <2>2. \A k \in 1 .. Len(ns) : ns[k].seq = job.next \/ \E i \in 1 .. Len(es) : ns[k] = es[i]
    BY <1>3, <1>9
  <2>3. QED BY <1>1, <1>8, <2>1, <2>2 DEF es
<1>16. QED BY <1>2, <1>8, <1>13, <1>14, <1>15

-----------------------------------------------------------------------------
\* What the log says of the fetch, and the fetch of the log.
Agree(job, at, age) ==
    /\ at \notin {"finishing", "ended"} => age = None
    /\ job # None =>
         /\ IsLog(job)
         /\ at # "none"
         /\ job.finished <=> at = "ended"
         /\ at \notin {"finishing", "ended"} /\ job.next > 0 => LastKind(job) = "progress"
         /\ at \in {"finishing", "ended"} =>
              job.next > 0 /\ LastKind(job) = IF age = None THEN "error" ELSE "done"

\* What the page has handled: in order, all of it before the cursor, and all
\* that is before the cursor and still in the log.
Reads(pg, job) ==
    /\ InOrder(pg.got)
    /\ \A n \in DOMAIN pg.got : pg.got[n] < pg.since
    /\ job # None =>
         /\ pg.since <= job.next
         /\ \A k \in DOMAIN job.events : job.events[k].seq < pg.since =>
              \E n \in DOMAIN pg.got : pg.got[n] = job.events[k].seq
         /\ pg.since = job.next /\ job.next > 0 => pg.last = LastKind(job)

\* The outcome the page has come to is that of the thread.
Verdict(pg, at, age) ==
    /\ pg.at = "opened" => age # None /\ at = "ended"
    /\ pg.at = "unfinished" => age = None /\ at = "ended"

\* All that is said of a page, its job, its thread and its link.
Good(pg, job, at, age) ==
    /\ pg \in PageState /\ job \in Job \cup {None}
    /\ at \in ThreadState /\ age \in (0 .. ViewTtl) \cup {None}
    /\ Agree(job, at, age) /\ Reads(pg, job) /\ Verdict(pg, at, age)
    /\ pg.at = "idle" => job = None /\ at = "none" /\ pg = Waiting

\* A job that is forgotten.
LEMMA GoodForgotten ==
    ASSUME NEW pg, NEW job, NEW at, NEW age, Good(pg, job, at, age)
    PROVE  Good(pg, None, at, age)
BY DEF Good, Agree, Reads, Verdict

\* A job like another: the same log, with the mark of a thread that has ended.
LEMMA GoodAlike ==
    ASSUME NEW pg, NEW job, NEW at, NEW age, Good(pg, job, at, age), job # None,
           NEW new \in Job, NEW at2 \in ThreadState, NEW age2 \in (0 .. ViewTtl) \cup {None},
           new.events = job.events, new.next = job.next,
           \/ new.finished = job.finished /\ at2 = at
           \/ new.finished /\ at = "finishing" /\ at2 = "ended"
           \/ ~job.finished /\ new.finished = job.finished /\ at = "running" /\ at2 = "panicked",
           age2 = None <=> age = None
    PROVE  Good(pg, new, at2, age2)
<1>1. pg \in PageState /\ job \in Job /\ new # None /\ pg.at # "idle"
  BY JobIs DEF Good
<1>2. IsLog(new) /\ LastKind(new) = LastKind(job)
  BY <1>1 DEF Good, Agree, IsLog, LastKind
<1>3. new.finished \in BOOLEAN /\ job.finished \in BOOLEAN BY <1>1, JobIs
<1>4. Agree(new, at2, age2) BY <1>1, <1>2, <1>3 DEF Good, Agree
<1>5. Reads(pg, new) BY <1>1, <1>2 DEF Good, Reads
<1>6. Verdict(pg, at2, age2) BY DEF Good, Verdict
<1>7. QED BY <1>1, <1>4, <1>5, <1>6 DEF Good

\* The thread of a job that is forgotten goes on.
LEMMA GoodOrphan ==
    ASSUME NEW pg, NEW at, NEW age, Good(pg, None, at, age),
           NEW at2 \in ThreadState, NEW age2 \in (0 .. ViewTtl) \cup {None},
           \/ at = "running" /\ at2 \in {"finishing", "panicked"}
           \/ at = "finishing" /\ at2 = "ended" /\ age2 = age
           \/ at2 = at /\ (age2 = None <=> age = None),
           at2 \notin {"finishing", "ended"} => age2 = None
    PROVE  Good(pg, None, at2, age2)
BY DEF Good, Agree, Reads, Verdict

\* An event is pushed: progress by a thread that runs, or the outcome.
LEMMA GoodPushed ==
    ASSUME NEW pg, NEW job \in Job, NEW age, Good(pg, job, "running", age),
           NEW kind \in Kind, NEW at2, NEW age2 \in (0 .. ViewTtl) \cup {None},
           \/ kind = "progress" /\ at2 = "running" /\ age2 = None
           \/ kind = "done" /\ at2 = "finishing" /\ age2 # None
           \/ kind = "error" /\ at2 = "finishing" /\ age2 = None
    PROVE  Good(pg, Pushed(job, kind), at2, age2)
<1> DEFINE new == Pushed(job, kind)
<1>1. /\ pg \in PageState /\ job # None /\ job.next \in Nat /\ pg.at # "idle" /\ at2 \in ThreadState
      /\ job.finished \in BOOLEAN
  BY JobIs DEF Good, ThreadState
<1>2. /\ IsLog(job) /\ ~job.finished /\ (job.next > 0 => LastKind(job) = "progress") /\ age = None
  BY <1>1 DEF Good, Agree
<1>3. /\ new \in Job /\ IsLog(new) /\ new.next = job.next + 1 /\ LastKind(new) = kind
      /\ new.finished = job.finished
      /\ \A k \in DOMAIN new.events :
            \/ new.events[k].seq = job.next
            \/ \E i \in DOMAIN job.events : job.events[i].seq = new.events[k].seq
  BY <1>2, PushedIs
<1> HIDE DEF new
<1>4. new # None BY <1>3, JobIs
<1>5. pg.since <= job.next /\ pg.since \in Nat BY <1>1 DEF Good, Reads, PageState
<1>6. Agree(new, at2, age2) BY <1>1, <1>2, <1>3, <1>4 DEF Agree
<1>7. \A k \in DOMAIN new.events : new.events[k].seq < pg.since =>
          \E n \in DOMAIN pg.got : pg.got[n] = new.events[k].seq
  <2> SUFFICES ASSUME NEW k \in DOMAIN new.events, new.events[k].seq < pg.since
               PROVE  \E n \in DOMAIN pg.got : pg.got[n] = new.events[k].seq
    OBVIOUS
  <2>1. new.events[k].seq # job.next BY <1>1, <1>5
  <2>2. PICK i \in DOMAIN job.events : job.events[i].seq = new.events[k].seq BY <1>3, <2>1
  <2>3. QED BY <1>1, <2>2 DEF Good, Reads
<1>8. Reads(pg, new)
  <2>1. pg.since <= new.next /\ pg.since # new.next BY <1>1, <1>3, <1>5
  <2>2. QED BY <1>7, <2>1 DEF Good, Reads
<1>9. Verdict(pg, at2, age2) BY DEF Good, Verdict
<1>10. QED BY <1>1, <1>3, <1>6, <1>8, <1>9 DEF Good, new

\* The fetch starts.
LEMMA GoodStart ==
    ASSUME NEW pg, NEW job, NEW at, NEW age, Good(pg, job, at, age), pg.at = "idle"
    PROVE  Good([pg EXCEPT !.at = "polling"], NewJob, "running", age)
<1>1. pg = Waiting /\ age = None /\ at = "none" BY DEF Good, Agree
<1> DEFINE q == [pg EXCEPT !.at = "polling"]
<1>2. /\ q \in PageState /\ q.at = "polling" /\ q.since = 0 /\ q.got = << >> /\ q.last = None
  BY <1>1 DEF Good, PageState, Waiting
<1> HIDE DEF q
<1>3. /\ NewJob \in Job /\ NewJob.events = << >> /\ NewJob.next = 0 /\ NewJob.finished = FALSE
  <2>1. << >> \in Seq(Event) /\ 0 \in 0 .. Retain BY TimesAssumption
  <2>2. QED BY <2>1 DEF NewJob, Job
<1>4. NewJob # None BY <1>3, JobIs
<1>5. IsLog(NewJob) BY <1>3, MaxEventsAssumption DEF IsLog
<1>6. Agree(NewJob, "running", age) BY <1>1, <1>3, <1>5 DEF Agree
<1>7. Reads(q, NewJob) BY <1>2, <1>3 DEF Reads, InOrder
<1>8. Verdict(q, "running", age) BY <1>2 DEF Verdict
<1>9. "running" \in ThreadState BY DEF ThreadState
<1>10. QED BY <1>2, <1>3, <1>6, <1>7, <1>8, <1>9 DEF Good, q

\* The page gives up on a job, or is gone.
LEMMA GoodGivesUp ==
    ASSUME NEW pg, NEW job, NEW at, NEW age, Good(pg, job, at, age),
           NEW s \in {"lost", "gone"}
    PROVE  Good([pg EXCEPT !.at = s], job, at, age)
<1> DEFINE q == [pg EXCEPT !.at = s]
<1>1. /\ q \in PageState /\ q.at = s /\ q.since = pg.since /\ q.got = pg.got /\ q.last = pg.last
  BY DEF Good, PageState
<1> HIDE DEF q
<1>2. Reads(q, job) BY <1>1 DEF Good, Reads, InOrder
<1>3. Verdict(q, at, age) BY <1>1 DEF Verdict
<1>4. QED BY <1>1, <1>2, <1>3 DEF Good, q

\* A list of numbers in order goes on with numbers that follow it.
LEMMA OrderGrows ==
    ASSUME NEW got \in Seq(Nat), NEW more \in Seq(Nat), InOrder(got),
           NEW since \in Nat, NEW next \in Nat,
           \A n \in DOMAIN got : got[n] < since, since <= next,
           \A n \in DOMAIN more : more[n] >= since /\ more[n] < next,
           \A n \in DOMAIN more : n > 1 => more[n - 1] < more[n]
    PROVE  /\ got \o more \in Seq(Nat) /\ InOrder(got \o more)
           /\ \A n \in DOMAIN (got \o more) : (got \o more)[n] < next
           /\ \A n \in DOMAIN got : \E k \in DOMAIN (got \o more) : (got \o more)[k] = got[n]
           /\ \A n \in DOMAIN more : \E k \in DOMAIN (got \o more) : (got \o more)[k] = more[n]
<1> DEFINE all == got \o more
           a == Len(got)
           b == Len(more)
<1>1. /\ a \in Nat /\ b \in Nat /\ DOMAIN got = 1 .. a /\ DOMAIN more = 1 .. b
      /\ \A n \in 1 .. a : got[n] \in Nat
      /\ \A n \in 1 .. b : more[n] \in Nat
  OBVIOUS
<1>2. /\ all \in Seq(Nat) /\ Len(all) = a + b /\ DOMAIN all = 1 .. a + b
      /\ \A n \in 1 .. a + b : all[n] = IF n <= a THEN got[n] ELSE more[n - a]
  OBVIOUS
<1> HIDE DEF all, a, b
<1>3. \A n \in 1 .. a + b :
        \/ n \in 1 .. a /\ all[n] = got[n]
        \/ n > a /\ n - a \in 1 .. b /\ all[n] = more[n - a]
  <2> SUFFICES ASSUME NEW n \in 1 .. a + b
               PROVE  \/ n \in 1 .. a /\ all[n] = got[n]
                      \/ n > a /\ n - a \in 1 .. b /\ all[n] = more[n - a]
    OBVIOUS
  <2>1. CASE n <= a BY <1>1, <1>2, <2>1
  <2>2. CASE ~(n <= a)
    <3>1. n > a /\ n - a \in 1 .. b BY <1>1, <2>2
    <3>2. QED BY <1>2, <2>2, <3>1
  <2>3. QED BY <2>1, <2>2
<1>4. \A n \in 1 .. a + b : all[n] < next
  <2> TAKE n \in 1 .. a + b
  <2>1. CASE n \in 1 .. a /\ all[n] = got[n]
    <3>1. got[n] < since /\ got[n] \in Nat BY <1>1, <2>1
    <3>2. QED BY <2>1, <3>1
  <2>2. CASE n - a \in 1 .. b /\ all[n] = more[n - a]
    <3>1. more[n - a] < next BY <1>1, <2>2
    <3>2. QED BY <2>2, <3>1
  <2>3. QED BY <1>3, <2>1, <2>2
<1>5. ASSUME NEW n \in 1 .. a + b, n > 1 PROVE all[n - 1] < all[n]
  <2>1. n - 1 \in 1 .. a + b BY <1>1, <1>5
  <2>2. CASE n \in 1 .. a /\ all[n] = got[n]
    <3>1. n - 1 \in 1 .. a BY <1>1, <1>5, <2>2
    <3>2. all[n - 1] = got[n - 1] BY <1>1, <1>3, <2>1, <3>1
    <3>3. got[n - 1] < got[n] BY <1>1, <1>5, <2>2 DEF InOrder
    <3>4. QED BY <2>2, <3>2, <3>3
  <2>3. CASE n > a /\ n - a \in 1 .. b /\ all[n] = more[n - a]
    <3>1. CASE n - 1 <= a
      <4>1. n - 1 \in 1 .. a BY <1>1, <1>5, <3>1
      <4>2. all[n - 1] = got[n - 1] BY <1>1, <1>3, <2>1, <4>1
      <4>3. got[n - 1] < since /\ more[n - a] >= since /\ got[n - 1] \in Nat /\ more[n - a] \in Nat
        BY <1>1, <2>3, <4>1
      <4>4. QED BY <2>3, <4>2, <4>3
    <3>2. CASE n - 1 > a
      <4>1. (n - a) - 1 = (n - 1) - a /\ n - a > 1 /\ n - 1 \notin 1 .. a BY <1>1, <1>5, <3>2
      <4>2. all[n - 1] = more[(n - 1) - a] BY <1>3, <2>1, <4>1
      <4>3. more[(n - a) - 1] < more[n - a] BY <1>1, <2>3, <4>1
      <4>4. QED BY <2>3, <4>1, <4>2, <4>3
    <3>3. QED BY <1>1, <1>5, <3>1, <3>2
  <2>4. QED BY <1>3, <2>2, <2>3
<1>6. InOrder(all) BY <1>2, <1>5 DEF InOrder
<1>7. \A n \in 1 .. a : n \in 1 .. a + b /\ all[n] = got[n] BY <1>1, <1>2
<1>8. \A n \in 1 .. b : a + n \in 1 .. a + b /\ all[a + n] = more[n]
  <2> TAKE n \in 1 .. b
  <2>1. a + n \in 1 .. a + b /\ ~(a + n <= a) /\ (a + n) - a = n BY <1>1
  <2>2. QED BY <1>2, <2>1
<1>9. QED BY <1>1, <1>2, <1>4, <1>6, <1>7, <1>8 DEF all

\* What a poll is given: numbers in order, up to the next one.
LEMMA NewIs ==
    ASSUME NEW job \in Job, IsLog(job), NEW since \in Nat, since <= job.next
    PROVE  LET new == Handled(Unseen(job, since))
           IN  /\ new \in Seq(Event) /\ SeqNumbers(new) \in Seq(Nat)
               /\ Len(SeqNumbers(new)) = Len(new)
               /\ \A n \in DOMAIN SeqNumbers(new) :
                     /\ SeqNumbers(new)[n] >= since /\ SeqNumbers(new)[n] < job.next
                     /\ n > 1 => SeqNumbers(new)[n - 1] < SeqNumbers(new)[n]
               /\ \A k \in DOMAIN job.events : job.events[k].seq >= since =>
                     \E n \in DOMAIN SeqNumbers(new) : SeqNumbers(new)[n] = job.events[k].seq
               /\ new # << >> => new[Len(new)].kind = LastKind(job) /\ job.next > 0
               /\ new = << >> => since = job.next \/ job.next = 0
<1> DEFINE es == job.events
           w == Len(es)
           u == Unseen(job, since)
<1>1. /\ es \in Seq(Event) /\ job.next \in Nat /\ w \in Nat /\ DOMAIN es = 1 .. w
      /\ \A k \in 1 .. w : es[k] \in Event
  BY JobIs
<1>2. PICK d \in 0 .. w :
        /\ u \in Seq(Event) /\ Len(u) = w - d
        /\ \A k \in 1 .. w - d : u[k] = es[d + k]
        /\ \A k \in 1 .. w : k <= d <=> es[k].seq < since
  BY UnseenIs
<1>3. /\ w <= job.next /\ (job.next > 0 => w > 0)
      /\ \A k \in 1 .. w : es[k].seq = job.next - w + k - 1
      /\ \A k \in 1 .. w - 1 : es[k].kind = "progress"
  BY DEF IsLog
<1>4. LastKind(job) = es[w].kind BY DEF LastKind
<1> HIDE DEF u, es, w
<1>5. \A k \in 1 .. w : es[k].seq \in Nat BY <1>1 DEF Event
<1>6. \A k \in 1 .. Len(u) : d + k \in 1 .. w /\ u[k] = es[d + k] BY <1>1, <1>2
<1>7. \A k \in 1 .. Len(u) - 1 : u[k].kind = "progress"
  <2> TAKE k \in 1 .. Len(u) - 1
  <2>1. k \in 1 .. Len(u) /\ d + k \in 1 .. w - 1 BY <1>1, <1>2
  <2>2. QED BY <1>3, <1>6, <2>1
<1>8. Handled(u) = u BY <1>2, <1>7, HandledIs
<1> DEFINE v == SeqNumbers(u)
<1>9. Len(u) \in Nat /\ DOMAIN u = 1 .. Len(u) BY <1>2
<1>10. v = [k \in 1 .. Len(u) |-> u[k].seq] BY <1>9 DEF SeqNumbers
<1>11. \A k \in 1 .. Len(u) : u[k].seq \in Nat BY <1>5, <1>6
<1> HIDE DEF v
<1>12. v \in Seq(Nat) /\ Len(v) = Len(u) /\ DOMAIN v = 1 .. Len(u) BY <1>9, <1>10, <1>11
<1>13. \A n \in 1 .. Len(u) : v[n] = es[d + n].seq /\ d + n \in 1 .. w BY <1>6, <1>10
<1>14. \A n \in 1 .. Len(u) : v[n] >= since
  <2> TAKE n \in 1 .. Len(u)
  <2>1. d + n \in 1 .. w /\ ~(d + n <= d) BY <1>1, <1>13
  <2>2. ~(es[d + n].seq < since) BY <1>2, <2>1
  <2>3. QED BY <1>5, <1>13, <2>1, <2>2
<1>15. \A n \in 1 .. Len(u) : v[n] < job.next BY <1>1, <1>3, <1>13
<1>16. \A n \in 1 .. Len(u) : n > 1 => v[n - 1] < v[n]
  <2> SUFFICES ASSUME NEW n \in 1 .. Len(u), n > 1 PROVE v[n - 1] < v[n]
    OBVIOUS
  <2>1. n - 1 \in 1 .. Len(u) /\ d + (n - 1) = (d + n) - 1 BY <1>1, <1>9
  <2>2. v[n - 1] = es[d + (n - 1)].seq /\ d + (n - 1) \in 1 .. w /\ d + n \in 1 .. w BY <1>13, <2>1
  <2>3. /\ es[d + (n - 1)].seq = job.next - w + (d + (n - 1)) - 1
        /\ es[d + n].seq = job.next - w + (d + n) - 1
    BY <1>3, <2>2
  <2>4. v[n] = es[d + n].seq BY <1>13
  <2>5. QED BY <1>1, <2>1, <2>2, <2>3, <2>4
<1>17. ASSUME NEW k \in 1 .. w, es[k].seq >= since
       PROVE  \E n \in 1 .. Len(u) : v[n] = es[k].seq
  <2>1. ~(k <= d)
    <3>1. es[k].seq \in Nat BY <1>5
    <3>2. ~(es[k].seq < since) BY <1>17, <3>1
    <3>3. QED BY <1>2, <3>2
  <2>2. k - d \in 1 .. Len(u) /\ d + (k - d) = k BY <1>1, <1>2, <2>1
  <2>3. v[k - d] = es[k].seq BY <1>13, <2>2
  <2>4. QED BY <2>2, <2>3
<1>18. u # << >> => u[Len(u)].kind = LastKind(job) /\ job.next > 0
  <2> SUFFICES ASSUME u # << >> PROVE u[Len(u)].kind = LastKind(job) /\ job.next > 0
    OBVIOUS
  <2>1. Len(u) > 0 BY <1>2, <1>9
  <2>2. Len(u) \in 1 .. Len(u) /\ Len(u) \in 1 .. w - d /\ d + Len(u) = w BY <1>1, <1>2, <1>9, <2>1
  <2>3. u[Len(u)] = es[w] BY <1>2, <2>2
  <2>4. job.next > 0 BY <1>1, <1>2, <1>3, <2>1
  <2>5. QED BY <1>4, <2>3, <2>4
<1>19. u = << >> => since = job.next \/ job.next = 0
  <2> SUFFICES ASSUME u = << >>, job.next > 0 PROVE since = job.next
    BY <1>1
  <2>1. d = w /\ w \in 1 .. w
    <3>1. Len(u) = 0 OBVIOUS
    <3>2. QED BY <1>1, <1>2, <1>3, <3>1
  <2>2. es[w].seq < since BY <1>2, <2>1
  <2>3. es[w].seq = job.next - w + w - 1 BY <1>3, <2>1
  <2>4. QED BY <1>1, <2>2, <2>3
<1>20. QED
  BY <1>1, <1>2, <1>8, <1>12, <1>14, <1>15, <1>16, <1>17, <1>18, <1>19 DEF u, v, es

\* The page handles an answer.
LEMMA GoodPolled ==
    ASSUME NEW pg, NEW job \in Job, NEW at, NEW age, Good(pg, job, at, age), pg.at = "polling",
           NEW new, new = Handled(Unseen(job, pg.since)),
           NEW last, last = IF new = << >> THEN pg.last ELSE new[Len(new)].kind
    PROVE  Good([pg EXCEPT !.since = job.next,
                           !.last  = last,
                           !.got   = @ \o SeqNumbers(new),
                           !.at    = IF job.finished THEN Outcome(last) ELSE @], job, at, age)
<1> DEFINE got == pg.got \o SeqNumbers(new)
           s == IF job.finished THEN Outcome(last) ELSE pg.at
           q == [pg EXCEPT !.since = job.next, !.last = last, !.got = got, !.at = s]
<1>0. /\ job.next \in Nat /\ job # None /\ job.finished \in BOOLEAN
      /\ job.events \in Seq(Event) /\ DOMAIN job.events = 1 .. Len(job.events)
      /\ \A k \in DOMAIN job.events : job.events[k] \in Event
  BY JobIs
<1>1. /\ pg.since \in Nat /\ pg.got \in Seq(Nat) /\ pg.last \in Kind \cup {None} /\ pg \in PageState
      /\ IsLog(job) /\ pg.since <= job.next /\ InOrder(pg.got)
      /\ \A n \in DOMAIN pg.got : pg.got[n] < pg.since
      /\ \A k \in DOMAIN job.events : job.events[k].seq < pg.since =>
              \E n \in DOMAIN pg.got : pg.got[n] = job.events[k].seq
      /\ pg.since = job.next /\ job.next > 0 => pg.last = LastKind(job)
  BY <1>0 DEF Good, Agree, Reads, PageState
<1> DEFINE v == SeqNumbers(new)
<1>2. /\ new \in Seq(Event) /\ v \in Seq(Nat) /\ Len(v) = Len(new)
      /\ \A n \in DOMAIN v :
            /\ v[n] >= pg.since /\ v[n] < job.next
            /\ n > 1 => v[n - 1] < v[n]
      /\ \A k \in DOMAIN job.events : job.events[k].seq >= pg.since =>
            \E n \in DOMAIN v : v[n] = job.events[k].seq
      /\ new # << >> => new[Len(new)].kind = LastKind(job) /\ job.next > 0
      /\ new = << >> => pg.since = job.next \/ job.next = 0
  BY <1>1, NewIs
<1> HIDE DEF v
<1>3. /\ got \in Seq(Nat) /\ InOrder(got)
      /\ \A n \in DOMAIN got : got[n] < job.next
      /\ \A n \in DOMAIN pg.got : \E k \in DOMAIN got : got[k] = pg.got[n]
      /\ \A n \in DOMAIN v : \E k \in DOMAIN got : got[k] = v[n]
  <2>1. /\ \A n \in DOMAIN v : v[n] >= pg.since /\ v[n] < job.next
        /\ \A n \in DOMAIN v : n > 1 => v[n - 1] < v[n]
    BY <1>2
  <2>2. got = pg.got \o v BY DEF v
  <2> HIDE DEF got
  <2>3. /\ pg.got \o v \in Seq(Nat) /\ InOrder(pg.got \o v)
        /\ \A n \in DOMAIN (pg.got \o v) : (pg.got \o v)[n] < job.next
        /\ \A n \in DOMAIN pg.got : \E k \in DOMAIN (pg.got \o v) : (pg.got \o v)[k] = pg.got[n]
        /\ \A n \in DOMAIN v : \E k \in DOMAIN (pg.got \o v) : (pg.got \o v)[k] = v[n]
    BY <1>0, <1>1, <1>2, <2>1, OrderGrows, ZenonT(30)
  <2>4. QED BY <2>2, <2>3
<1>4. last \in Kind \cup {None}
  <2>1. CASE new = << >> BY <1>1, <2>1
  <2>2. CASE new # << >>
    <3>1. Len(new) \in 1 .. Len(new) BY <1>2, <2>2
    <3>2. new[Len(new)] \in Event BY <1>2, <3>1
    <3>3. QED BY <2>2, <3>2 DEF Event
  <2>3. QED BY <2>1, <2>2
<1>5. job.next > 0 => last = LastKind(job)
  BY <1>1, <1>2
<1> HIDE DEF got
<1>6. s \in {"polling", "opened", "unfinished"}
      /\ (s # "polling" => job.finished /\ s = Outcome(last))
  BY DEF Outcome
<1> HIDE DEF s
<1>7. /\ q \in PageState /\ q.since = job.next /\ q.last = last /\ q.got = got /\ q.at = s
  BY <1>0, <1>1, <1>3, <1>4, <1>6 DEF PageState
<1> HIDE DEF q
<1>8. \A k \in DOMAIN job.events : \E n \in DOMAIN got : got[n] = job.events[k].seq
  <2> SUFFICES ASSUME NEW k \in DOMAIN job.events
               PROVE  \E n \in DOMAIN got : got[n] = job.events[k].seq
    OBVIOUS
  <2>1. job.events[k].seq \in Nat BY <1>0 DEF Event
  <2>2. CASE job.events[k].seq < pg.since BY <1>1, <1>3, <2>2
  <2>3. CASE ~(job.events[k].seq < pg.since)
    <3>1. job.events[k].seq >= pg.since BY <1>1, <2>1, <2>3
    <3>2. QED BY <1>2, <1>3, <3>1
  <2>4. QED BY <2>2, <2>3
<1>9. Reads(q, job)
  <2>1. q.since <= job.next BY <1>0, <1>7
  <2>2. QED BY <1>3, <1>5, <1>7, <1>8, <2>1 DEF Reads
<1>10. Verdict(q, at, age)
  <2> SUFFICES ASSUME s # "polling" PROVE Verdict(q, at, age)
    BY <1>6, <1>7 DEF Verdict
  <2>1. at = "ended" /\ job.next > 0 /\ LastKind(job) = IF age = None THEN "error" ELSE "done"
    BY <1>0, <1>6 DEF Good, Agree
  <2>2. s = IF age = None THEN "unfinished" ELSE "opened" BY <1>5, <1>6, <2>1 DEF Outcome
  <2>3. QED BY <1>7, <2>1, <2>2 DEF Verdict
<1>11. q.at # "idle" BY <1>6, <1>7
<1>12. Good(q, job, at, age) BY <1>0, <1>7, <1>9, <1>10, <1>11 DEF Good
<1>13. QED BY <1>12 DEF q, got, s

-----------------------------------------------------------------------------
\* The inductive invariant: what is said of each page, its job and its thread.
WebInv ==
    /\ jobs \in [Pages -> Job \cup {None}]
    /\ thread \in [Pages -> ThreadState]
    /\ link \in [Pages -> (0 .. ViewTtl) \cup {None}]
    /\ page \in [Pages -> PageState]
    /\ \A p \in Pages : Good(page[p], jobs[p], thread[p], link[p])

\* It says what the runs check.
LEMMA WebInvSays ==
    WebInv => TypeOK /\ EachEventOnce /\ VerdictIsTrue
<1> SUFFICES ASSUME WebInv PROVE TypeOK /\ EachEventOnce /\ VerdictIsTrue
  OBVIOUS
<1>1. TypeOK BY DEF WebInv, TypeOK, Good, Agree, IsLog
<1>2. EachEventOnce BY DEF WebInv, EachEventOnce, Good, Reads
<1>3. VerdictIsTrue BY DEF WebInv, VerdictIsTrue, Good, Verdict
<1>4. QED BY <1>1, <1>2, <1>3

\* Nothing has started.
LEMMA WebStarts == Init => WebInv
<1> SUFFICES ASSUME Init PROVE WebInv
  OBVIOUS
<1>1. Waiting \in PageState /\ Waiting.got = << >> /\ Waiting.at = "idle"
  <2>1. << >> \in Seq(Nat) OBVIOUS
  <2>2. QED BY <2>1 DEF Waiting, PageState
<1>2. "none" \in ThreadState BY DEF ThreadState
<1>3. Good(Waiting, None, "none", None)
  <2>1. Agree(None, "none", None) BY DEF Agree
  <2>2. Reads(Waiting, None) BY <1>1 DEF Reads, InOrder
  <2>3. Verdict(Waiting, "none", None) BY <1>1 DEF Verdict
  <2>4. QED BY <1>1, <1>2, <2>1, <2>2, <2>3 DEF Good
<1>4. QED BY <1>1, <1>2, <1>3 DEF Init, WebInv

\* The jobs that are left when the expired ones are gone.
LEMMA PrunedIs ==
    ASSUME WebInv
    PROVE  /\ Pruned \in [Pages -> Job \cup {None}]
           /\ \A q \in Pages : Good(page[q], Pruned[q], thread[q], link[q])
<1>1. \A q \in Pages : Pruned[q] = None \/ Pruned[q] = jobs[q] BY DEF Pruned
<1>2. \A q \in Pages : Good(page[q], jobs[q], thread[q], link[q]) BY DEF WebInv
<1>3. \A q \in Pages : Good(page[q], Pruned[q], thread[q], link[q])
  <2> TAKE q \in Pages
  <2>1. Good(page[q], jobs[q], thread[q], link[q]) BY <1>2
  <2>2. Good(page[q], None, thread[q], link[q]) BY <2>1, GoodForgotten
  <2>3. QED BY <1>1, <2>1, <2>2
<1>4. Pruned \in [Pages -> Job \cup {None}] BY DEF Pruned, WebInv
<1>5. QED BY <1>3, <1>4

\* A step of one page, its job and its thread.
LEMMA OnePage ==
    ASSUME WebInv, NEW p \in Pages,
           NEW js \in [Pages -> Job \cup {None}],
           \A q \in Pages : Good(page[q], js[q], thread[q], link[q]),
           NEW pg, NEW job, NEW at, NEW age, Good(pg, job, at, age),
           jobs' = [js EXCEPT ![p] = job], thread' = [thread EXCEPT ![p] = at],
           link' = [link EXCEPT ![p] = age], page' = [page EXCEPT ![p] = pg]
    PROVE  WebInv'
<1>1. /\ pg \in PageState /\ job \in Job \cup {None}
      /\ at \in ThreadState /\ age \in (0 .. ViewTtl) \cup {None}
  BY DEF Good
<1>2. /\ jobs' \in [Pages -> Job \cup {None}] /\ thread' \in [Pages -> ThreadState]
      /\ link' \in [Pages -> (0 .. ViewTtl) \cup {None}] /\ page' \in [Pages -> PageState]
  BY <1>1 DEF WebInv
<1>3. ASSUME NEW q \in Pages PROVE Good(page'[q], jobs'[q], thread'[q], link'[q])
  <2>1. CASE q = p
    <3>1. page'[q] = pg /\ jobs'[q] = job /\ thread'[q] = at /\ link'[q] = age
      BY <2>1 DEF WebInv
    <3>2. QED BY <3>1
  <2>2. CASE q # p
    <3>1. page'[q] = page[q] /\ jobs'[q] = js[q] /\ thread'[q] = thread[q] /\ link'[q] = link[q]
      BY <2>2 DEF WebInv
    <3>2. QED BY <3>1
  <2>3. QED BY <2>1, <2>2
<1>4. \A q \in Pages : Good(page[q], jobs[q], thread[q], link[q])' BY <1>3
<1>5. QED BY <1>2, <1>4 DEF WebInv



\* What is left alone, as one page's step leaves it.
LEMMA LeftAlone ==
    ASSUME WebInv, NEW p \in Pages
    PROVE  /\ jobs = [jobs EXCEPT ![p] = jobs[p]]
           /\ thread = [thread EXCEPT ![p] = thread[p]]
           /\ link = [link EXCEPT ![p] = link[p]]
           /\ page = [page EXCEPT ![p] = page[p]]
BY DEF WebInv

\* The fetch starts.
LEMMA StartKeeps ==
    ASSUME WebInv, NEW p \in Pages, StartFetch(p)
    PROVE  WebInv'
<1>1. Good([page[p] EXCEPT !.at = "polling"], NewJob, "running", link[p])
  <2>1. Good(page[p], jobs[p], thread[p], link[p]) /\ page[p].at = "idle"
    BY DEF WebInv, StartFetch
  <2>2. QED BY <2>1, GoodStart, ZenonT(30)
<1>2. /\ jobs' = [Pruned EXCEPT ![p] = NewJob] /\ thread' = [thread EXCEPT ![p] = "running"]
      /\ link' = [link EXCEPT ![p] = link[p]]
      /\ page' = [page EXCEPT ![p] = [page[p] EXCEPT !.at = "polling"]]
  <2>1. page' = [page EXCEPT ![p].at = "polling"] /\ link' = link BY DEF StartFetch
  <2>2. QED BY <2>1, LeftAlone DEF StartFetch
<1> DEFINE pg == [page[p] EXCEPT !.at = "polling"]
<1> HIDE DEF pg
<1>3. QED BY <1>1, <1>2, PrunedIs, OnePage, ZenonT(30) DEF pg

\* An event is pushed by a thread that runs.
LEMMA PushKeeps ==
    ASSUME WebInv, NEW p \in Pages, thread[p] = "running",
           NEW kind \in Kind, NEW at, NEW age \in (0 .. ViewTtl) \cup {None},
           \/ kind = "progress" /\ at = "running" /\ age = None
           \/ kind = "done" /\ at = "finishing" /\ age # None
           \/ kind = "error" /\ at = "finishing" /\ age = None,
           jobs' = [jobs EXCEPT ![p] = Pushed(jobs[p], kind)],
           thread' = [thread EXCEPT ![p] = at],
           link' = [link EXCEPT ![p] = age], page' = page
    PROVE  WebInv'
<1>1. Good(page[p], jobs[p], "running", link[p]) BY DEF WebInv
<1>2. at \in ThreadState BY DEF ThreadState
<1>3. Good(page[p], Pushed(jobs[p], kind), at, age)
  <2>1. CASE jobs[p] = None
    <3>1. Pushed(jobs[p], kind) = None BY <2>1 DEF Pushed
    <3>2. Good(page[p], None, "running", link[p]) BY <1>1, <2>1
    <3>3. \/ at \in {"finishing", "panicked"}
          \/ at = "running" /\ (age = None <=> link[p] = None)
      BY <3>2 DEF Good, Agree
    <3>4. at \notin {"finishing", "ended"} => age = None OBVIOUS
    <3>5. Good(page[p], None, at, age) BY <1>2, <3>2, <3>3, <3>4, GoodOrphan
    <3>6. QED BY <3>1, <3>5
  <2>2. CASE jobs[p] # None
    <3>1. jobs[p] \in Job BY <2>2 DEF WebInv
    <3>2. QED BY <1>1, <3>1, GoodPushed
  <2>3. QED BY <2>1, <2>2
<1>4. page' = [page EXCEPT ![p] = page[p]] BY LeftAlone
<1>5. /\ jobs \in [Pages -> Job \cup {None}]
      /\ \A q \in Pages : Good(page[q], jobs[q], thread[q], link[q])
  BY DEF WebInv
<1> DEFINE new == Pushed(jobs[p], kind)
<1>6. Good(page[p], new, at, age) /\ jobs' = [jobs EXCEPT ![p] = new] BY <1>3
<1> HIDE DEF new
<1>7. QED BY <1>4, <1>5, <1>6, OnePage, ZenonT(30)

\* The thread reports progress.
LEMMA ReportKeeps ==
    ASSUME WebInv, NEW p \in Pages, Report(p)
    PROVE  WebInv'
<1>1. Good(page[p], jobs[p], "running", link[p]) BY DEF WebInv, Report
<1>2. link[p] = None BY <1>1 DEF Good, Agree
<1>3. /\ thread[p] = "running" /\ "progress" \in Kind /\ None \in (0 .. ViewTtl) \cup {None}
      /\ jobs' = [jobs EXCEPT ![p] = Pushed(jobs[p], "progress")]
      /\ thread' = [thread EXCEPT ![p] = "running"]
      /\ link' = [link EXCEPT ![p] = None] /\ page' = page
  BY <1>2, LeftAlone DEF Report, Kind
<1>4. QED BY <1>3, PushKeeps

\* The thread publishes, and pushes that it did.
LEMMA PushDoneKeeps ==
    ASSUME WebInv, NEW p \in Pages, PushDone(p)
    PROVE  WebInv'
<1>1. 0 \in (0 .. ViewTtl) \cup {None} /\ 0 # None BY TimesAssumption, NoneIsNoJob
<1>2. /\ thread[p] = "running" /\ "done" \in Kind
      /\ jobs' = [jobs EXCEPT ![p] = Pushed(jobs[p], "done")]
      /\ thread' = [thread EXCEPT ![p] = "finishing"]
      /\ link' = [link EXCEPT ![p] = 0] /\ page' = page
  BY DEF PushDone, Kind
<1>3. QED BY <1>1, <1>2, PushKeeps

\* The thread fails, and pushes that it did.
LEMMA PushErrorKeeps ==
    ASSUME WebInv, NEW p \in Pages, PushError(p)
    PROVE  WebInv'
<1>1. Good(page[p], jobs[p], "running", link[p]) BY DEF WebInv, PushError
<1>2. link[p] = None BY <1>1 DEF Good, Agree
<1>3. /\ thread[p] = "running" /\ "error" \in Kind /\ None \in (0 .. ViewTtl) \cup {None}
      /\ jobs' = [jobs EXCEPT ![p] = Pushed(jobs[p], "error")]
      /\ thread' = [thread EXCEPT ![p] = "finishing"]
      /\ link' = [link EXCEPT ![p] = None] /\ page' = page
  BY <1>2, LeftAlone DEF PushError, Kind
<1>4. QED BY <1>3, PushKeeps

\* The thread ends, in order or in a panic.
LEMMA EndKeeps ==
    ASSUME WebInv, NEW p \in Pages, Finish(p) \/ Panic(p)
    PROVE  WebInv'
<1> DEFINE at == IF thread[p] = "running" THEN "panicked" ELSE "ended"
           new == IF thread[p] = "running" THEN jobs[p] ELSE Finished(jobs[p])
<1>1. thread[p] \in {"running", "finishing"} BY DEF Finish, Panic
<1>2. /\ jobs' = [jobs EXCEPT ![p] = new] /\ thread' = [thread EXCEPT ![p] = at]
      /\ link' = [link EXCEPT ![p] = link[p]] /\ page' = [page EXCEPT ![p] = page[p]]
  <2>1. CASE Finish(p) BY <2>1, LeftAlone DEF Finish
  <2>2. CASE Panic(p) BY <2>2, LeftAlone DEF Panic
  <2>3. QED BY <2>1, <2>2
<1>3. Good(page[p], jobs[p], thread[p], link[p]) BY DEF WebInv
<1>4. at \in ThreadState /\ link[p] \in (0 .. ViewTtl) \cup {None} BY <1>3 DEF ThreadState, Good
<1>5. Good(page[p], new, at, link[p])
  <2>1. CASE jobs[p] = None
    <3>1. new = None BY <2>1 DEF Finished
    <3>2. at \notin {"finishing", "ended"} => link[p] = None BY <1>1, <1>3 DEF Good, Agree
    <3>3. Good(page[p], None, thread[p], link[p]) BY <1>3, <2>1
    <3>4. \/ thread[p] = "running" /\ at \in {"finishing", "panicked"}
          \/ thread[p] = "finishing" /\ at = "ended"
      BY <1>1
    <3> HIDE DEF at, new
    <3>5. Good(page[p], None, at, link[p])
      BY <1>4, <3>2, <3>3, <3>4, GoodOrphan, ZenonT(30)
    <3>6. QED BY <3>1, <3>5
  <2>2. CASE jobs[p] # None
    <3>1. jobs[p] \in Job BY <2>2 DEF WebInv
    <3>2. new \in Job /\ new.events = jobs[p].events /\ new.next = jobs[p].next
      <4>1. CASE thread[p] = "running" BY <3>1, <4>1
      <4>2. CASE thread[p] # "running" BY <2>2, <3>1, <4>2 DEF Finished, Job
      <4>3. QED BY <4>1, <4>2
    <3>3. CASE thread[p] = "running"
      <4>1. ~jobs[p].finished BY <1>3, <2>2, <3>3 DEF Good, Agree
      <4>2. new = jobs[p] /\ at = "panicked" BY <3>3
      <4>3. QED BY <1>3, <1>4, <2>2, <3>2, <3>3, <4>1, <4>2, GoodAlike
    <3>4. CASE thread[p] = "finishing"
      <4>1. new.finished /\ at = "ended" BY <2>2, <3>1, <3>4 DEF Finished, Job
      <4>2. QED BY <1>3, <1>4, <2>2, <3>2, <3>4, <4>1, GoodAlike
    <3>5. QED BY <1>1, <3>3, <3>4
  <2>3. QED BY <2>1, <2>2
<1> HIDE DEF new, at
<1>6. /\ jobs \in [Pages -> Job \cup {None}]
      /\ \A q \in Pages : Good(page[q], jobs[q], thread[q], link[q])
  BY DEF WebInv
<1>7. QED BY <1>2, <1>5, <1>6, OnePage, ZenonT(30)

\* The page polls.
LEMMA PollKeeps ==
    ASSUME WebInv, NEW p \in Pages, Poll(p)
    PROVE  WebInv'
<1> DEFINE job == Pruned[p]
<1>1. /\ Pruned \in [Pages -> Job \cup {None}]
      /\ \A q \in Pages : Good(page[q], Pruned[q], thread[q], link[q])
  BY PrunedIs
<1>2. /\ jobs' = [Pruned EXCEPT ![p] = job] /\ thread' = [thread EXCEPT ![p] = thread[p]]
      /\ link' = [link EXCEPT ![p] = link[p]]
  BY <1>1, LeftAlone DEF Poll
<1>3. Good(page[p], job, thread[p], link[p]) /\ page[p].at = "polling" BY <1>1 DEF Poll
<1>4. CASE job = None
  <2> DEFINE pg == [page[p] EXCEPT !.at = "lost"]
  <2>1. page' = [page EXCEPT ![p] = pg] BY <1>4 DEF Poll
  <2>2. Good(pg, job, thread[p], link[p]) BY <1>3, GoodGivesUp
  <2> HIDE DEF pg, job
  <2>3. QED BY <1>1, <1>2, <2>1, <2>2, OnePage, ZenonT(30)
<1>5. CASE job # None
  <2>1. job \in Job BY <1>1, <1>5
  <2> DEFINE new == Handled(Unseen(job, page[p].since))
             last == IF new = << >> THEN page[p].last ELSE new[Len(new)].kind
             pg == [page[p] EXCEPT !.since = job.next,
                                   !.last  = last,
                                   !.got   = @ \o SeqNumbers(new),
                                   !.at    = IF job.finished THEN Outcome(last) ELSE @]
  <2>2. page' = [page EXCEPT ![p] = pg]
    <3>1. /\ Update(p).events = Unseen(job, page[p].since) /\ Update(p).next = job.next
          /\ Update(p).done = job.finished
      BY DEF Update
    <3>2. page' = [page EXCEPT
                      ![p].since = job.next,
                      ![p].last  = last,
                      ![p].got   = @ \o SeqNumbers(new),
                      ![p].at    = IF job.finished THEN Outcome(last) ELSE @]
      BY <1>5, <3>1 DEF Poll
    <3> HIDE DEF new, last, job
    <3>3. QED BY <3>2 DEF WebInv
  <2>3. Good(pg, job, thread[p], link[p])
    BY <1>3, <2>1, GoodPolled, ZenonT(30)
  <2> HIDE DEF pg, job
  <2>4. QED BY <1>1, <1>2, <2>2, <2>3, OnePage, ZenonT(30)
<1>6. QED BY <1>4, <1>5

\* The page gives up, or goes.
LEMMA GiveUpKeeps ==
    ASSUME WebInv, NEW p \in Pages, PollFails(p) \/ Leave(p)
    PROVE  WebInv'
<1>1. PICK s \in {"lost", "gone"} : page' = [page EXCEPT ![p].at = s]
  BY DEF PollFails, Leave
<1> DEFINE pg == [page[p] EXCEPT !.at = s]
<1>2. page' = [page EXCEPT ![p] = pg] BY <1>1
<1>3. /\ jobs \in [Pages -> Job \cup {None}]
      /\ \A q \in Pages : Good(page[q], jobs[q], thread[q], link[q])
  BY DEF WebInv
<1>4. Good(pg, jobs[p], thread[p], link[p]) BY <1>3, GoodGivesUp
<1>5. /\ jobs' = [jobs EXCEPT ![p] = jobs[p]] /\ thread' = [thread EXCEPT ![p] = thread[p]]
      /\ link' = [link EXCEPT ![p] = link[p]]
  BY LeftAlone DEF PollFails, Leave
<1> HIDE DEF pg
<1>6. QED BY <1>2, <1>3, <1>4, <1>5, OnePage, ZenonT(30)

\* Time passes.
LEMMA TickKeeps ==
    ASSUME WebInv, Tick
    PROVE  WebInv'
<1>1. /\ jobs' = [p \in Pages |-> IF jobs[p] = None THEN None
                                  ELSE [jobs[p] EXCEPT !.age = Older(jobs[p].age, Retain)]]
      /\ link' = [p \in Pages |-> IF link[p] = None THEN None ELSE Older(link[p], ViewTtl)]
      /\ thread' = thread /\ page' = page
  BY DEF Tick
<1>2. ASSUME NEW q \in Pages
      PROVE  /\ Good(page[q], jobs'[q], thread[q], link'[q])
             /\ jobs'[q] \in Job \cup {None} /\ link'[q] \in (0 .. ViewTtl) \cup {None}
  <2>1. Good(page[q], jobs[q], thread[q], link[q]) BY DEF WebInv
  <2>2. /\ jobs[q] \in Job \cup {None} /\ thread[q] \in ThreadState
        /\ link[q] \in (0 .. ViewTtl) \cup {None}
    BY <2>1 DEF Good
  <2>3. link'[q] \in (0 .. ViewTtl) \cup {None} /\ (link'[q] = None <=> link[q] = None)
    <3>1. CASE link[q] = None BY <1>1, <3>1
    <3>2. CASE link[q] # None
      <4>1. link'[q] = Older(link[q], ViewTtl) BY <1>1, <3>2
      <4>2. Older(link[q], ViewTtl) \in 0 .. ViewTtl
        BY <2>2, <3>2, TimesAssumption DEF Older
      <4>3. None \notin 0 .. ViewTtl BY TimesAssumption, NoneIsNoJob
      <4>4. QED BY <3>2, <4>1, <4>2, <4>3
    <3>3. QED BY <3>1, <3>2
  <2>4. CASE jobs[q] = None
    <3>1. jobs'[q] = None BY <1>1, <2>4
    <3>2. thread[q] \notin {"finishing", "ended"} => link'[q] = None
      BY <2>1, <2>3 DEF Good, Agree
    <3>3. Good(page[q], None, thread[q], link[q]) BY <2>1, <2>4
    <3>4. Good(page[q], None, thread[q], link'[q]) BY <2>2, <2>3, <3>2, <3>3, GoodOrphan
    <3>5. QED BY <2>3, <3>1, <3>4
  <2>5. CASE jobs[q] # None
    <3> DEFINE new == [jobs[q] EXCEPT !.age = Older(jobs[q].age, Retain)]
    <3>1. jobs'[q] = new BY <1>1, <2>5
    <3>2. jobs[q] \in Job /\ jobs[q].age \in 0 .. Retain BY <2>2, <2>5, JobIs
    <3>3. Older(jobs[q].age, Retain) \in 0 .. Retain BY <3>2, TimesAssumption DEF Older
    <3>4. /\ new \in Job /\ new.events = jobs[q].events /\ new.next = jobs[q].next
          /\ new.finished = jobs[q].finished
      BY <3>2, <3>3 DEF Job
    <3> HIDE DEF new
    <3>5. Good(page[q], new, thread[q], link'[q])
      BY <2>1, <2>2, <2>3, <2>5, <3>4, GoodAlike
    <3>6. QED BY <2>3, <3>1, <3>4, <3>5
  <2>6. QED BY <2>4, <2>5
<1>3. /\ jobs' \in [Pages -> Job \cup {None}] /\ link' \in [Pages -> (0 .. ViewTtl) \cup {None}]
  <2>1. \A q \in Pages : jobs'[q] \in Job \cup {None} /\ link'[q] \in (0 .. ViewTtl) \cup {None}
    BY <1>2
  <2>2. QED BY <1>1, <2>1
<1>4. \A q \in Pages : Good(page[q], jobs[q], thread[q], link[q])'
  BY <1>1, <1>2
<1>5. QED BY <1>1, <1>3, <1>4 DEF WebInv

\* The invariant holds in every state.
LEMMA WebInvariant == Spec => []WebInv
<1>1. WebInv /\ [Next]_vars => WebInv'
  <2> SUFFICES ASSUME WebInv, [Next]_vars PROVE WebInv'
    OBVIOUS
  <2>1. CASE Tick BY <2>1, TickKeeps
  <2>2. ASSUME NEW p \in Pages,
               \/ StartFetch(p) \/ Report(p) \/ PushDone(p) \/ PushError(p) \/ Finish(p)
               \/ Panic(p) \/ Poll(p) \/ PollFails(p) \/ Leave(p)
        PROVE  WebInv'
    BY <2>2, StartKeeps, ReportKeeps, PushDoneKeeps, PushErrorKeeps, EndKeeps, PollKeeps,
       GiveUpKeeps
  <2>3. CASE UNCHANGED vars BY <2>3 DEF vars, WebInv
  <2>4. QED BY <2>1, <2>2, <2>3 DEF Next
<1>2. QED BY WebStarts, <1>1, PTL DEF Spec

\* Jobs, threads, links and pages have their types, and no job holds more
\* events than MAX_EVENTS, however long the fetch (fetchjob.rs, push).
THEOREM JobsTypeCorrect == Spec => []TypeOK
BY WebInvariant, WebInvSays, PTL

\* A page handles each event once and in order, and what it does not ask for
\* again it has handled (fetchjob.rs, read; app.js, the polling loop).
THEOREM EventsComeOnce == Spec => []EachEventOnce
BY WebInvariant, WebInvSays, PTL

\* A page opens a link only if the thread has published it, and says that the
\* fetch failed only when it did (handlers.rs, view_fetch; app.js).
THEOREM VerdictsAreTrue == Spec => []VerdictIsTrue
BY WebInvariant, WebInvSays, PTL

-----------------------------------------------------------------------------
(* The server: the body of a request                                       *)

\* What a handler is given of an upload is all of it.
GivenAll(q) == q.at = "routed" /\ q.kind \in Uploads => q.body = q.size

\* An effect was made from all of an upload.
IsWhole(e) == e.kind \in Uploads => e.body = e.size

Over == process \in {"exited", "killed"}

\* A temp file belongs to a request that is being read; the end of the process
\* is what leaves one behind.
SpoolOK == ~Over => \A r \in spool : request[r].at \in {"spooling", "spooled"}

UploadInv ==
    /\ request \in [Requests -> RequestState]
    /\ \A r \in Requests : GivenAll(request[r])
    /\ \A e \in effects : IsWhole(e)
    /\ spool \subseteq Requests
    /\ SpoolOK

LEMMA UploadStarts == ServerInit => UploadInv
<1> SUFFICES ASSUME ServerInit PROVE UploadInv
  OBVIOUS
<1>1. NoRequest \in RequestState /\ GivenAll(NoRequest)
  BY DEF NoRequest, RequestState, RequestKinds, Senders, GivenAll
<1>2. QED BY <1>1 DEF ServerInit, UploadInv, SpoolOK

LEMMA AnsweredIs == Answered \in RequestState /\ GivenAll(Answered) /\ Answered.at = "answered"
BY DEF Answered, NoRequest, RequestState, RequestKinds, Senders, GivenAll

\* A step of one request, with what it may do to its file.
LEMMA OneRequest ==
    ASSUME UploadInv, NEW r \in Requests, NEW q \in RequestState, GivenAll(q),
           request' = [request EXCEPT ![r] = q],
           \A e \in effects' : e \in effects \/ IsWhole(e),
           process' = process,
           spool' \subseteq spool \cup {r},
           r \in spool' => q.at \in {"spooling", "spooled"}
    PROVE  UploadInv'
<1>1. request' \in [Requests -> RequestState] BY DEF UploadInv
<1>2. \A t \in Requests : GivenAll(request[t])' BY DEF UploadInv, GivenAll
<1>3. \A e \in effects' : IsWhole(e)' BY DEF UploadInv, IsWhole
<1>4. SpoolOK' BY DEF UploadInv, SpoolOK, Over
<1>5. spool' \subseteq Requests BY DEF UploadInv
<1>6. QED BY <1>1, <1>2, <1>3, <1>4, <1>5 DEF UploadInv

\* A request goes on, and is at no handler yet, or at that of a page.
LEMMA GoesTo ==
    ASSUME UploadInv, NEW r \in Requests,
           NEW s \in {"handling", "reading", "spooling", "spooled", "routed"},
           Goto(r, s),
           s = "routed" => request[r].kind = "page",
           effects' = effects, process' = process,
           spool' \subseteq spool \cup {r},
           r \in spool' => s \in {"spooling", "spooled"}
    PROVE  UploadInv'
<1> DEFINE q == [request[r] EXCEPT !.at = s]
<1>1. request[r] \in RequestState BY DEF UploadInv
<1>2. q \in RequestState /\ q.at = s /\ q.kind = request[r].kind
  BY <1>1 DEF RequestState
<1>3. request' = [request EXCEPT ![r] = q] BY DEF Goto
<1> HIDE DEF q
<1>4. GivenAll(q) BY <1>2 DEF GivenAll, Uploads
<1>5. QED BY <1>2, <1>3, <1>4, OneRequest

\* It is answered: what is left of its file is nothing.
LEMMA IsAnswered ==
    ASSUME UploadInv, NEW r \in Requests, Answer(r),
           \A e \in effects' : e \in effects \/ IsWhole(e),
           process' = process, spool' \subseteq spool, r \notin spool'
    PROVE  UploadInv'
BY AnsweredIs, OneRequest DEF Answer

\* A handler is given a body.
LEMMA IsGiven ==
    ASSUME UploadInv, NEW r \in Requests, NEW n \in Nat, Given(r, n),
           request[r].kind \in Uploads => n = request[r].size,
           effects' = effects, process' = process, spool' \subseteq spool, r \notin spool'
    PROVE  UploadInv'
<1> DEFINE q == [request[r] EXCEPT !.at = "routed", !.body = n]
<1>1. request[r] \in RequestState BY DEF UploadInv
<1>2. /\ q \in RequestState /\ q.at = "routed" /\ q.kind = request[r].kind
      /\ q.body = n /\ q.size = request[r].size
  BY <1>1 DEF RequestState
<1>3. request' = [request EXCEPT ![r] = q] BY DEF Given
<1> HIDE DEF q
<1>4. GivenAll(q) BY <1>2 DEF GivenAll
<1>5. QED BY <1>2, <1>3, <1>4, OneRequest

\* A request that is not being spooled has no file.
LEMMA HasNoFile ==
    ASSUME UploadInv, Alive, NEW r \in Requests, request[r].at \notin {"spooling", "spooled"}
    PROVE  r \notin spool
BY DEF UploadInv, SpoolOK, Alive, Over

\* A request arrives, is accepted, or is let through the guard.
LEMMA EntryKeeps ==
    ASSUME UploadInv, NEW r \in Requests,
           \/ Arrive(r)
           \/ ~Over /\ \E w \in Workers : Accept(w, r)
           \/ Guard(r)
    PROVE  UploadInv'
<1>0. ~Over /\ request[r].at \in {"none", "queued", "handling"}
  BY DEF Arrive, Accept, Guard, Steps, Alive, Over
<1>1. r \notin spool BY <1>0 DEF UploadInv, SpoolOK
<1>2. UNCHANGED <<spool, effects, process>> BY DEF Arrive, Accept, Guard
<1>3. CASE Arrive(r)
  <2>1. PICK k \in RequestKinds, f \in Senders, n \in Sizes \cup {0}, v \in Sizes \cup {0} :
          /\ k = "page" <=> n = 0
          /\ IF k = "json" THEN v \in 1 .. n ELSE v = 0
          /\ request' = [request EXCEPT ![r] = [at |-> "queued", kind |-> k, from |-> f,
                                                size |-> n, value |-> v, body |-> 0]]
    BY <1>3, Zenon DEF Arrive
  <2> DEFINE q == [at |-> "queued", kind |-> k, from |-> f, size |-> n, value |-> v, body |-> 0]
  <2>2. q \in RequestState /\ GivenAll(q)
    BY SizesAssumption DEF RequestState, GivenAll
  <2> HIDE DEF q
  <2>3. QED BY <1>1, <1>2, <2>1, <2>2, OneRequest DEF q
<1>4. CASE \E w \in Workers : Accept(w, r)
  <2>1. Goto(r, "handling") BY <1>4 DEF Accept, Goto
  <2>2. QED BY <1>1, <1>2, <2>1, GoesTo
<1>5. CASE Guard(r)
  <2>1. CASE Refused(request[r])
    <3>1. Answer(r) BY <1>5, <2>1 DEF Guard
    <3>2. QED BY <1>1, <1>2, <3>1, IsAnswered
  <2>2. CASE ~Refused(request[r]) /\ request[r].kind = "page"
    <3>1. Goto(r, "routed") BY <1>5, <2>2 DEF Guard
    <3>2. QED BY <1>1, <1>2, <2>2, <3>1, GoesTo
  <2>3. CASE ~Refused(request[r]) /\ request[r].kind # "page"
    <3>1. Goto(r, "reading") BY <1>5, <2>3 DEF Guard
    <3>2. QED BY <1>1, <1>2, <3>1, GoesTo
  <2>4. QED BY <2>1, <2>2, <2>3
<1>6. QED BY <1>3, <1>4, <1>5

\* The body is read, by way of a file or not.
LEMMA ReadKeeps ==
    ASSUME UploadInv, NEW r \in Requests,
           \/ ReadText(r) \/ ReadBytes(r) \/ CreateSpool(r)
           \/ CopyToSpool(r) \/ ReadSpool(r)
    PROVE  UploadInv'
<1>1. /\ UNCHANGED <<effects, process>> /\ Alive
      /\ request[r].at \in {"reading", "spooling", "spooled"}
  BY DEF ReadText, ReadBytes, CreateSpool, CopyToSpool, ReadSpool, Steps
<1>2. request[r].size \in Nat BY DEF UploadInv, RequestState
<1>3. CASE ReadText(r)
  <2>1. request[r].at = "reading" /\ request[r].kind \notin Uploads /\ spool' = spool
    BY <1>3 DEF ReadText, Steps, Uploads
  <2>2. r \notin spool BY <1>1, <2>1, HasNoFile
  <2>3. CASE Answer(r)
    BY <1>1, <2>1, <2>2, <2>3, IsAnswered
  <2>4. ASSUME NEW n \in Nat, Given(r, n) PROVE UploadInv'
    BY <1>1, <2>1, <2>2, <2>4, IsGiven
  <2>5. QED BY <1>2, <1>3, <2>3, <2>4, CapsAssumption DEF ReadText
<1>4. CASE ReadBytes(r)
  <2>1. request[r].at = "reading" /\ spool' = spool BY <1>4 DEF ReadBytes, Steps
  <2>2. r \notin spool BY <1>1, <2>1, HasNoFile
  <2>3. CASE Answer(r)
    BY <1>1, <2>1, <2>2, <2>3, IsAnswered
  <2>4. CASE Given(r, request[r].size)
    BY <1>1, <1>2, <2>1, <2>2, <2>4, IsGiven
  <2>5. QED BY <1>4, <2>3, <2>4 DEF ReadBytes
<1>5. CASE CreateSpool(r)
  <2>1. request[r].at = "reading" BY <1>5 DEF CreateSpool, Steps
  <2>2. r \notin spool BY <1>1, <2>1, HasNoFile
  <2>3. CASE Answer(r) /\ UNCHANGED spool
    BY <1>1, <2>2, <2>3, IsAnswered
  <2>4. CASE Goto(r, "spooling") /\ spool' = spool \cup {r}
    BY <1>1, <2>4, GoesTo
  <2>5. QED BY <1>5, <2>3, <2>4 DEF CreateSpool
<1>6. CASE CopyToSpool(r)
  <2>1. CASE Answer(r) /\ spool' = spool \ {r}
    BY <1>1, <2>1, IsAnswered
  <2>2. CASE Goto(r, "spooled") /\ UNCHANGED spool
    BY <1>1, <2>2, GoesTo
  <2>3. QED BY <1>6, <2>1, <2>2 DEF CopyToSpool
<1>7. CASE ReadSpool(r)
  <2>1. spool' = spool \ {r} BY <1>7 DEF ReadSpool
  <2>2. CASE Answer(r)
    BY <1>1, <2>1, <2>2, IsAnswered
  <2>3. CASE Given(r, request[r].size)
    BY <1>1, <1>2, <2>1, <2>3, IsGiven
  <2>4. QED BY <1>7, <2>2, <2>3 DEF ReadSpool
<1>8. QED BY <1>3, <1>4, <1>5, <1>6, <1>7

\* A handler works and answers.
LEMMA HandlerKeeps ==
    ASSUME UploadInv, NEW r \in Requests, Handle(r) \/ PublishView(r)
    PROVE  UploadInv'
<1>1. /\ request[r].at = "routed" /\ Answer(r) /\ Alive
      /\ UNCHANGED <<process, spool>>
      /\ effects' \subseteq effects \cup {request[r]}
  BY DEF Handle, PublishView, Steps
<1>2. IsWhole(request[r]) BY <1>1 DEF UploadInv, GivenAll, IsWhole
<1>3. r \notin spool BY <1>1, HasNoFile
<1>4. QED BY <1>1, <1>2, <1>3, IsAnswered

\* The process ends, with all its threads, and leaves their files.
LEMMA EndsKeep ==
    ASSUME UploadInv, Exit \/ Killed
    PROVE  UploadInv'
<1>1. /\ request' = [r \in Requests |-> Answered]
      /\ UNCHANGED <<effects, spool>> /\ process' \in {"exited", "killed"}
  BY DEF Exit, Killed, Ends
<1>2. request' \in [Requests -> RequestState] /\ \A r \in Requests : GivenAll(request[r])'
  BY <1>1, AnsweredIs DEF GivenAll
<1>3. QED BY <1>1, <1>2 DEF UploadInv, SpoolOK, Over, IsWhole

\* After its end a process does nothing.
LEMMA OverIsOver ==
    ASSUME ServerNext, Over
    PROVE  process' = process
BY DEF ServerNext, Bind, SpawnWorkers, TimeIsUp, ServeReturns, Exit, Killed, Alive, ViewsAge,
       WorkerEnds, Accept, Arrive, Guard, ReadText, ReadBytes, CreateSpool, CopyToSpool,
       ReadSpool, Handle, PublishView, AnswerView, ViewEnds, Steps, Over, serverVars

(***************************************************************************)
(* UploadsAreWhole, for any requests, workers, caps and sizes, whenever a  *)
(* read fails and wherever the process ends.                               *)
(***************************************************************************)
THEOREM UploadsAreAllOrNothing == ServerSpec => []UploadsAreWhole
<1>1. UploadInv /\ [ServerNext]_serverVars => UploadInv'
  <2> SUFFICES ASSUME UploadInv, [ServerNext]_serverVars PROVE UploadInv'
    OBVIOUS
  <2>1. ASSUME UNCHANGED <<request, effects, spool>>, Over => process' = process
        PROVE  UploadInv'
    BY <2>1 DEF UploadInv, GivenAll, IsWhole, SpoolOK, Over
  <2>2. ASSUME NEW r \in Requests,
               \/ Arrive(r) \/ Guard(r)
               \/ ~Over /\ \E w \in Workers : Accept(w, r)
        PROVE  UploadInv'
    BY <2>2, EntryKeeps
  <2>3. ASSUME NEW r \in Requests,
               \/ ReadText(r) \/ ReadBytes(r) \/ CreateSpool(r)
               \/ CopyToSpool(r) \/ ReadSpool(r)
        PROVE  UploadInv'
    BY <2>3, ReadKeeps
  <2>4. ASSUME NEW r \in Requests, Handle(r) \/ PublishView(r)
        PROVE  UploadInv'
    BY <2>4, HandlerKeeps
  <2>5. CASE Exit \/ Killed BY <2>5, EndsKeep
  <2>6. ASSUME \/ Bind \/ SpawnWorkers \/ TimeIsUp \/ ServeReturns
               \/ ViewsAge \/ \E w \in Workers : WorkerEnds(w)
               \/ \E r \in Requests : AnswerView(r) \/ ViewEnds(r)
               \/ UNCHANGED serverVars
        PROVE  UploadInv'
    <3>1. UNCHANGED <<request, effects, spool>>
      BY <2>6 DEF Bind, SpawnWorkers, TimeIsUp, ServeReturns,
                  ViewsAge, WorkerEnds, AnswerView, ViewEnds, serverVars
    <3>2. Over => process' = process
      BY OverIsOver DEF serverVars
    <3>3. QED BY <2>1, <3>1, <3>2
  <2>7. ASSUME NEW r \in Requests, NEW w \in Workers, Accept(w, r), Over
        PROVE  UploadInv'
    <3> DEFINE q == [request[r] EXCEPT !.at = "handling"]
    <3>1. request[r] \in RequestState BY DEF UploadInv
    <3>2. q \in RequestState /\ q.at = "handling" BY <3>1 DEF RequestState
    <3>3. request' = [request EXCEPT ![r] = q] /\ UNCHANGED <<effects, spool, process>>
      BY <2>7 DEF Accept
    <3> HIDE DEF q
    <3>4. GivenAll(q) BY <3>2 DEF GivenAll
    <3>5. \A t \in Requests : GivenAll(request[t])' BY <3>3, <3>4 DEF UploadInv, GivenAll
    <3>6. QED BY <2>7, <3>2, <3>3, <3>5 DEF UploadInv, IsWhole, SpoolOK, Over
  <2>8. QED BY <2>2, <2>3, <2>4, <2>5, <2>6, <2>7 DEF ServerNext
<1>2. UploadInv => UploadsAreWhole
  BY DEF UploadInv, IsWhole, SpoolOK, Over, UploadsAreWhole
<1>3. QED BY UploadStarts, <1>1, <1>2, PTL DEF ServerSpec

-----------------------------------------------------------------------------
(* The results area of the page                                            *)

\* A row that waits is waiting for a dialog that will close.
DialogInv ==
    /\ dialog \in [open : BOOLEAN, closing : Nat, pending : Links \cup {NoLink}]
    /\ PendingIsShown

\* The dialog opens when an index begins.
LEMMA BeginShows ==
    ASSUME DialogInv, NEW l, Begin(l)
    PROVE  DialogInv'
<1>1. dialog' = [dialog EXCEPT !.open = TRUE] BY DEF Begin
<1>2. QED BY <1>1 DEF DialogInv, PendingIsShown

\* The dialog is flushed when it has closed.
LEMMA FlushShows ==
    ASSUME DialogInv, NEW d \in [open : BOOLEAN, closing : Nat, pending : Links \cup {NoLink}],
           Flush(d)
    PROVE  DialogInv'
<1>1. dialog' = [d EXCEPT !.pending = NoLink] BY DEF Flush
<1>2. QED BY <1>1 DEF DialogInv, PendingIsShown

\* What happens to the dialog when an index ends.
LEMMA FinishShows ==
    ASSUME DialogInv, NEW l \in Links, FinishIndex(l)
    PROVE  DialogInv'
<1> DEFINE d == [dialog EXCEPT !.pending = l]
<1>1. /\ d \in [open : BOOLEAN, closing : Nat, pending : Links \cup {NoLink}]
      /\ d.open = dialog.open /\ d.pending = l
  BY DEF DialogInv
<1>2. IF d.open THEN dialog' = d ELSE Flush(d) BY DEF FinishIndex
<1> HIDE DEF d
<1>3. CASE d.open
  BY <1>1, <1>2, <1>3 DEF DialogInv, PendingIsShown
<1>4. CASE ~d.open
  BY <1>1, <1>2, <1>4, FlushShows
<1>5. QED BY <1>3, <1>4

\* The dialog is closed, and its close event will come.
LEMMA DialogShut ==
    ASSUME DialogInv,
           \/ dialog' = [dialog EXCEPT !.open = FALSE, !.closing = @ + 1]
           \/ dialog' = [dialog EXCEPT !.open = FALSE,
                                       !.closing = IF dialog.open THEN @ + 1 ELSE @]
    PROVE  DialogInv'
<1>1. /\ dialog \in [open : BOOLEAN, closing : Nat, pending : Links \cup {NoLink}]
      /\ dialog.closing \in Nat /\ dialog.open \in BOOLEAN
      /\ dialog.pending # NoLink => dialog.open \/ dialog.closing > 0
  BY DEF DialogInv, PendingIsShown
<1>2. PICK n \in Nat :
        /\ dialog' = [dialog EXCEPT !.open = FALSE, !.closing = n]
        /\ n >= dialog.closing /\ (dialog.open => n > 0)
  <2>1. CASE dialog.open \/ dialog' = [dialog EXCEPT !.open = FALSE, !.closing = @ + 1]
    <3> DEFINE k == dialog.closing + 1
    <3>1. dialog' = [dialog EXCEPT !.open = FALSE, !.closing = k] BY <2>1
    <3>2. k \in Nat /\ k >= dialog.closing /\ k > 0 BY <1>1
    <3> HIDE DEF k
    <3>3. QED BY <3>1, <3>2
  <2>2. CASE ~dialog.open /\ dialog' = [dialog EXCEPT !.open = FALSE, !.closing = dialog.closing]
    <3> DEFINE k == dialog.closing
    <3>1. /\ dialog' = [dialog EXCEPT !.open = FALSE, !.closing = k] /\ k \in Nat
          /\ k >= dialog.closing /\ ~dialog.open
      BY <1>1, <2>2
    <3> HIDE DEF k
    <3>2. QED BY <3>1
  <2>3. QED BY <2>1, <2>2
<1>3. /\ dialog' \in [open : BOOLEAN, closing : Nat, pending : Links \cup {NoLink}]
      /\ dialog'.pending = dialog.pending /\ dialog'.closing = n
  BY <1>1, <1>2
<1>4. PendingIsShown' BY <1>1, <1>2, <1>3 DEF PendingIsShown
<1>5. QED BY <1>3, <1>4 DEF DialogInv

\* Every step keeps it.
LEMMA DialogKeeps ==
    ASSUME DialogInv, [ResultsNext]_resultsVars
    PROVE  DialogInv'
<1>1. CASE dialog' = dialog BY <1>1 DEF DialogInv, PendingIsShown
<1>2. ASSUME NEW l \in Links, IndexStep(l) PROVE DialogInv'
  <2>1. CASE Add(l) BY <2>1, BeginShows DEF Add
  <2>2. CASE Indexed(l) BY <2>2, FinishShows DEF Indexed
  <2>3. CASE NoBackend(l)
    <3>1. dialog' = [dialog EXCEPT !.open = FALSE,
                                   !.closing = IF dialog.open THEN @ + 1 ELSE @]
      BY <2>3 DEF NoBackend
    <3>2. QED BY <3>1, DialogShut
  <2>4. CASE IndexEnsured(l) \/ FallsBack(l) \/ IndexFails(l)
    BY <1>1, <2>4 DEF IndexEnsured, FallsBack, IndexFails
  <2>5. QED BY <1>2, <2>1, <2>2, <2>3, <2>4 DEF IndexStep
<1>3. CASE Dismiss
  <2>1. dialog' = [dialog EXCEPT !.open = FALSE, !.closing = @ + 1] BY <1>3 DEF Dismiss
  <2>2. QED BY <2>1, DialogShut
<1>4. CASE CloseEvent
  <2> DEFINE d == [dialog EXCEPT !.closing = @ - 1]
  <2>1. d \in [open : BOOLEAN, closing : Nat, pending : Links \cup {NoLink}] /\ Flush(d)
    BY <1>4 DEF DialogInv, CloseEvent
  <2> HIDE DEF d
  <2>2. QED BY <2>1, FlushShows
<1>5. CASE Resume
  BY <1>5, BeginShows DEF Resume
<1>6. CASE \/ \E s \in Searches : SearchStep(s)
           \/ Toggle \/ AskRowDrop \/ AskPeerBlock \/ Dropped
           \/ Installed \/ CloseInstall \/ UNCHANGED resultsVars
  <2>1. dialog' = dialog
    BY <1>6 DEF SearchStep, Submit, Ensured, Render, SearchFails,
       Toggle, AskRowDrop, AskPeerBlock, AskDrop, Dropped,
       Installed, CloseInstall, resultsVars, indexVars
  <2>2. QED BY <1>1, <2>1
<1>7. QED BY <1>2, <1>3, <1>4, <1>5, <1>6 DEF ResultsNext

\* A row that waits for the dialog of its index to close is shown one day: the
\* dialog is open, or its close event is on its way (app.js, finishIndex).
THEOREM PendingRowsAreShown == ResultsSpec => []PendingIsShown
<1>1. ResultsInit => DialogInv
  <2> SUFFICES ASSUME ResultsInit PROVE DialogInv
    OBVIOUS
  <2>1. dialog = [open |-> FALSE, closing |-> 0, pending |-> NoLink] BY DEF ResultsInit
  <2>2. QED BY <2>1 DEF DialogInv, PendingIsShown
<1>2. DialogInv /\ [ResultsNext]_resultsVars => DialogInv' BY DialogKeeps
<1>3. DialogInv => PendingIsShown BY DEF DialogInv
<1>4. QED BY <1>1, <1>2, <1>3, PTL DEF ResultsSpec

\* An index that a search overtook, and that no other one followed, is behind
\* the search: it is one that began, and its epoch is an earlier one.
Behind ==
    /\ index \in [at : [Links -> {"none", "ensuring", "browser", "daemon", "ended"}], runs : Nat]
    /\ epochs \in [results : Nat, index : Nat] /\ epochs.index <= epochs.results
    /\ history = [overtaken |-> history.overtaken, followed |-> history.followed]
    /\ history.overtaken \subseteq {l \in Links : index.at[l] # "none"}
    /\ history.overtaken \subseteq history.followed \/ epochs.index < epochs.results

\* The results area is a record of three fields, and hides rows of the web only.
AreaOK(a) ==
    /\ a = [rows |-> a.rows, hidden |-> a.hidden, count |-> a.count]
    /\ a.hidden \subseteq {r \in a.rows : r.hit \in Web}

\* Both, at every moment.
YieldInv == Behind /\ AreaOK(area)

\* The row of an index is shown with a count line of its own.
LEMMA IndexedSays ==
    ASSUME NEW l
    PROVE  /\ IndexedArea(l).count = [says |-> "indexed", n |-> 0]
           /\ IndexedArea(l).rows = {[hit |-> l, by |-> l]}
           /\ IndexedArea(l).hidden = {}
           /\ IndexedArea(l) =
                [rows |-> {[hit |-> l, by |-> l]}, hidden |-> {},
                 count |-> [says |-> "indexed", n |-> 0]]
           /\ AreaOK(IndexedArea(l))
BY DEF IndexedArea, Says, AreaOK

\* Two links have two rows.
LEMMA IndexedOnce ==
    ASSUME NEW l, NEW k, IndexedArea(l) = IndexedArea(k)
    PROVE  l = k
<1> DEFINE row(x) == [hit |-> x, by |-> x]
<1>1. {row(l)} = {row(k)} BY IndexedSays
<1>2. row(l) = row(k) BY <1>1
<1>3. row(l).hit = l /\ row(k).hit = k OBVIOUS
<1> HIDE DEF row
<1>4. QED BY <1>2, <1>3

\* A recount is not the count line of an index.
LEMMA RecountIs ==
    ASSUME NEW a, AreaOK(a)
    PROVE  /\ AreaOK(Recount(a)) /\ \A l : Recount(a) # IndexedArea(l)
<1>0. PICK n : Recount(a) = [a EXCEPT !.count = [says |-> "number", n |-> n]]
  BY DEF Recount
<1> DEFINE c == [says |-> "number", n |-> n]
           b == [a EXCEPT !.count = c]
<1>1. Recount(a) = b BY <1>0
<1>2. c.says = "number" OBVIOUS
<1> HIDE DEF c
<1>3. b = [rows |-> a.rows, hidden |-> a.hidden, count |-> c] BY DEF AreaOK
<1>4. b.count = c /\ b.rows = a.rows /\ b.hidden = a.hidden BY <1>3
<1>5. AreaOK(b) BY <1>3, <1>4 DEF AreaOK
<1>6. ASSUME NEW l PROVE b # IndexedArea(l)
  <2>1. IndexedArea(l).count.says = "indexed" BY IndexedSays
  <2>2. QED BY <1>2, <1>4, <2>1
<1> HIDE DEF b
<1>7. QED BY <1>1, <1>5, <1>6

\* What a step does to the area: nothing, or it shows no index, or it shows the
\* row of a link whose epoch is the one of the results.
AreaStep ==
    /\ AreaOK(area')
    /\ \/ area' = area
       \/ \A l \in Links : area' # IndexedArea(l)
       \/ epochs.results = epochs.index /\ \E l \in Links : area' = IndexedArea(l)

\* A count line that is not that of an index.
LEMMA OtherCount ==
    ASSUME AreaOK(area'), area'.count.says # "indexed"
    PROVE  AreaStep
<1>1. ASSUME NEW l \in Links PROVE area' # IndexedArea(l)
  <2>1. IndexedArea(l).count.says = "indexed" BY IndexedSays
  <2>2. QED BY <2>1
<1>2. QED BY <1>1 DEF AreaStep

\* Searching writes the area.
LEMMA SearchArea ==
    ASSUME YieldInv, NEW s, SearchStep(s)
    PROVE  AreaStep
<1>1. CASE Submit(s)
  <2>1. area' = [rows |-> {}, hidden |-> {}, count |-> [says |-> "waiting", n |-> 0]]
    BY <1>1 DEF Submit, Says
  <2>2. AreaOK(area') /\ area'.count.says = "waiting" BY <2>1 DEF AreaOK
  <2>3. QED BY <2>2, OtherCount
<1>2. CASE Ensured(s)
  <2>1. area' = [area EXCEPT !.count = [says |-> "waiting", n |-> 0]]
    BY <1>2 DEF Ensured, Says
  <2>2. area' = [rows |-> area.rows, hidden |-> area.hidden,
                 count |-> [says |-> "waiting", n |-> 0]]
    BY <2>1 DEF YieldInv, AreaOK
  <2>3. AreaOK(area') /\ area'.count.says = "waiting" BY <2>2 DEF YieldInv, AreaOK
  <2>4. QED BY <2>3, OtherCount
<1>3. CASE Render(s)
  <2>1. PICK found \in {{}, Hits} :
          area' = Recount(Filter([rows |-> [hit : found, by : {s}], hidden |-> {},
                                            count |-> Says("")], only))
    BY <1>3 DEF Render
  <2> DEFINE rows == [hit : found, by : {s}]
             hidden == {r \in rows : only /\ r.hit \in Web}
             a == [rows |-> rows, hidden |-> hidden, count |-> Says("")]
  <2>2. Filter([rows |-> rows, hidden |-> {}, count |-> Says("")], only) = a
    <3> DEFINE z == [rows |-> rows, hidden |-> {}, count |-> Says("")]
    <3>1. z.rows = rows OBVIOUS
    <3>2. Filter(z, only) = [z EXCEPT !.hidden = {r \in z.rows : only /\ r.hit \in Web}]
      BY DEF Filter
    <3>3. {r \in z.rows : only /\ r.hit \in Web} = hidden BY <3>1
    <3>4. Filter(z, only) = [z EXCEPT !.hidden = hidden] BY <3>2, <3>3
    <3> DEFINE none == Says("")
    <3>5. z = [rows |-> rows, hidden |-> {}, count |-> none] OBVIOUS
    <3> HIDE DEF rows, hidden, z, none
    <3>6. [z EXCEPT !.hidden = hidden] = [rows |-> rows, hidden |-> hidden, count |-> none]
      BY <3>5
    <3>7. QED BY <3>4, <3>6 DEF z, none
  <2>3. AreaOK(a)
    <3>1. hidden \subseteq {r \in rows : r.hit \in Web} OBVIOUS
    <3>2. a.rows = rows /\ a.hidden = hidden /\ a.count = Says("") OBVIOUS
    <3> HIDE DEF rows, hidden
    <3>3. QED BY <3>1, <3>2 DEF AreaOK
  <2> HIDE DEF a
  <2>4. area' = Recount(a) BY <2>1, <2>2
  <2>5. QED BY <2>3, <2>4, RecountIs DEF AreaStep
<1>4. CASE SearchFails(s)
  <2>1. area' = [rows |-> {}, hidden |-> {}, count |-> [says |-> "", n |-> 0]]
    BY <1>4 DEF SearchFails, Failed, Says
  <2>2. AreaOK(area') /\ area'.count.says = "" BY <2>1 DEF AreaOK
  <2>3. QED BY <2>2, OtherCount
<1>5. QED BY <1>1, <1>2, <1>3, <1>4 DEF SearchStep

\* The filter leaves the row of an index where it is.
LEMMA ToggleArea ==
    ASSUME YieldInv, Toggle
    PROVE  AreaStep
<1> DEFINE hidden == {r \in area.rows : only' /\ r.hit \in Web}
           a == [area EXCEPT !.hidden = hidden]
<1>1. area' = a \/ area' = Recount(a)
  <2>1. Filter(area, only') = a BY DEF Filter
  <2>2. QED BY <2>1 DEF Toggle
<1>2. hidden \subseteq {r \in area.rows : r.hit \in Web} OBVIOUS
<1> HIDE DEF hidden
<1>3. a = [rows |-> area.rows, hidden |-> hidden, count |-> area.count]
  BY DEF YieldInv, AreaOK
<1>4. a.rows = area.rows /\ a.hidden = hidden /\ a.count = area.count BY <1>3
<1>5. AreaOK(a) BY <1>2, <1>3, <1>4 DEF AreaOK
<1>6. CASE area' = Recount(a)
  BY <1>5, <1>6, RecountIs DEF AreaStep
<1>7. CASE area' = a
  <2>1. ASSUME NEW l \in Links, a = IndexedArea(l) PROVE area = a
    <3>1. /\ area.rows = {[hit |-> l, by |-> l]} /\ hidden = {}
      BY <1>4, <2>1, IndexedSays
    <3>2. l \notin Web BY HitsAssumption, LinksAssumption
    <3>3. \A r \in area.rows : r.hit = l BY <3>1
    <3>4. area.hidden = {} BY <3>2, <3>3 DEF YieldInv, AreaOK
    <3>5. area = [rows |-> area.rows, hidden |-> area.hidden, count |-> area.count]
      BY DEF YieldInv, AreaOK
    <3>6. QED BY <1>3, <3>1, <3>4, <3>5
  <2>2. QED BY <1>5, <1>7, <2>1 DEF AreaStep
<1>8. QED BY <1>1, <1>6, <1>7

\* Rows are taken away.
LEMMA DroppedArea ==
    ASSUME YieldInv, Dropped
    PROVE  AreaStep
<1>1. ASSUME NEW gone, area' = Recount([area EXCEPT !.rows = @ \ gone, !.hidden = @ \ gone])
      PROVE  AreaStep
  <2> DEFINE rows == area.rows \ gone
             hidden == area.hidden \ gone
             a == [area EXCEPT !.rows = rows, !.hidden = hidden]
  <2>0. hidden \subseteq {r \in rows : r.hit \in Web} BY DEF YieldInv, AreaOK
  <2>4. area' = Recount(a) BY <1>1
  <2> HIDE DEF rows, hidden
  <2>1. a = [rows |-> rows, hidden |-> hidden, count |-> area.count]
    <3> DEFINE b == [area EXCEPT !.rows = rows]
    <3>1. b = [rows |-> rows, hidden |-> area.hidden, count |-> area.count]
      BY DEF YieldInv, AreaOK
    <3>2. a = [b EXCEPT !.hidden = hidden] OBVIOUS
    <3> HIDE DEF b, a
    <3>3. QED BY <3>1, <3>2
  <2>2. a.rows = rows /\ a.hidden = hidden /\ a.count = area.count
    BY <2>1
  <2>3. AreaOK(a) BY <2>0, <2>1, <2>2 DEF AreaOK
  <2> HIDE DEF a
  <2>5. QED BY <2>3, <2>4, RecountIs DEF AreaStep
<1>2. CASE area' = area BY <1>2 DEF AreaStep, YieldInv
<1>3. CASE area' = DropPeer(area)
  <2>1. CASE {r \in area.rows : r.hit \in Foreign} = {}
    BY <1>2, <1>3, <2>1 DEF DropPeer
  <2>2. CASE {r \in area.rows : r.hit \in Foreign} # {}
    <3> DEFINE theirs == {r \in area.rows : r.hit \in Foreign}
    <3>1. area' = Recount([area EXCEPT !.rows = @ \ theirs, !.hidden = @ \ theirs])
      BY <1>3, <2>2 DEF DropPeer
    <3> HIDE DEF theirs
    <3>2. QED BY <1>1, <3>1
  <2>3. QED BY <2>1, <2>2
<1>4. CASE \E r \in drop.row : area' = DropRow(area, r)
  <2>1. PICK r \in drop.row : area' = DropRow(area, r) BY <1>4
  <2> DEFINE gone == {r}
  <2>2. area' = Recount([area EXCEPT !.rows = @ \ gone, !.hidden = @ \ gone])
    BY <2>1 DEF DropRow
  <2> HIDE DEF gone
  <2>3. QED BY <1>1, <2>2
<1>5. QED BY <1>2, <1>3, <1>4 DEF Dropped

\* The dialog is flushed.
LEMMA FlushArea ==
    ASSUME YieldInv, NEW d, d.pending \in Links \cup {NoLink}, Flush(d)
    PROVE  AreaStep
<1>1. CASE area' = area BY <1>1 DEF AreaStep, YieldInv
<1>2. CASE area' # area
  <2>1. /\ epochs.results = epochs.index /\ d.pending \in Links
        /\ area' = IndexedArea(d.pending)
    BY <1>2 DEF Flush
  <2>2. AreaOK(area') BY <2>1, IndexedSays
  <2>3. QED BY <2>1, <2>2 DEF AreaStep
<1>3. QED BY <1>1, <1>2

\* Every step.
LEMMA AreaSteps ==
    ASSUME YieldInv, DialogInv, [ResultsNext]_resultsVars
    PROVE  AreaStep
<1>1. CASE area' = area BY <1>1 DEF AreaStep, YieldInv
<1>2. CASE \E s \in Searches : SearchStep(s) BY <1>2, SearchArea
<1>3. CASE Toggle BY <1>3, ToggleArea
<1>4. CASE Dropped BY <1>4, DroppedArea
<1>5. ASSUME NEW l \in Links, Indexed(l) PROVE AreaStep
  <2> DEFINE d == [dialog EXCEPT !.pending = l]
  <2>1. FinishIndex(l) BY <1>5 DEF Indexed
  <2>2. d.pending = l BY DEF DialogInv
  <2>3. area' = area \/ Flush(d) BY <2>1 DEF FinishIndex
  <2> HIDE DEF d
  <2>4. QED BY <1>1, <2>2, <2>3, FlushArea
<1>6. CASE CloseEvent
  <2> DEFINE d == [dialog EXCEPT !.closing = @ - 1]
  <2>1. Flush(d) BY <1>6 DEF CloseEvent
  <2>2. d.pending \in Links \cup {NoLink} BY DEF DialogInv
  <2> HIDE DEF d
  <2>3. QED BY <2>1, <2>2, FlushArea
<1>7. CASE \/ AskRowDrop \/ AskPeerBlock \/ Dismiss \/ Installed
           \/ Resume \/ CloseInstall \/ UNCHANGED resultsVars
           \/ \E l \in Links : \/ Add(l) \/ IndexEnsured(l) \/ FallsBack(l)
                               \/ IndexFails(l) \/ NoBackend(l)
  <2>1. area' = area
    BY <1>7 DEF AskRowDrop, AskPeerBlock, AskDrop, Dismiss, Installed,
       Resume, CloseInstall, Add, IndexEnsured, FallsBack,
       IndexFails, NoBackend, resultsVars, pageVars
  <2>2. QED BY <1>1, <2>1
<1>8. QED BY <1>2, <1>3, <1>4, <1>5, <1>6, <1>7 DEF ResultsNext, IndexStep

\* A search takes the area over, and overtakes whatever has begun.
LEMMA OvertakeKeeps ==
    ASSUME Behind, epochs' = TakeOver, Overtake, index' = index
    PROVE  Behind'
<1> DEFINE begun == {l \in Links : index.at[l] # "none"}
<1>1. /\ history' = [history EXCEPT !.overtaken = history.overtaken \cup begun]
      /\ history.overtaken \subseteq begun
  BY DEF Overtake, Behind
<1>2. /\ epochs' = [epochs EXCEPT !.results = epochs.results + 1]
      /\ epochs \in [results : Nat, index : Nat] /\ epochs.index <= epochs.results
  BY DEF TakeOver, Behind
<1>3. epochs' \in [results : Nat, index : Nat] /\ epochs'.index < epochs'.results BY <1>2
<1>4. epochs'.index <= epochs'.results BY <1>3
<1> HIDE DEF begun
<1>5. history' = [overtaken |-> begun, followed |-> history.followed]
  <2>1. history.overtaken \cup begun = begun BY <1>1
  <2>2. history' = [history EXCEPT !.overtaken = begun] BY <1>1, <2>1
  <2>3. QED BY <2>2 DEF Behind
<1>6. history'.overtaken = begun /\ history'.followed = history.followed BY <1>5
<1>7. history' = [overtaken |-> history'.overtaken, followed |-> history'.followed]
  BY <1>5, <1>6
<1>8. QED BY <1>3, <1>4, <1>6, <1>7 DEF Behind, begun

\* An index begins where the results are.
LEMMA BeginKeeps ==
    ASSUME Behind, NEW l, Begin(l)
    PROVE  Behind'
<1> DEFINE begun == {k \in Links \ {l} : index.at[k] # "none"}
           over == history.overtaken \ {l}
<1>1. PICK at \in {"ensuring", "browser"} :
        index' = [at |-> [index.at EXCEPT ![l] = at], runs |-> index.runs + 1]
  BY DEF Begin
<1>2. /\ epochs' = [epochs EXCEPT !.index = epochs.results]
      /\ history' = [overtaken |-> over, followed |-> begun]
  BY DEF Begin
<1>3. over \subseteq begun BY DEF Behind
<1>4. epochs' \in [results : Nat, index : Nat] /\ epochs'.index <= epochs'.results
  BY <1>2 DEF Behind
<1>5. /\ index.at \in [Links -> {"none", "ensuring", "browser", "daemon", "ended"}]
      /\ index.runs \in Nat
  BY DEF Behind
<1>6. /\ index'.at = [index.at EXCEPT ![l] = at]
      /\ index' \in [at : [Links -> {"none", "ensuring", "browser", "daemon", "ended"}], runs : Nat]
  <2> DEFINE f == [index.at EXCEPT ![l] = at]
             n == index.runs + 1
  <2>1. f \in [Links -> {"none", "ensuring", "browser", "daemon", "ended"}] /\ n \in Nat
    <3> DEFINE S == {"none", "ensuring", "browser", "daemon", "ended"}
               g == index.at
               m == index.runs
    <3>1. g \in [Links -> S] /\ at \in S /\ m \in Nat BY <1>5
    <3> HIDE DEF S, g, m
    <3>2. [g EXCEPT ![l] = at] \in [Links -> S] /\ m + 1 \in Nat
      <4>1. [g EXCEPT ![l] = at] = [k \in DOMAIN g |-> IF k = l THEN at ELSE g[k]] OBVIOUS
      <4>2. DOMAIN g = Links BY <3>1
      <4>3. \A k \in Links : (IF k = l THEN at ELSE g[k]) \in S BY <3>1
      <4>4. [k \in Links |-> IF k = l THEN at ELSE g[k]] \in [Links -> S] BY <4>3
      <4>5. m + 1 \in Nat BY <3>1
      <4>6. QED BY <4>1, <4>2, <4>4, <4>5
    <3>3. QED BY <3>2 DEF S, g, m
  <2>2. index' = [at |-> f, runs |-> n] BY <1>1
  <2> HIDE DEF f, n
  <2>3. /\ index'.at = f
        /\ index' \in [at : [Links -> {"none", "ensuring", "browser", "daemon", "ended"}],
                        runs : Nat]
    BY <2>1, <2>2
  <2>4. QED BY <2>3 DEF f
<1>7. begun \subseteq {k \in Links : index'.at[k] # "none"} BY <1>5, <1>6
<1> HIDE DEF begun, over
<1>8. history'.overtaken = over /\ history'.followed = begun BY <1>2
<1>9. QED BY <1>2, <1>3, <1>4, <1>6, <1>7, <1>8 DEF Behind

\* An index goes on.
LEMMA IndexGoesOn ==
    ASSUME Behind, NEW l \in Links, NEW at \in {"browser", "daemon", "ended"},
           index' = [index EXCEPT !.at[l] = at], epochs' = epochs, history' = history
    PROVE  Behind'
<1>1. index' \in [at : [Links -> {"none", "ensuring", "browser", "daemon", "ended"}], runs : Nat]
  BY DEF Behind
<1>2. \A k \in Links : index.at[k] # "none" => index'.at[k] # "none"
  <2>1. index'.at = [index.at EXCEPT ![l] = at] BY DEF Behind
  <2>2. QED BY <2>1 DEF Behind
<1>3. QED BY <1>1, <1>2 DEF Behind

\* Every step keeps an overtaken index behind.
LEMMA BehindKeeps ==
    ASSUME Behind, [ResultsNext]_resultsVars
    PROVE  Behind'
<1>1. CASE index' = index /\ epochs' = epochs /\ history' = history
  BY <1>1 DEF Behind
<1>2. ASSUME NEW s, SearchStep(s) PROVE Behind'
  <2>1. CASE Submit(s) \/ Render(s)
    BY <2>1, OvertakeKeeps DEF Submit, Render
  <2>2. CASE Ensured(s) \/ SearchFails(s)
    BY <1>1, <2>2 DEF Ensured, SearchFails, indexVars
  <2>3. QED BY <1>2, <2>1, <2>2 DEF SearchStep
<1>3. ASSUME NEW l \in Links, IndexStep(l) PROVE Behind'
  <2>1. CASE Add(l) BY <2>1, BeginKeeps DEF Add
  <2>2. CASE ~Add(l)
    <3>1. /\ \E at \in {"browser", "daemon", "ended"} : index' = [index EXCEPT !.at[l] = at]
          /\ epochs' = epochs /\ history' = history
      BY <1>3, <2>2 DEF IndexStep, IndexEnsured, FallsBack, Indexed,
         IndexFails, NoBackend, IndexEnds, pageVars
    <3>2. QED BY <3>1, IndexGoesOn
  <2>3. QED BY <2>1, <2>2
<1>4. CASE Resume BY <1>4, BeginKeeps DEF Resume
<1>5. CASE \/ Toggle \/ AskRowDrop \/ AskPeerBlock \/ Dropped
           \/ Dismiss \/ CloseEvent \/ Installed \/ CloseInstall
           \/ UNCHANGED resultsVars
  <2>1. index' = index /\ epochs' = epochs /\ history' = history
    BY <1>5 DEF Toggle, AskRowDrop, AskPeerBlock, AskDrop, Dropped,
       Dismiss, CloseEvent, Installed, CloseInstall, resultsVars,
       pageVars, indexVars
  <2>2. QED BY <1>1, <2>1
<1>6. QED BY <1>2, <1>3, <1>4, <1>5 DEF ResultsNext

\* An index takes the screen only if no search has taken it since the index
\* began, unless another index followed it (app.js, flushPendingIndex).
THEOREM IndexesYield == ResultsSpec => IndexYields
<1> DEFINE Inv == DialogInv /\ YieldInv
           Yields == \A l \in Links \ history.followed :
                        area' # area /\ area' = IndexedArea(l) => l \notin history.overtaken
<1>1. ResultsInit => Inv
  <2> SUFFICES ASSUME ResultsInit PROVE Inv
    OBVIOUS
  <2>1. DialogInv
    <3>1. dialog = [open |-> FALSE, closing |-> 0, pending |-> NoLink] BY DEF ResultsInit
    <3>2. QED BY <3>1 DEF DialogInv, PendingIsShown
  <2>2. Behind
    <3>1. /\ index = [at |-> [l \in Links |-> "none"], runs |-> 0]
          /\ epochs = [results |-> 0, index |-> 0]
          /\ history = [overtaken |-> {}, followed |-> {}]
      BY DEF ResultsInit
    <3>2. QED BY <3>1 DEF Behind
  <2>3. AreaOK(area)
    <3>1. area = [rows |-> {}, hidden |-> {}, count |-> [says |-> "", n |-> 0]]
      BY DEF ResultsInit
    <3>2. QED BY <3>1 DEF AreaOK
  <2>4. QED BY <2>1, <2>2, <2>3 DEF YieldInv
<1>2. Inv /\ [ResultsNext]_resultsVars => Inv' /\ AreaStep
  <2> SUFFICES ASSUME Inv, [ResultsNext]_resultsVars PROVE Inv' /\ AreaStep
    OBVIOUS
  <2>1. DialogInv' BY DialogKeeps
  <2>2. AreaStep BY AreaSteps
  <2>3. Behind' BY BehindKeeps DEF YieldInv
  <2>4. AreaOK(area)' BY <2>2 DEF AreaStep, AreaOK
  <2>5. QED BY <2>1, <2>2, <2>3, <2>4 DEF YieldInv
<1>3. Inv /\ AreaStep => Yields
  <2> SUFFICES ASSUME Inv, AreaStep, NEW l \in Links \ history.followed,
                      area' # area, area' = IndexedArea(l)
               PROVE  l \notin history.overtaken
    OBVIOUS
  <2>1. epochs.results = epochs.index BY DEF AreaStep
  <2>2. ~(epochs.index < epochs.results) BY <2>1 DEF YieldInv, Behind
  <2>3. history.overtaken \subseteq history.followed BY <2>2 DEF YieldInv, Behind
  <2>4. QED BY <2>3
<1>4. Inv /\ [ResultsNext]_resultsVars => [Yields]_resultsVars
  BY <1>2, <1>3
<1>5. ResultsSpec => [][Yields]_resultsVars
  <2> HIDE DEF Inv, Yields
  <2>1. Inv /\ [ResultsNext]_resultsVars => Inv' BY <1>2
  <2>2. QED BY <1>1, <1>4, <2>1, PTL DEF ResultsSpec
<1>6. QED BY <1>5 DEF IndexYields
=============================================================================
