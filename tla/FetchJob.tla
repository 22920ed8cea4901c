------------------------------ MODULE FetchJob ------------------------------
(***************************************************************************)
(* Fetching a record through the local web server (av-cli/src/web):        *)
(* `POST /api/view/fetch` starts a thread and a job, the thread reports to *)
(* the job, and the page polls `GET /api/view/fetch/<job>?since=N` for     *)
(* what it has not seen until the job is done, then opens the link.        *)
(*                                                                         *)
(* The job table is behind one mutex, so an access to it is one action.    *)
(* What is between two accesses is not: a thread may report, finish, hang  *)
(* or panic between two polls, and time passes.  A job id is used by the   *)
(* page that started it and by nobody else, so jobs are indexed by page.   *)
(***************************************************************************)
EXTENDS Sequences, FiniteSetsExt

CONSTANTS
    Pages,      \* pages that fetch a record, once each
    MaxEvents,  \* MAX_EVENTS
    Retain,     \* RETAIN, in units of time
    ViewTtl,    \* VIEW_TTL, in the same units
    Reports,    \* bound: the progress events a fetch reports
    MayPanic,   \* pages whose fetch can panic
    MayLeave,   \* pages that can be closed, or lose a poll
    None

ASSUME MaxEventsAssumption == MaxEvents \in Nat \ {0}
ASSUME TimesAssumption == Retain \in Nat \ {0} /\ ViewTtl \in Nat \ {0}
ASSUME ReportsAssumption == Reports \in Nat

Kind == {"progress", "done", "error"}
Event == [seq : Nat, kind : Kind]

Job == [events : Seq(Event), next : Nat, finished : BOOLEAN, age : 0 .. Retain]

ASSUME NoneIsNoJob == None \notin Job \cup Nat \cup Kind

VARIABLES
    jobs,    \* the job of each page, or None
    thread,  \* where the fetch thread of each page is
    link,    \* the age of the viewer link it published, or None
    page     \* the polling loop of each page

vars == <<jobs, thread, link, page>>

ThreadState == {"none", "running", "finishing", "ended", "panicked"}

\* since: the cursor; last: the kind of the last event handled, or None;
\* got: the sequence numbers of the events handled, in the order they came.
PageState == [at : {"idle", "polling", "opened", "unfinished", "lost", "gone"},
              since : Nat, last : Kind \cup {None}, got : Seq(Nat)]

Waiting == [at |-> "idle", since |-> 0, last |-> None, got |-> << >>]

Init ==
    /\ jobs = [p \in Pages |-> None]
    /\ thread = [p \in Pages |-> "none"]
    /\ link = [p \in Pages |-> None]
    /\ page = [p \in Pages |-> Waiting]

-----------------------------------------------------------------------------
(* The job table                                                           *)

NewJob == [events |-> << >>, next |-> 0, finished |-> FALSE, age |-> 0]

\* Mutant: only a finished job expires.
ExpiredOnceFinished(job) == job # None /\ job.finished /\ job.age = Retain

Expired(job) == job # None /\ job.age = Retain

\* prune, which start and read call first.
Pruned == [p \in Pages |-> IF Expired(jobs[p]) THEN None ELSE jobs[p]]

\* push: one event at most is over the limit, and the oldest goes.
Pushed(job, kind) ==
    IF job = None \/ job.finished THEN job
    ELSE LET grown == Append(job.events, [seq |-> job.next, kind |-> kind])
         IN  [job EXCEPT !.next = @ + 1,
                         !.events = IF Len(grown) > MaxEvents THEN Tail(grown) ELSE grown]

Finished(job) == IF job = None THEN None ELSE [job EXCEPT !.finished = TRUE]

\* What a filter keeps of a log in which sequence numbers only grow: all from
\* the first event on that is kept.
From(events, kept) ==
    IF kept = {} THEN << >> ELSE SubSeq(events, Min(kept), Len(events))

\* Mutant: the cursor is taken for the last event the page has seen.
UnseenAfter(job, since) ==
    From(job.events, {k \in DOMAIN job.events : job.events[k].seq > since})

\* read: the events the page has not seen.
Unseen(job, since) ==
    From(job.events, {k \in DOMAIN job.events : job.events[k].seq >= since})

-----------------------------------------------------------------------------
(* The fetch thread                                                        *)

\* view_fetch, once the location guard and the backend check let it through.
StartFetch(p) ==
    /\ page[p].at = "idle"
    /\ jobs' = [Pruned EXCEPT ![p] = NewJob]
    /\ thread' = [thread EXCEPT ![p] = "running"]
    /\ page' = [page EXCEPT ![p].at = "polling"]
    /\ UNCHANGED link

Report(p) ==
    /\ thread[p] = "running"
    /\ jobs[p] # None
    /\ jobs[p].next < Reports
    /\ jobs' = [jobs EXCEPT ![p] = Pushed(@, "progress")]
    /\ UNCHANGED <<thread, link, page>>

\* Mutant: the job is marked finished before the outcome is pushed.
FinishThenPushDone(p) ==
    /\ thread[p] = "running"
    /\ jobs' = [jobs EXCEPT ![p] = Pushed(Finished(@), "done")]
    /\ thread' = [thread EXCEPT ![p] = "finishing"]
    /\ link' = [link EXCEPT ![p] = 0]
    /\ UNCHANGED page

\* fetch_and_publish returned Ok: the link is live, and the event leads to it.
PushDone(p) ==
    /\ thread[p] = "running"
    /\ jobs' = [jobs EXCEPT ![p] = Pushed(@, "done")]
    /\ thread' = [thread EXCEPT ![p] = "finishing"]
    /\ link' = [link EXCEPT ![p] = 0]
    /\ UNCHANGED page

PushError(p) ==
    /\ thread[p] = "running"
    /\ jobs' = [jobs EXCEPT ![p] = Pushed(@, "error")]
    /\ thread' = [thread EXCEPT ![p] = "finishing"]
    /\ UNCHANGED <<link, page>>

Finish(p) ==
    /\ thread[p] = "finishing"
    /\ jobs' = [jobs EXCEPT ![p] = Finished(@)]
    /\ thread' = [thread EXCEPT ![p] = "ended"]
    /\ UNCHANGED <<link, page>>

\* A panic while fetching or typing the bytes unwinds past `finish`.
Panic(p) ==
    /\ p \in MayPanic
    /\ thread[p] = "running"
    /\ thread' = [thread EXCEPT ![p] = "panicked"]
    /\ UNCHANGED <<jobs, link, page>>

-----------------------------------------------------------------------------
(* The page                                                                *)

\* The loop over the events of an update stops at the first outcome.
Handled(es) ==
    LET outcomes == {k \in DOMAIN es : es[k].kind # "progress"}
    IN  IF outcomes = {} THEN es ELSE SubSeq(es, 1, Min(outcomes))

SeqNumbers(es) == [k \in DOMAIN es |-> es[k].seq]

Outcome(last) == IF last = "done" THEN "opened" ELSE "unfinished"

\* view_fetch_status, for a job that is there: what the page has not seen.
Update(p) ==
    [events |-> Unseen(Pruned[p], page[p].since),
     next   |-> Pruned[p].next,
     done   |-> Pruned[p].finished]

\* One round of the loop: the read under the mutex, and what the page does
\* with the answer.  A page has one request under way at a time.
Poll(p) ==
    /\ page[p].at = "polling"
    /\ jobs' = Pruned
    /\ IF Pruned[p] = None
       THEN page' = [page EXCEPT ![p].at = "lost"]
       ELSE \E new \in {Handled(Update(p).events)} :
            LET last == IF new = << >> THEN page[p].last ELSE new[Len(new)].kind
            IN  page' = [page EXCEPT
                            ![p].since = Update(p).next,
                            ![p].last  = last,
                            ![p].got   = @ \o SeqNumbers(new),
                            ![p].at    = IF Update(p).done THEN Outcome(last) ELSE @]
    /\ UNCHANGED <<thread, link>>

\* A poll that fails on its way ends the loop as well.
PollFails(p) ==
    /\ p \in MayLeave
    /\ page[p].at = "polling"
    /\ page' = [page EXCEPT ![p].at = "lost"]
    /\ UNCHANGED <<jobs, thread, link>>

Leave(p) ==
    /\ p \in MayLeave
    /\ page[p].at = "polling"
    /\ page' = [page EXCEPT ![p].at = "gone"]
    /\ UNCHANGED <<jobs, thread, link>>

-----------------------------------------------------------------------------

Older(age, limit) == IF age < limit THEN age + 1 ELSE limit

\* Time passes for every job, and for the viewer of every link; a viewer that
\* has reached its deadline has retired.
Tick ==
    /\ \E p \in Pages : \/ jobs[p] # None /\ jobs[p].age < Retain
                        \/ link[p] # None /\ link[p] < ViewTtl
    /\ jobs' = [p \in Pages |-> IF jobs[p] = None THEN None
                                ELSE [jobs[p] EXCEPT !.age = Older(@, Retain)]]
    /\ link' = [p \in Pages |-> IF link[p] = None THEN None ELSE Older(link[p], ViewTtl)]
    /\ UNCHANGED <<thread, page>>

Next ==
    \/ Tick
    \/ \E p \in Pages :
          \/ StartFetch(p) \/ Report(p) \/ PushDone(p) \/ PushError(p) \/ Finish(p)
          \/ Panic(p) \/ Poll(p) \/ PollFails(p) \/ Leave(p)

\* Time passes, and a page that polls gets an answer.  The fetch itself is
\* under no obligation: a download can take any time, and a panic ends it.
Fairness == WF_vars(Tick) /\ \A p \in Pages : WF_vars(Poll(p))

Spec == Init /\ [][Next]_vars /\ Fairness

-----------------------------------------------------------------------------
\* Types, and the shape of a job: its log is bounded by MAX_EVENTS.
TypeOK ==
    /\ jobs \in [Pages -> Job \cup {None}]
    /\ \A p \in Pages : jobs[p] # None => Len(jobs[p].events) <= MaxEvents
    /\ thread \in [Pages -> ThreadState]
    /\ link \in [Pages -> (0 .. ViewTtl) \cup {None}]
    /\ page \in [Pages -> PageState]

InOrder(got) == \A k \in DOMAIN got : k > 1 => got[k - 1] < got[k]

(***************************************************************************)
(* "Events are delivered once and in order": whatever was trimmed off the  *)
(* log between two polls, no event is handled twice or after a later one,  *)
(* and the cursor leaves nothing behind: an event that is still in the log *)
(* and that the page will not ask for again was handled by it.             *)
(***************************************************************************)
EachEventOnce ==
    \A p \in Pages :
        /\ InOrder(page[p].got)
        /\ jobs[p] # None =>
               \A k \in DOMAIN jobs[p].events :
                  jobs[p].events[k].seq < page[p].since =>
                     \E n \in DOMAIN page[p].got : page[p].got[n] = jobs[p].events[k].seq

(***************************************************************************)
(* The page's verdict is the thread's: it opens a link that was published, *)
(* and says that the daemon did not finish the fetch only when it failed.  *)
(* In particular the outcome is never among the events trimmed off a long  *)
(* log, and the page never sees `done` before the outcome.                 *)
(***************************************************************************)
VerdictIsTrue ==
    \A p \in Pages :
        /\ page[p].at = "opened" => link[p] # None
        /\ page[p].at = "unfinished" => link[p] = None /\ thread[p] = "ended"

(***************************************************************************)
(* The page never polls forever, whatever becomes of the fetch thread: one *)
(* that hangs or panics never calls `finish`, and only RETAIN ends it.     *)
(***************************************************************************)
PageStops == \A p \in Pages : page[p].at = "polling" ~> page[p].at # "polling"

(***************************************************************************)
(* The doc of RETAIN: it is how long a job "and its events are kept after  *)
(* it finishes", so the job of a fetch that is running is there.           *)
(***************************************************************************)
KeptWhileRunning ==
    \A p \in Pages : thread[p] \in {"running", "finishing"} => jobs[p] # None

(***************************************************************************)
(* The doc of RETAIN again: it "matches the viewer's own lifetime, so a    *)
(* job cannot outlive the token it leads to".                              *)
(***************************************************************************)
LinkOutlivesJob ==
    \A p \in Pages : Pruned[p] # None /\ link[p] # None => link[p] < ViewTtl
=============================================================================
