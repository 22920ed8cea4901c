----------------------------- MODULE AvWebServer -----------------------------
(***************************************************************************)
(* The process behind `av web`: the workers that accept requests, the      *)
(* detached thread that answers each of them, the throwaway listeners that *)
(* show a downloaded file on an origin of its own, and the way all of them *)
(* end (av-cli/src/web: mod.rs, server.rs, viewer.rs).                     *)
(*                                                                         *)
(* What a handler does to the database is the subject of AvStore and       *)
(* AvNames; here a handler has one effect, made from the body it was       *)
(* given.  A body is its number of bytes.                                  *)
(***************************************************************************)
EXTENDS Naturals

CONSTANTS
    Requests,    \* the requests that arrive
    Workers,     \* the accepting threads
    MaxBody,     \* MAX_BODY
    IndexBody,   \* index_body_cap()
    PlanPrefix,  \* PLAN_PREFIX_CAP
    ViewTTL,     \* VIEW_TTL, in units of time
    Sizes,       \* bound: the sizes a body can have
    MayFail      \* bound: the workers whose server socket can fail

ASSUME CapsAssumption ==
    /\ PlanPrefix \in Nat /\ MaxBody \in Nat /\ IndexBody \in Nat \ {0}
    /\ PlanPrefix < MaxBody
ASSUME SizesAssumption == Sizes \subseteq Nat
ASSUME ViewAssumption == ViewTTL \in Nat \ {0}

\* GET of a page or of /api/ping; a POST by what is done with its body: its text
\* is parsed or left unread, its bytes are shown, indexed or planned for.
Uploads == {"blob", "index", "plan"}
Posts == {"json", "bare"} \cup Uploads
RequestKinds == {"page"} \cup Posts

\* Who sends it: our page or a program, content shown on a view's port, a page on
\* another site, or a page that reached us by another host name.  A site has no
\* port, so to a browser the content of a view is of the same site.
Senders == {"ours", "same_site", "cross_site", "rebound"}

VARIABLES
    process,   \* web::run
    shutdown,  \* the flag of server::serve
    stopped,   \* viewer::STOPPED
    worker,    \* the accepting threads
    request,   \* the requests and the threads that answer them
    view,      \* the listener each request may have published
    spool,     \* the requests whose temp file exists
    effects    \* history: what handlers did, from which body

serverVars == <<process, shutdown, stopped, worker, request, view, spool, effects>>

RequestState == [at : {"none", "queued", "handling", "reading", "spooling", "spooled",
                       "routed", "answered"},
                 kind : RequestKinds, from : Senders,
                 size : Nat,     \* the bytes that are sent
                 value : Nat,    \* of a text: how many of them the JSON value takes
                 body : Nat]     \* the bytes the handler is given

NoRequest == [at |-> "none", kind |-> "page", from |-> "ours",
              size |-> 0, value |-> 0, body |-> 0]

\* Of a request that is answered nothing is left.
Answered == [NoRequest EXCEPT !.at = "answered"]

ViewState == [at : {"none", "serving", "retired"}, age : Nat, file : BOOLEAN]

NoView == [at |-> "none", age |-> 0, file |-> FALSE]

WebTypeOK ==
    /\ process \in {"start", "bound", "serving", "returning", "exited", "killed", "error"}
    /\ shutdown \in BOOLEAN /\ stopped \in BOOLEAN
    /\ worker \in [Workers -> {"none", "polling", "ended"}]
    /\ request \in [Requests -> RequestState]
    /\ view \in [Requests -> ViewState]
    /\ \A r \in Requests : view[r].age <= ViewTTL
    /\ \A r \in Requests : view[r].at = "serving" => view[r].file
    /\ spool \subseteq Requests
    /\ stopped => shutdown \/ \A w \in Workers : worker[w] = "ended"

ServerInit ==
    /\ process = "start"
    /\ shutdown = FALSE
    /\ stopped = FALSE
    /\ worker = [w \in Workers |-> "none"]
    /\ request = [r \in Requests |-> NoRequest]
    /\ view = [r \in Requests |-> NoView]
    /\ spool = {}
    /\ effects = {}

Alive == process \in {"bound", "serving", "returning"}

-----------------------------------------------------------------------------
(* web::run and server::serve                                              *)

\* The database is opened, the starters are seeded and the port is bound, or
\* one of the first and the last fails; a port taken by a server that answers
\* the ping is opened in the browser, which ends this process as well.
Bind ==
    /\ process = "start"
    /\ process' \in {"bound", "error"}
    /\ UNCHANGED <<shutdown, stopped, worker, request, view, spool, effects>>

\* serve spawns the workers.
SpawnWorkers ==
    /\ process = "bound"
    /\ process' = "serving"
    /\ worker' = [w \in Workers |-> "polling"]
    /\ UNCHANGED <<shutdown, stopped, request, view, spool, effects>>

\* The timer thread of `--run-for`.
TimeIsUp ==
    /\ process = "serving"
    /\ shutdown' = TRUE
    /\ UNCHANGED <<process, stopped, worker, request, view, spool, effects>>

\* Every worker has been joined: stop_all, and serve returns.
ServeReturns ==
    /\ process = "serving"
    /\ \A w \in Workers : worker[w] = "ended"
    /\ stopped' = TRUE
    /\ process' = "returning"
    /\ UNCHANGED <<shutdown, worker, request, view, spool, effects>>

\* The threads of a process end with it, and run no destructor.
Ends(how) ==
    /\ process' = how
    /\ worker' = [w \in Workers |-> "ended"]
    /\ request' = [r \in Requests |-> Answered]
    /\ view' = [r \in Requests |->
          IF view[r].at = "serving" THEN [view[r] EXCEPT !.at = "retired"] ELSE view[r]]
    /\ UNCHANGED <<shutdown, stopped, spool, effects>>

\* main returns.
Exit == process = "returning" /\ Ends("exited")

\* Ctrl-C, or a signal.
Killed == Alive /\ Ends("killed")

-----------------------------------------------------------------------------
(* worker_loop                                                             *)

\* The flag is looked at before each wait.
WorkerEnds(w) ==
    /\ worker[w] = "polling"
    /\ shutdown \/ w \in MayFail
    /\ worker' = [worker EXCEPT ![w] = "ended"]
    /\ UNCHANGED <<process, shutdown, stopped, request, view, spool, effects>>

\* Mutant: the worker answers the request itself.
AcceptInline(w, r) ==
    /\ worker[w] = "polling"
    /\ request[r].at = "queued"
    /\ request' = [request EXCEPT ![r].at = "handling"]
    /\ worker' = [worker EXCEPT ![w] = "none"]
    /\ UNCHANGED <<process, shutdown, stopped, view, spool, effects>>

\* Each request is handled on a thread of its own.
Accept(w, r) ==
    /\ worker[w] = "polling"
    /\ request[r].at = "queued"
    /\ request' = [request EXCEPT ![r].at = "handling"]
    /\ UNCHANGED <<process, shutdown, stopped, worker, view, spool, effects>>

\* A request reaches the socket, where it waits for a worker.
Arrive(r) ==
    /\ process \in {"bound", "serving"}
    /\ request[r].at = "none"
    /\ \E k \in RequestKinds, f \in Senders, n \in Sizes \cup {0}, v \in Sizes \cup {0} :
          /\ k = "page" <=> n = 0
          /\ IF k = "json" THEN v \in 1 .. n ELSE v = 0
          /\ request' = [request EXCEPT ![r] =
                [at |-> "queued", kind |-> k, from |-> f, size |-> n, value |-> v, body |-> 0]]
    /\ UNCHANGED <<process, shutdown, stopped, worker, view, spool, effects>>

-----------------------------------------------------------------------------
(* handle and route                                                        *)

Goto(r, s) == request' = [request EXCEPT ![r].at = s]
Answer(r) == request' = [request EXCEPT ![r] = Answered]
Given(r, n) == request' = [request EXCEPT ![r].at = "routed", ![r].body = n]

Steps(r, s) == Alive /\ request[r].at = s

\* check_host for every request; check_fetch_site for a POST, which knows only
\* cross-site senders.
Refused(q) == q.from = "rebound" \/ (q.kind \in Posts /\ q.from = "cross_site")

Guard(r) ==
    /\ Steps(r, "handling")
    /\ IF Refused(request[r]) THEN Answer(r)
       ELSE Goto(r, IF request[r].kind = "page" THEN "routed" ELSE "reading")
    /\ UNCHANGED <<process, shutdown, stopped, worker, view, spool, effects>>

\* read_body: the body is cut off at the cap, whether the route parses it or not.
ReadText(r) ==
    /\ Steps(r, "reading") /\ request[r].kind \in {"json", "bare"}
    /\ \/ Given(r, IF request[r].size > MaxBody THEN MaxBody ELSE request[r].size)
       \/ Answer(r)
    /\ UNCHANGED <<process, shutdown, stopped, worker, view, spool, effects>>

BodyCap(k) == IF k = "plan" THEN PlanPrefix ELSE MaxBody

\* Mutant: the body is cut off at the cap here too.
ReadClamped(r) ==
    /\ Steps(r, "reading") /\ request[r].kind \in {"blob", "plan"}
    /\ LET cap == BodyCap(request[r].kind)
       IN  Given(r, IF request[r].size > cap THEN cap ELSE request[r].size) \/ Answer(r)
    /\ UNCHANGED <<process, shutdown, stopped, worker, view, spool, effects>>

\* read_body_bytes and read_body_capped: a larger body is refused.
ReadBytes(r) ==
    /\ Steps(r, "reading") /\ request[r].kind \in {"blob", "plan"}
    /\ \/ request[r].size <= BodyCap(request[r].kind) /\ Given(r, request[r].size)
       \/ Answer(r)
    /\ UNCHANGED <<process, shutdown, stopped, worker, view, spool, effects>>

\* read_body_to_temp: the file is created, or its name is taken.
CreateSpool(r) ==
    /\ Steps(r, "reading") /\ request[r].kind = "index"
    /\ \/ Goto(r, "spooling") /\ spool' = spool \cup {r}
       \/ Answer(r) /\ UNCHANGED spool
    /\ UNCHANGED <<process, shutdown, stopped, worker, view, effects>>

\* Mutant: what was written of the body stays.
CopyAndKeep(r) ==
    /\ Steps(r, "spooling")
    /\ \/ request[r].size <= IndexBody /\ Goto(r, "spooled")
       \/ Answer(r)
    /\ UNCHANGED <<process, shutdown, stopped, worker, view, spool, effects>>

\* copy_capped_to_path: a body that is too large, or that cannot be read or
\* written, is refused and its file removed.
CopyToSpool(r) ==
    /\ Steps(r, "spooling")
    /\ \/ request[r].size <= IndexBody /\ Goto(r, "spooled") /\ UNCHANGED spool
       \/ Answer(r) /\ spool' = spool \ {r}
    /\ UNCHANGED <<process, shutdown, stopped, worker, view, effects>>

\* The file is read back and removed, whichever way the read goes.
ReadSpool(r) ==
    /\ Steps(r, "spooled")
    /\ spool' = spool \ {r}
    /\ Given(r, request[r].size) \/ Answer(r)
    /\ UNCHANGED <<process, shutdown, stopped, worker, view, effects>>

\* A prefix of a JSON value is not one; blanks after it may be cut.
Parses(q) == q.kind = "json" => q.body >= q.value

\* A handler does its work, or refuses, and answers.
Handle(r) ==
    /\ Steps(r, "routed") /\ request[r].kind # "blob"
    /\ Answer(r)
    /\ \/ /\ request[r].kind # "page" /\ Parses(request[r])
          /\ effects' = effects \cup {request[r]}
       \/ UNCHANGED effects
    /\ UNCHANGED <<process, shutdown, stopped, worker, view, spool>>

-----------------------------------------------------------------------------
(* viewer.rs                                                               *)

\* view_blob and viewer::publish: a port is bound, the file is written, a
\* thread serves it, and the answer carries its address; or one of them fails.
PublishView(r) ==
    /\ Steps(r, "routed") /\ request[r].kind = "blob"
    /\ Answer(r)
    /\ \/ /\ view' = [view EXCEPT ![r] = [at |-> "serving", age |-> 0, file |-> TRUE]]
          /\ effects' = effects \cup {request[r]}
       \/ UNCHANGED <<view, effects>>
    /\ UNCHANGED <<process, shutdown, stopped, worker, spool>>

Retire(r) == view' = [view EXCEPT ![r].at = "retired", ![r].file = FALSE]

\* respond: a GET of the token path is answered with the file, anything else
\* is refused; the listener goes on either way.
AnswerView(r) ==
    /\ Alive /\ view[r].at = "serving" /\ view[r].age < ViewTTL
    /\ UNCHANGED serverVars

\* The thread ends and the NamedTempFile is dropped: at the deadline, or when
\* the flag is seen.
ViewEnds(r) ==
    /\ Alive /\ view[r].at = "serving"
    /\ view[r].age = ViewTTL \/ stopped
    /\ Retire(r)
    /\ UNCHANGED <<process, shutdown, stopped, worker, request, spool, effects>>

ViewsAge ==
    /\ Alive
    /\ \E r \in Requests : view[r].at = "serving" /\ view[r].age < ViewTTL
    /\ view' = [r \in Requests |->
          IF view[r].at = "serving" /\ view[r].age < ViewTTL
          THEN [view[r] EXCEPT !.age = @ + 1] ELSE view[r]]
    /\ UNCHANGED <<process, shutdown, stopped, worker, request, spool, effects>>

-----------------------------------------------------------------------------
ServerNext ==
    \/ Bind \/ SpawnWorkers \/ TimeIsUp \/ ServeReturns \/ Exit \/ Killed \/ ViewsAge
    \/ \E w \in Workers : WorkerEnds(w) \/ \E r \in Requests : Accept(w, r)
    \/ \E r \in Requests :
          \/ Arrive(r) \/ Guard(r) \/ ReadText(r) \/ ReadBytes(r) \/ CreateSpool(r)
          \/ CopyToSpool(r) \/ ReadSpool(r) \/ Handle(r)
          \/ PublishView(r) \/ AnswerView(r) \/ ViewEnds(r)

\* The main thread and the workers run.  A handler may hang.
ServerSpec ==
    /\ ServerInit /\ [][ServerNext]_serverVars
    /\ WF_serverVars(ServeReturns) /\ WF_serverVars(Exit)
    /\ \A w \in Workers : WF_serverVars(WorkerEnds(w))

-----------------------------------------------------------------------------
(* Properties                                                              *)

(***************************************************************************)
(* An upload is taken whole or not at all: what is indexed, shown or       *)
(* planned for are all the bytes that were sent, so a body over the cap of *)
(* its route is refused, never cut off (server.rs: "would have indexed a   *)
(* corrupt prefix of a large file and reported success"); and a request    *)
(* that is answered has left no file behind, wherever the upload failed.   *)
(* Neither holds of texts: a command is obeyed if the part that was read   *)
(* is JSON, or if the route has no use for a body.                         *)
(***************************************************************************)
UploadsAreWhole ==
    /\ \A q \in effects : q.kind \in Uploads => q.body = q.size
    /\ process \notin {"exited", "killed"} =>
          \A r \in spool : request[r].at # "answered"

(***************************************************************************)
(* Nothing that a view shows changes anything (viewer.rs: "peer content    *)
(* issuing a simple cross-origin POST back to the main port - is closed by *)
(* the Sec-Fetch-Site guard in server, which sees such a request as        *)
(* cross-site").                                                           *)
(***************************************************************************)
ViewsChangeNothing == \A q \in effects : q.from = "ours"

(***************************************************************************)
(* No temp file of an upload outlives the server.                          *)
(***************************************************************************)
SpoolFilesGo == process = "exited" => spool = {}

(***************************************************************************)
(* Once the time of the server is up it ends, though a handler hangs and   *)
(* views are being served.                                                 *)
(***************************************************************************)
ShutdownEnds == shutdown ~> process \in {"exited", "killed"}

(***************************************************************************)
(* No view's file outlives the server that returns in an orderly way       *)
(* (viewer.rs: "the file is deleted when the thread exits - on expiry, on  *)
(* stop_all, or on process exit - with no cleanup path to forget").        *)
(***************************************************************************)
ViewFilesGo == process = "exited" => \A r \in Requests : ~view[r].file
=============================================================================
