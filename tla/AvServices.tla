----------------------------- MODULE AvServices -----------------------------
(***************************************************************************)
(* Bringing the network services up and down: what the threads of the web  *)
(* server (web/state.rs, web/handlers.rs), a command that starts up        *)
(* (startup.rs) and `av stop` do with the x0x daemon, with the background  *)
(* listener and with the snapshot of both that a search goes by.           *)
(*                                                                         *)
(* A caller makes one call.  The installers, which only make it possible   *)
(* to start a daemon, are left out: x0x is installed.                      *)
(***************************************************************************)
EXTENDS AvListenerProc

CONSTANTS
    Kinds,      \* the calls each caller can make
    MaxCalls    \* bound: the calls made

ThreadKinds == {"ensure", "start_x0x", "stop_x0x", "search", "listener_start", "stop"}
CommandKinds == {"command", "stop"}

ASSUME KindsAssumption ==
    \A c \in Callers :
        Kinds[c] \subseteq IF c \in Threads THEN ThreadKinds ELSE CommandKinds

VARIABLES
    x0x,        \* the daemon
    silent,     \* the services that take a connection and do not answer on it
    snapshot,   \* whether AppState.startup has an x0x_config
    lock,       \* who holds services_lock
    call,       \* the call of each caller
    steadyUp,   \* history: the daemon has answered since the call began
    overtaken,  \* history: an older probe was stored since the call began
    undisturbed \* history: only ensure_services has had to do with listeners

servicesVars == <<x0x, silent, snapshot, lock, call, steadyUp, overtaken, undisturbed>>
vars == <<procVars, servicesVars>>

CallSteps == {"waiting", "lock", "probe", "start", "poll", "listener", "write",
              "refresh", "store", "halt", "wait_down", "needs", "decide",
              "sweep", "term", "wait", "kill", "recheck", "clear", "tell", "returned"}

CallState == [at : CallSteps, kind : ThreadKinds \cup CommandKinds,
              pid : Pids \cup {None},   \* the process being spawned or stopped
              targets : SUBSET Pids,    \* the processes still to be stopped
              stopped : SUBSET Pids,    \* the processes stop_all reports
              swept : BOOLEAN,          \* the tracked process has been read
              force : BOOLEAN,
              up : BOOLEAN]             \* what the last probe of x0x said

NoCall == [at |-> "waiting", kind |-> "stop", pid |-> None, targets |-> {},
           stopped |-> {}, swept |-> FALSE, force |-> FALSE, up |-> FALSE]

ServicesTypeOK ==
    /\ ProcTypeOK
    /\ x0x \in {"down", "starting", "up", "stopping"}
    /\ silent \subseteq {"x0x", "antd"}
    /\ snapshot \in BOOLEAN
    /\ lock \in Threads \cup {None}
    /\ call \in [Callers -> CallState]
    /\ \A c \in Callers :
          call[c].at \in {"write", "wait", "kill", "recheck"} <=> call[c].pid # None

Init ==
    /\ ProcInit
    /\ x0x \in {"down", "up"}
    /\ silent = {}
    /\ snapshot = (x0x = "up")
    /\ lock = None
    /\ call = [c \in Callers |-> NoCall]
    /\ steadyUp = [c \in Callers |-> FALSE]
    /\ overtaken = [c \in Callers |-> FALSE]
    /\ undisturbed = TRUE

\* x0x_running: the health endpoint answers.
Answers == x0x \in {"up", "stopping"}

\* A request to a service has a deadline for the connection and none for the
\* answer, so it comes back only from one that answers or is not there.
Heard(services) == silent \cap services = {}

At(c, s) == call[c].at = s
Become(c, state) == call' = [call EXCEPT ![c] = state]
Goto(c, s) == Become(c, [call[c] EXCEPT !.at = s])

\* The history kept of the daemon: it answers from the begin of a call on.
Watch ==
    /\ steadyUp' = [c \in Callers |->
          /\ call'[c].kind = "search"
          /\ call[c].at = "waiting" \/ steadyUp[c]
          /\ x0x' \in {"up", "stopping"}]
    /\ UNCHANGED overtaken

Keep == UNCHANGED <<snapshot, lock>> /\ Watch

-----------------------------------------------------------------------------
\* A call begins.  Only ensure_services takes the lock; a stop, a command and
\* the drawer's listener button go ahead.
Begin(c, k, force) ==
    /\ At(c, "waiting")
    /\ Cardinality({d \in Callers : ~At(d, "waiting")}) < MaxCalls
    /\ k \in Kinds[c]
    /\ force => k = "stop" /\ c \in Commands
    /\ Become(c, [NoCall EXCEPT
          !.at = CASE k = "ensure" -> "lock"
                   [] k = "command" \/ (k = "stop" /\ c \in Commands) -> "probe"
                   [] k = "start_x0x" -> "start"
                   [] k = "stop_x0x" -> "halt"
                   [] k = "search" -> "needs"
                   [] k = "listener_start" -> "listener"
                   [] k = "stop" /\ c \notin Commands -> "sweep",
          !.kind = k, !.force = force])
    /\ owed' = [owed EXCEPT ![c] = IF k = "stop" THEN Listening ELSE {}]
    /\ undisturbed' = (undisturbed /\ k \notin {"command", "listener_start", "stop"})
    /\ UNCHANGED <<process, parent, doomed, pidfile, mishaps, x0x, silent>>
    /\ Keep

\* run_startup_checks asks both services, whatever the command is, and starts
\* the listener only if the daemon was there then; av stop goes on to stop.
Probe(c) ==
    /\ At(c, "probe")
    /\ Heard(IF call[c].kind = "ensure" THEN {"x0x"} ELSE {"x0x", "antd"})
    /\ Goto(c, CASE call[c].kind = "stop" -> "sweep"
                 [] call[c].kind # "stop" /\ Answers -> "listener"
                 [] OTHER -> "start")
    /\ UNCHANGED <<procVars, x0x, undisturbed>>
    /\ Keep

\* Mutant: nothing serialises the callers.
TakeNoLock(c) ==
    /\ At(c, "lock")
    /\ Goto(c, "probe")
    /\ UNCHANGED <<procVars, x0x, undisturbed>>
    /\ Keep

\* ensure_services waits for the lock, and holds it while it looks for the daemon.
TakeLock(c) ==
    /\ At(c, "lock")
    /\ lock = None
    /\ lock' = c
    /\ Goto(c, "probe")
    /\ UNCHANGED <<procVars, x0x, snapshot, undisturbed>>
    /\ Watch

\* The call returns.
Finish(c, state) ==
    /\ Become(c, [NoCall EXCEPT !.at = "returned", !.kind = state.kind])
    /\ lock' = IF lock = c THEN None ELSE lock
    /\ UNCHANGED procVars

-----------------------------------------------------------------------------
(* The daemon                                                              *)

\* start_x0x_daemon spawns `x0x start`, or the spawn fails.
StartX0x(c) ==
    /\ At(c, "start")
    /\ \/ x0x' = (IF x0x = "down" THEN "starting" ELSE x0x)
       \/ UNCHANGED x0x
    /\ Goto(c, "poll")
    /\ UNCHANGED <<procVars, undisturbed>>
    /\ Keep

\* For eight seconds it is asked whether it answers, and no question has a deadline.
PollX0x(c) ==
    /\ At(c, "poll") /\ Heard({"x0x"})
    /\ CASE call[c].kind = "ensure" ->
               Goto(c, IF Answers THEN "listener" ELSE "refresh")
                  /\ UNCHANGED <<procVars, lock>>
         [] call[c].kind = "start_x0x" -> Goto(c, "refresh") /\ UNCHANGED <<procVars, lock>>
         [] call[c].kind = "command" -> Finish(c, call[c])
    /\ UNCHANGED <<x0x, snapshot, undisturbed>>
    /\ Watch

\* stop_x0x_daemon invokes `x0x stop`, which may fail, and waits for its end.
StopX0x(c) ==
    /\ At(c, "halt") /\ Heard({"x0x"})
    /\ \/ Answers /\ x0x' = "stopping" /\ Goto(c, "wait_down")
       \/ UNCHANGED x0x /\ Goto(c, "refresh")
    /\ UNCHANGED <<procVars, undisturbed>>
    /\ Keep

\* It waits until the daemon is silent, for three seconds at most.
WaitDown(c) ==
    /\ At(c, "wait_down") /\ Heard({"x0x"})
    /\ Goto(c, "refresh")
    /\ UNCHANGED <<procVars, x0x, undisturbed>>
    /\ Keep

X0xAnswers == x0x = "starting" /\ x0x' = "up" /\ UNCHANGED <<silent, mishaps>>
X0xGone == x0x = "stopping" /\ x0x' = "down" /\ silent' = silent \ {"x0x"} /\ UNCHANGED mishaps
X0xCrashes == x0x = "up" /\ x0x' = "down" /\ silent' = silent \ {"x0x"} /\ Mishap

\* A service stops answering, and may or may not answer again.
FallsSilent(service) ==
    /\ service \notin silent
    /\ service = "x0x" => x0x = "up"
    /\ silent' = silent \cup {service}
    /\ Mishap /\ UNCHANGED x0x

AnswersAgain(service) ==
    /\ service \in silent
    /\ silent' = silent \ {service}
    /\ UNCHANGED <<x0x, mishaps>>

-----------------------------------------------------------------------------
(* The snapshot.  refresh_network_deps probes, and only then takes the     *)
(* lock to write.                                                          *)

Refresh(c) ==
    /\ At(c, "refresh") /\ Heard({"x0x", "antd"})
    /\ Become(c, [call[c] EXCEPT !.at = "store", !.up = Answers])
    /\ UNCHANGED <<procVars, x0x, undisturbed>>
    /\ Keep

Store(c) ==
    /\ At(c, "store")
    /\ snapshot' = call[c].up
    /\ IF call[c].kind = "search" THEN Goto(c, "decide") /\ UNCHANGED <<procVars, lock>>
                                  ELSE Finish(c, call[c])
    /\ UNCHANGED steadyUp
    /\ overtaken' = [d \in Callers |->
          call[d].kind = "search" /\ (overtaken[d] \/ (d # c /\ ~call[c].up))]
    /\ UNCHANGED <<x0x, undisturbed>>

\* Mutant: the search trusts the snapshot.
NeedsNothing(c) ==
    /\ At(c, "needs")
    /\ Goto(c, "decide")
    /\ UNCHANGED <<procVars, x0x, undisturbed>>
    /\ Keep

\* A search refreshes a snapshot that says "not running".
NeedsRefresh(c) ==
    /\ At(c, "needs")
    /\ Goto(c, IF snapshot THEN "decide" ELSE "refresh")
    /\ UNCHANGED <<procVars, x0x, undisturbed>>
    /\ Keep

\* It takes the read guard, and asks the network or not.
Decide(c) ==
    /\ At(c, "decide")
    /\ Finish(c, call[c])
    /\ UNCHANGED <<x0x, snapshot, undisturbed>>
    /\ Watch

-----------------------------------------------------------------------------
(* ensure_running                                                          *)

\* ensure_services goes on to the snapshot; the page's button tells what runs, and
\* a command goes on with what it was invoked for and exits.
Ensured(c) ==
    /\ Become(c, [NoCall EXCEPT
          !.at = CASE call[c].kind = "ensure" -> "refresh"
                   [] call[c].kind = "listener_start" -> "tell"
                   [] OTHER -> "returned",
          !.kind = call[c].kind])
    /\ UNCHANGED lock

CheckListener(c) ==
    /\ At(c, "listener")
    /\ \/ IsRunning /\ Ensured(c) /\ UNCHANGED procVars
       \/ /\ ~IsRunning
          /\ \E p \in Pids :
                Spawn(c, p) /\ Become(c, [call[c] EXCEPT !.at = "write", !.pid = p])
          /\ UNCHANGED lock
       \/ ~IsRunning /\ Ensured(c) /\ UNCHANGED procVars
    /\ UNCHANGED <<x0x, snapshot, undisturbed>>
    /\ Watch

WriteListenerPid(c) ==
    /\ At(c, "write")
    /\ WritePid(call[c].pid)
    /\ Ensured(c)
    /\ UNCHANGED <<process, parent, doomed, owed, mishaps, x0x, snapshot, undisturbed>>
    /\ Watch

\* probe_dependencies, for the process id in the answer.
Tell(c) ==
    /\ At(c, "tell") /\ Heard({"x0x", "antd"})
    /\ Finish(c, call[c])
    /\ UNCHANGED <<x0x, snapshot, undisturbed>>
    /\ Watch

-----------------------------------------------------------------------------
(* stop_all                                                                *)

Sweep(c) ==
    /\ At(c, "sweep")
    /\ Become(c, [call[c] EXCEPT !.at = "term", !.targets = FindListenerPids])
    /\ UNCHANGED <<procVars, x0x, undisturbed>>
    /\ Keep

\* terminated: a process that is gone is skipped, another is signalled.
Terminate(c, p) ==
    /\ At(c, "term") /\ p \in call[c].targets
    /\ IF ProcessAlive(p)
       THEN /\ Signal(p)
            /\ Become(c, [call[c] EXCEPT !.pid = p, !.targets = @ \ {p},
                             !.at = IF call[c].force THEN "recheck" ELSE "wait"])
       ELSE /\ Become(c, [call[c] EXCEPT !.targets = @ \ {p}])
            /\ UNCHANGED procVars
    /\ UNCHANGED <<x0x, undisturbed>>
    /\ Keep

Stopped(c) == [call[c] EXCEPT !.at = "term", !.stopped = @ \cup {call[c].pid}, !.pid = None]
NotStopped(c) == [call[c] EXCEPT !.at = "term", !.pid = None]

\* Mutant: the wait has no deadline.
WaitForEver(c) ==
    /\ At(c, "wait")
    /\ ~ProcessAlive(call[c].pid)
    /\ Become(c, Stopped(c))
    /\ UNCHANGED <<procVars, x0x, undisturbed>>
    /\ Keep

\* It is seen to go within three seconds, or it is killed.
WaitGone(c) ==
    /\ At(c, "wait")
    /\ \/ ~ProcessAlive(call[c].pid) /\ Become(c, Stopped(c))
       \/ ProcessAlive(call[c].pid) /\ Goto(c, "kill")
    /\ UNCHANGED <<procVars, x0x, undisturbed>>
    /\ Keep

Kill(c) ==
    /\ At(c, "kill")
    /\ Signal(call[c].pid)
    /\ Goto(c, "recheck")
    /\ UNCHANGED <<x0x, undisturbed>>
    /\ Keep

\* Right after the kill; there is no second wait.
Recheck(c) ==
    /\ At(c, "recheck")
    /\ Become(c, IF ProcessAlive(call[c].pid) THEN NotStopped(c) ELSE Stopped(c))
    /\ UNCHANGED <<procVars, x0x, undisturbed>>
    /\ Keep

\* The process in the PID file, if the sweep has not stopped it.
ReadTracked(c) ==
    /\ At(c, "term") /\ call[c].targets = {}
    /\ Become(c, IF call[c].swept THEN [call[c] EXCEPT !.at = "clear"]
                 ELSE [call[c] EXCEPT !.swept = TRUE,
                           !.targets = ({pidfile} \ {None}) \ call[c].stopped])
    /\ UNCHANGED <<procVars, x0x, undisturbed>>
    /\ Keep

ClearAndReport(c) ==
    /\ At(c, "clear")
    /\ ClearPid
    /\ Become(c, [call[c] EXCEPT !.at = "returned"])
    /\ UNCHANGED <<process, parent, doomed, owed, mishaps, x0x, undisturbed>>
    /\ Keep

-----------------------------------------------------------------------------
Action(c) ==
    \/ TakeLock(c) \/ Probe(c) \/ StartX0x(c) \/ PollX0x(c) \/ StopX0x(c) \/ WaitDown(c)
    \/ Refresh(c) \/ Store(c) \/ NeedsRefresh(c) \/ Decide(c)
    \/ CheckListener(c) \/ WriteListenerPid(c) \/ Tell(c)
    \/ Sweep(c) \/ (\E p \in call[c].targets : Terminate(c, p))
    \/ WaitGone(c) \/ Kill(c) \/ Recheck(c) \/ ReadTracked(c) \/ ClearAndReport(c)

Step(c) == Action(c) /\ UNCHANGED silent

Environment ==
    \/ /\ X0xAnswers \/ X0xGone \/ X0xCrashes
          \/ \E service \in {"x0x", "antd"} : FallsSilent(service) \/ AnswersAgain(service)
       /\ UNCHANGED <<process, parent, doomed, pidfile, owed, call, undisturbed>>
       /\ Keep
    \/ /\ \E c \in Commands : At(c, "returned") /\ Adopt(c)
       /\ UNCHANGED servicesVars
    \/ /\ ProcessNext
       /\ undisturbed' = (undisturbed /\ ~\E p \in Pids : UserListens(p))
       /\ UNCHANGED <<x0x, silent, snapshot, lock, call, steadyUp, overtaken>>

Next ==
    \/ \E c \in Callers, k \in ThreadKinds \cup CommandKinds, force \in BOOLEAN :
          Begin(c, k, force)
    \/ \E c \in Callers : Step(c)
    \/ Environment

\* A thread and a command run on, as far as no service keeps them waiting.  Nothing
\* is promised of the services or of the processes that were spawned.
Spec == Init /\ [][Next]_vars /\ \A c \in Callers : WF_vars(Step(c))

-----------------------------------------------------------------------------
(* Properties                                                              *)

(***************************************************************************)
(* When a stop is done, every listener that ran when it began is dead or   *)
(* has a fatal signal pending, also those the PID file did not name,       *)
(* whatever is spawned, registered or stopped meanwhile (stop.rs: "you can *)
(* be sure no stale responder is still active").                           *)
(***************************************************************************)
StopEndsAll == \A c \in Callers : At(c, "clear") => owed[c] \subseteq doomed

(***************************************************************************)
(* ensure_services never starts a second listener: as long as no unlocked  *)
(* caller, no stop and no death of a listener interferes, at most one is   *)
(* alive, however the calls of the page, of a search and of the boot       *)
(* thread overlap (state.rs: "The loser waits, then finds the services     *)
(* already up").                                                           *)
(***************************************************************************)
OneListener == undisturbed => Cardinality(Listening) <= 1

(***************************************************************************)
(* A search asks the network when the daemon has answered since before it  *)
(* began, unless the result of an older probe overtakes its own            *)
(* (handlers.rs: "so 'x0x is running' always reaches the one read that     *)
(* decides").                                                              *)
(***************************************************************************)
SearchSeesDaemon ==
    \A c \in Callers :
        At(c, "decide") /\ steadyUp[c] /\ ~overtaken[c] => snapshot

(***************************************************************************)
(* Every call returns once the services that take connections answer them, *)
(* though x0x never comes up, the lock is contended, and a listener that   *)
(* was signalled never disappears.  The page's stop returns also while a   *)
(* service is silent and keeps whoever holds services_lock waiting.        *)
(***************************************************************************)
CallsReturn ==
    /\ []<>(\A c \in Threads :
              call[c].kind = "stop" => At(c, "waiting") \/ At(c, "returned"))
    /\ <>[](silent = {}) => []<>(\A c \in Callers : At(c, "waiting") \/ At(c, "returned"))

(***************************************************************************)
(* `av stop` returns, whatever the network does (startup.rs: "Stop (must   *)
(* work while the network is down)").                                      *)
(***************************************************************************)
StopReturns ==
    []<>(\A c \in Callers :
           call[c].kind = "stop" => At(c, "waiting") \/ At(c, "returned"))

(***************************************************************************)
(* ensure_running returns TRUE only if it spawned a listener or one was    *)
(* running (listener.rs: "Returns `true` if a listener was already running *)
(* or was successfully spawned").                                          *)
(***************************************************************************)
EnsureIsTrue ==
    \A c \in Callers :
        At(c, "listener") /\ IsRunning => pidfile \in Listening
=============================================================================
