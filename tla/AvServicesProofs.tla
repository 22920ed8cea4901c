-------------------------- MODULE AvServicesProofs --------------------------
(***************************************************************************)
(* Theorems about AvServices, for any pids, threads and commands, whatever *)
(* each of them calls.                                                     *)
(***************************************************************************)
EXTENDS AvServices, FiniteSetTheorems, TLAPS

\* The fields in which a call goes on.
HasPid == {"write", "wait", "kill", "recheck"}

\* The steps that only some calls come to.
OnCourse(k, s) ==
    /\ s = "lock" => k = "ensure"
    /\ s = "probe" => k \in {"ensure", "command", "stop"}
    /\ s = "tell" => k = "listener_start"
    /\ s \in {"start", "poll"} => k \in {"ensure", "command", "start_x0x"}
    /\ s \in {"listener", "write"} => k \in {"ensure", "command", "listener_start"}
    /\ s \in {"needs", "decide"} => k = "search"
    /\ s \in {"halt", "wait_down"} => k = "stop_x0x"
    /\ s \in {"refresh", "store"} => k \in {"ensure", "start_x0x", "stop_x0x", "search"}
    /\ s \in {"sweep", "term", "wait", "kill", "recheck", "clear"} => k = "stop"

Fits(state) ==
    /\ state \in CallState
    /\ state.at \in HasPid <=> state.pid # None
    /\ OnCourse(state.kind, state.at)

CallsFit == call \in [Callers -> CallState] /\ \A c \in Callers : Fits(call[c])

LEMMA NoCallFits == Fits(NoCall)
BY DEF Fits, NoCall, HasPid, OnCourse, CallState, CallSteps, ThreadKinds, CommandKinds

\* Become and Goto change the call of one caller.
LEMMA BecomeOne ==
    ASSUME CallsFit, NEW c \in Callers, NEW s, Fits(s), Become(c, s)
    PROVE  /\ CallsFit'
           /\ call'[c] = s
           /\ \A d \in Callers \ {c} : call'[d] = call[d]
BY DEF CallsFit, Fits, Become

LEMMA GotoOne ==
    ASSUME CallsFit, NEW c \in Callers, NEW s \in CallSteps, Goto(c, s),
           s \in HasPid <=> call[c].at \in HasPid,
           OnCourse(call[c].kind, s)
    PROVE  /\ CallsFit'
           /\ call'[c] = [call[c] EXCEPT !.at = s]
           /\ call'[c].at = s
           /\ call'[c].kind = call[c].kind
           /\ \A d \in Callers \ {c} : call'[d] = call[d]
<1> DEFINE state == [call[c] EXCEPT !.at = s]
<1>1. Fits(state)
  BY DEF CallsFit, Fits, CallState
<1>2. state.kind = call[c].kind /\ state.at = s
  BY DEF CallsFit, Fits, CallState
<1>3. QED BY <1>1, <1>2, BecomeOne DEF Goto

\* What a call becomes when it returns, and when ensure_running does.
Over(state) == [NoCall EXCEPT !.at = "returned", !.kind = state.kind]

LEMMA OverFits ==
    ASSUME NEW s, Fits(s)
    PROVE  Fits(Over(s)) /\ Over(s).at = "returned" /\ Over(s).kind = s.kind
BY DEF Over, Fits, NoCall, HasPid, OnCourse, CallState, CallSteps

LEMMA FinishOne ==
    ASSUME CallsFit, NEW c \in Callers, Finish(c, call[c])
    PROVE  /\ CallsFit'
           /\ call'[c] = Over(call[c])
           /\ call'[c].at = "returned" /\ call'[c].kind = call[c].kind
           /\ \A d \in Callers \ {c} : call'[d] = call[d]
<1>1. LET over == Over(call[c])
      IN  Fits(over) /\ over.at = "returned" /\ over.kind = call[c].kind
  BY OverFits DEF CallsFit
<1>2. Become(c, Over(call[c])) BY DEF Finish, Over
<1>3. QED BY <1>1, <1>2, BecomeOne

Ensuring(state) ==
    [NoCall EXCEPT !.at = CASE state.kind = "ensure" -> "refresh"
                            [] state.kind = "listener_start" -> "tell"
                            [] OTHER -> "returned",
                   !.kind = state.kind]

LEMMA EnsuredOne ==
    ASSUME CallsFit, NEW c \in Callers, Ensured(c)
    PROVE  /\ CallsFit'
           /\ call'[c] = Ensuring(call[c])
           /\ call'[c].at \in {"refresh", "tell", "returned"}
           /\ call'[c].kind = call[c].kind
           /\ \A d \in Callers \ {c} : call'[d] = call[d]
<1> DEFINE k == call[c].kind
           at == CASE k = "ensure" -> "refresh"
                   [] k = "listener_start" -> "tell"
                   [] OTHER -> "returned"
           state == [NoCall EXCEPT !.at = at, !.kind = k]
<1>0. k \in ThreadKinds \cup CommandKinds
  BY DEF CallsFit, Fits, CallState
<1>1. at \in {"refresh", "tell", "returned"} /\ OnCourse(k, at)
  BY DEF OnCourse
<1>2. Become(c, state) /\ Ensuring(call[c]) = state
  BY DEF Ensured, Ensuring
<1> HIDE DEF at, k
<1>4. Fits(state) /\ state.at = at /\ state.kind = k
  BY <1>0, <1>1 DEF Fits, NoCall, HasPid, CallState, CallSteps
<1> HIDE DEF state
<1>3. QED BY <1>1, <1>2, <1>4, BecomeOne DEF k

-----------------------------------------------------------------------------
(* Types                                                                   *)

\* What a step of c leaves of the calls; all but one step lead elsewhere than
\* to "write".
OnlyMoves(c) == CallsFit' /\ \A d \in Callers \ {c} : call'[d] = call[d]

MovesOn(c) ==
    OnlyMoves(c) /\ call'[c].kind = call[c].kind /\ call'[c].at \notin {"waiting", "write"}

\* What the call of c may become.
Suits(c, s) == Fits(s) /\ s.kind = call[c].kind /\ s.at \notin {"waiting", "write"}

LEMMA BecomeMoves ==
    ASSUME CallsFit, NEW c \in Callers, NEW s, Suits(c, s), Become(c, s)
    PROVE  MovesOn(c)
BY BecomeOne DEF MovesOn, OnlyMoves, Suits

LEMMA GotoMoves ==
    ASSUME CallsFit, NEW c \in Callers, NEW s \in CallSteps \ {"waiting", "write"}, Goto(c, s),
           s \in HasPid <=> call[c].at \in HasPid, OnCourse(call[c].kind, s)
    PROVE  MovesOn(c)
BY GotoOne DEF MovesOn, OnlyMoves

\* The other step, of which one outcome writes the PID file next.
LEMMA CheckMoves ==
    ASSUME CallsFit, NEW c \in Callers, CheckListener(c)
    PROVE  /\ OnlyMoves(c) /\ call'[c].kind = call[c].kind
           /\ \/ MovesOn(c) /\ UNCHANGED procVars
              \/ /\ ~IsRunning
                 /\ call'[c].at = "write" /\ call'[c].pid \in Pids /\ Spawn(c, call'[c].pid)
<1>1. Fits(call[c]) /\ At(c, "listener")
  BY DEF CallsFit, CheckListener
<1>2. ASSUME Ensured(c)
      PROVE  MovesOn(c)
  BY <1>2, EnsuredOne DEF MovesOn, OnlyMoves
<1>3. ASSUME NEW p \in Pids, Become(c, [call[c] EXCEPT !.at = "write", !.pid = p])
      PROVE  /\ OnlyMoves(c) /\ call'[c].kind = call[c].kind
             /\ call'[c].at = "write" /\ call'[c].pid = p
  <2> DEFINE state == [call[c] EXCEPT !.at = "write", !.pid = p]
  <2>1. Fits(state) /\ state.kind = call[c].kind /\ state.at = "write" /\ state.pid = p
    BY <1>1, PidsAssumption DEF At, Fits, CallState, CallSteps, HasPid, OnCourse
  <2>2. QED BY <1>3, <2>1, BecomeOne DEF OnlyMoves
<1>4. CASE Ensured(c) /\ UNCHANGED procVars
  BY <1>2, <1>4 DEF MovesOn
<1>5. CASE ~IsRunning /\ \E p \in Pids :
              Spawn(c, p) /\ Become(c, [call[c] EXCEPT !.at = "write", !.pid = p])
  BY <1>3, <1>5
<1>6. QED BY <1>4, <1>5 DEF CheckListener

LEMMA ListenersArePids == FindListenerPids \subseteq Pids
BY DEF FindListenerPids, Listening

LEMMA BeginMoves ==
    ASSUME CallsFit, NEW c \in Callers, NEW k \in ThreadKinds \cup CommandKinds,
           NEW force \in BOOLEAN, Begin(c, k, force)
    PROVE  /\ OnlyMoves(c)
           /\ call'[c].kind = k
           /\ call'[c].at \in {"lock", "probe", "start", "halt", "needs", "listener", "sweep"}
           /\ k = "ensure" => call'[c].at = "lock"
<1> DEFINE at == CASE k = "ensure" -> "lock"
                   [] k = "command" \/ (k = "stop" /\ c \in Commands) -> "probe"
                   [] k = "start_x0x" -> "start"
                   [] k = "stop_x0x" -> "halt"
                   [] k = "search" -> "needs"
                   [] k = "listener_start" -> "listener"
                   [] k = "stop" /\ c \notin Commands -> "sweep"
<1>1. /\ at \in {"lock", "probe", "start", "halt", "needs", "listener", "sweep"}
      /\ OnCourse(k, at)
      /\ k = "ensure" => at = "lock"
  BY DEF ThreadKinds, CommandKinds, OnCourse
<1>2. Become(c, [NoCall EXCEPT !.at = at, !.kind = k, !.force = force])
  BY DEF Begin
<1> HIDE DEF at
<1> DEFINE state == [NoCall EXCEPT !.at = at, !.kind = k, !.force = force]
<1>3. Fits(state) /\ state.at = at /\ state.kind = k
  BY <1>1 DEF Fits, NoCall, HasPid, OnCourse, CallState, CallSteps
<1> HIDE DEF state
<1>4. Become(c, state) BY <1>2 DEF state
<1>5. QED BY <1>1, <1>3, <1>4, BecomeOne DEF OnlyMoves

LEMMA StepMoves ==
    ASSUME CallsFit, pidfile \in Pids \cup {None}, NEW c \in Callers, Step(c), ~CheckListener(c)
    PROVE  MovesOn(c)
<1> DEFINE s == call[c]
<1>0. Fits(s) BY DEF CallsFit
<1> USE DEF OnlyMoves, MovesOn, Suits
<1>1. CASE TakeLock(c)
  BY <1>0, <1>1, GotoMoves DEF Fits, TakeLock, At, CallSteps, HasPid, OnCourse
<1>20. CASE Probe(c)
  <2> DEFINE at == CASE s.kind = "stop" -> "sweep"
                     [] s.kind # "stop" /\ Answers -> "listener"
                     [] OTHER -> "start"
  <2>1. Goto(c, at) /\ s.at = "probe" /\ s.kind \in {"ensure", "command", "stop"}
    BY <1>0, <1>20 DEF Fits, OnCourse, Probe, At
  <2>2. at \in {"sweep", "listener", "start"} /\ (at = "sweep" <=> s.kind = "stop")
    OBVIOUS
  <2> HIDE DEF at
  <2>3. at \in CallSteps \ {"waiting", "write"} /\ at \notin HasPid /\ OnCourse(s.kind, at)
    BY <2>1, <2>2 DEF CallSteps, HasPid, OnCourse
  <2>4. QED BY <1>0, <2>1, <2>3, GotoMoves DEF HasPid
<1>21. CASE Tell(c)
  BY <1>21, FinishOne DEF Tell
<1>2. CASE StartX0x(c)
  BY <1>0, <1>2, GotoMoves DEF Fits, StartX0x, At, CallSteps, HasPid, OnCourse
<1>3. CASE PollX0x(c)
  <2>1. CASE s.kind = "ensure"
    BY <1>0, <1>3, <2>1, GotoMoves DEF Fits, PollX0x, At, CallSteps, HasPid, OnCourse
  <2>2. CASE s.kind = "start_x0x"
    BY <1>0, <1>3, <2>2, GotoMoves DEF Fits, PollX0x, At, CallSteps, HasPid, OnCourse
  <2>3. CASE s.kind = "command"
    BY <1>3, <2>3, FinishOne DEF PollX0x
  <2>4. s.kind \in {"ensure", "command", "start_x0x"}
    BY <1>0, <1>3 DEF PollX0x, At, Fits, OnCourse
  <2>5. QED BY <2>1, <2>2, <2>3, <2>4
<1>4. CASE StopX0x(c)
  BY <1>0, <1>4, GotoMoves DEF Fits, StopX0x, At, CallSteps, HasPid, OnCourse
<1>5. CASE WaitDown(c)
  BY <1>0, <1>5, GotoMoves DEF Fits, WaitDown, At, CallSteps, HasPid, OnCourse
<1>6. CASE Refresh(c)
  <2> DEFINE up == Answers
             state == [s EXCEPT !.at = "store", !.up = up]
  <2>1. up \in BOOLEAN BY DEF Answers
  <2>2. Become(c, state) /\ s.at = "refresh" BY <1>6 DEF Refresh, At
  <2> HIDE DEF up
  <2>4. Suits(c, state)
    BY <1>0, <2>1, <2>2 DEF Fits, CallState, CallSteps, HasPid, OnCourse
  <2>5. QED BY <2>2, <2>4, BecomeMoves
<1>7. CASE Store(c)
  <2>1. CASE s.kind = "search"
    BY <1>0, <1>7, <2>1, GotoMoves DEF Fits, Store, At, CallSteps, HasPid, OnCourse
  <2>2. CASE s.kind # "search"
    BY <1>7, <2>2, FinishOne DEF Store
  <2>3. QED BY <2>1, <2>2
<1>8. CASE NeedsRefresh(c)
  <2>1. (IF snapshot THEN "decide" ELSE "refresh") \in CallSteps \ HasPid
    BY DEF CallSteps, HasPid, OnCourse
  <2>2. QED BY <1>0, <1>8, <2>1, GotoMoves DEF Fits, NeedsRefresh, At, HasPid, OnCourse
<1>9. CASE Decide(c)
  BY <1>9, FinishOne DEF Decide
<1>10. CASE WriteListenerPid(c)
  BY <1>10, EnsuredOne DEF WriteListenerPid
<1>11. CASE Sweep(c)
  <2>1. Suits(c, [s EXCEPT !.at = "term", !.targets = FindListenerPids])
    BY <1>0, <1>11, ListenersArePids DEF Sweep, At, Fits, CallState, CallSteps, HasPid, OnCourse
  <2>2. QED BY <1>11, <2>1, BecomeMoves DEF Sweep
<1>12. ASSUME NEW p \in s.targets, Terminate(c, p)
       PROVE  MovesOn(c)
  <2>1. p \in Pids /\ s.at = "term" BY <1>0, <1>12 DEF Fits, CallState, Terminate, At
  <2>2. CASE ProcessAlive(p)
    <3> DEFINE state == [s EXCEPT !.pid = p, !.targets = @ \ {p},
                             !.at = IF s.force THEN "recheck" ELSE "wait"]
    <3>1. Suits(c, state)
      BY <1>0, <2>1, PidsAssumption DEF Fits, CallState, CallSteps, HasPid, OnCourse
    <3>2. Become(c, state) BY <1>12, <2>2 DEF Terminate
    <3>3. QED BY <3>1, <3>2, BecomeMoves
  <2>3. CASE ~ProcessAlive(p)
    <3>1. Suits(c, [s EXCEPT !.targets = @ \ {p}])
      BY <1>0, <2>1 DEF Fits, CallState
    <3>2. QED BY <1>12, <2>3, <3>1, BecomeMoves DEF Terminate
  <2>4. QED BY <2>2, <2>3
<1>13. Fits(s) /\ s.at \in HasPid \ {"write"} => Suits(c, Stopped(c)) /\ Suits(c, NotStopped(c))
  BY DEF Fits, HasPid, OnCourse, Stopped, NotStopped, CallState, CallSteps
<1>14. CASE WaitGone(c)
  <2>1. s.at = "wait" BY <1>14 DEF WaitGone, At
  <2>2. CASE Become(c, Stopped(c))
    BY <1>0, <1>13, <2>1, <2>2, BecomeMoves DEF HasPid
  <2>3. CASE Goto(c, "kill")
    BY <1>0, <2>1, <2>3, GotoMoves DEF Fits, HasPid, OnCourse, CallSteps
  <2>4. QED BY <1>14, <2>2, <2>3 DEF WaitGone
<1>15. CASE Kill(c)
  BY <1>0, <1>15, GotoMoves DEF Fits, Kill, At, CallSteps, HasPid, OnCourse
<1>16. CASE Recheck(c)
  BY <1>0, <1>13, <1>16, BecomeMoves DEF Recheck, At, HasPid
<1>17. CASE ReadTracked(c)
  <2>1. Suits(c, [s EXCEPT !.at = "clear"])
    BY <1>0, <1>17 DEF ReadTracked, At, Fits, CallState, CallSteps, HasPid, OnCourse
  <2>2. Suits(c, [s EXCEPT !.swept = TRUE, !.targets = ({pidfile} \ {None}) \ s.stopped])
    BY <1>0, <1>17 DEF ReadTracked, At, Fits, CallState
  <2>3. QED BY <1>17, <2>1, <2>2, BecomeMoves DEF ReadTracked
<1>18. CASE ClearAndReport(c)
  <2>1. Suits(c, [s EXCEPT !.at = "returned"])
    BY <1>0, <1>18 DEF ClearAndReport, At, Fits, CallState, CallSteps, HasPid, OnCourse
  <2>2. QED BY <1>18, <2>1, BecomeMoves DEF ClearAndReport
<1>19. QED
  BY <1>1, <1>2, <1>3, <1>4, <1>5, <1>6, <1>7, <1>8, <1>9, <1>10, <1>11, <1>12,
     <1>14, <1>15, <1>16, <1>17, <1>18, <1>20, <1>21 DEF Step, Action

-----------------------------------------------------------------------------
(* The invariants                                                          *)

ThreadsEnsure == \A c \in Callers : call[c].kind = "ensure" => c \in Threads

Typed == ServicesTypeOK /\ CallsFit /\ ThreadsEnsure

\* What a caller found running is a listener until it ends.  A stop has signalled
\* whatever of it is not among the processes it has yet to signal.
Ends(c) ==
    /\ owed[c] \subseteq Listening
    /\ call[c].at \in {"term", "wait", "kill", "recheck"} =>
          owed[c] \subseteq doomed \cup call[c].targets
    /\ At(c, "clear") => owed[c] \subseteq doomed

EndsInv == \A c \in Callers : Ends(c)

\* ensure_services holds the lock from its first probe until it returns.
LockInv ==
    \A c \in Callers :
        call[c].kind = "ensure" /\ call[c].at \notin {"waiting", "lock", "returned"}
            => lock = c

\* While only ensure_services starts listeners, the PID file names the one that
\* runs, or the caller that has just spawned it is about to write it.
OneInv ==
    undisturbed =>
        /\ \A c \in Callers :
              ~At(c, "waiting") => call[c].kind \notin {"command", "listener_start", "stop"}
        /\ \A c \in Callers : At(c, "write") => Listening \subseteq {call[c].pid}
        /\ (\A c \in Callers : ~At(c, "write")) => Listening \subseteq {pidfile}

-----------------------------------------------------------------------------
(* What happens to the processes                                           *)

\* What a step of a caller does to the processes and to the PID file.
Effect(c) ==
    \/ UNCHANGED procVars
    \/ /\ CheckListener(c) /\ ~IsRunning
       /\ call'[c].at = "write" /\ call'[c].pid \in Pids /\ Spawn(c, call'[c].pid)
    \/ /\ WriteListenerPid(c)
       /\ WritePid(call[c].pid) /\ UNCHANGED <<process, parent, doomed, owed, mishaps>>
    \/ call[c].kind = "stop" /\ \E p \in Pids : Signal(p)
    \/ /\ call[c].kind = "stop" /\ At(c, "clear")
       /\ ClearPid /\ UNCHANGED <<process, parent, doomed, owed, mishaps>>

LEMMA StepEffect ==
    ASSUME CallsFit, NEW c \in Callers, Step(c)
    PROVE  Effect(c)
<1>0. Fits(call[c]) BY DEF CallsFit
<1> USE DEF Effect
<1>1. CASE CheckListener(c)
  BY <1>1, CheckMoves
<1>2. CASE WriteListenerPid(c)
  BY <1>2 DEF WriteListenerPid
<1>3. ASSUME NEW p \in call[c].targets, Terminate(c, p)
      PROVE  Effect(c)
  <2>1. p \in Pids /\ call[c].kind = "stop"
    BY <1>0, <1>3 DEF Fits, OnCourse, CallState, Terminate, At
  <2>2. QED BY <1>3, <2>1 DEF Terminate
<1>4. CASE Kill(c)
  <2>1. call[c].pid \in Pids /\ call[c].kind = "stop"
    BY <1>0, <1>4 DEF Fits, OnCourse, HasPid, CallState, Kill, At
  <2>2. QED BY <1>4, <2>1 DEF Kill
<1>5. CASE ClearAndReport(c)
  BY <1>0, <1>5 DEF ClearAndReport, Fits, OnCourse, At
<1>6. CASE TakeLock(c) \/ Probe(c) \/ StartX0x(c) \/ StopX0x(c) \/ WaitDown(c)
  BY <1>6 DEF TakeLock, Probe, StartX0x, StopX0x, WaitDown
<1>7. CASE PollX0x(c)
  <2>1. call[c].kind \in {"ensure", "command", "start_x0x"}
    BY <1>0, <1>7 DEF PollX0x, At, Fits, OnCourse
  <2>2. QED BY <1>7, <2>1 DEF PollX0x, Finish
<1>8. CASE Refresh(c) \/ Store(c) \/ NeedsRefresh(c) \/ Decide(c) \/ Tell(c)
  BY <1>8 DEF Refresh, Store, NeedsRefresh, Decide, Tell, Finish
<1>9. CASE Sweep(c) \/ WaitGone(c) \/ Recheck(c) \/ ReadTracked(c)
  BY <1>9 DEF Sweep, WaitGone, Recheck, ReadTracked
<1>10. QED
  BY <1>1, <1>2, <1>3, <1>4, <1>5, <1>6, <1>7, <1>8, <1>9 DEF Step, Action

\* The processes keep their types.
LEMMA SpawnTyped ==
    ASSUME ProcTypeOK, NEW c \in Callers, NEW p \in Pids, Spawn(c, p)
    PROVE  ProcTypeOK'
<1>1. ParentOf(c) \in {"server", None} \cup Commands BY DEF ParentOf, Callers
<1>2. QED BY <1>1 DEF Spawn, ProcTypeOK, ProcessStates

LEMMA SignalTyped ==
    ASSUME ProcTypeOK, NEW p \in Pids, Signal(p)
    PROVE  ProcTypeOK'
BY DEF Signal, ProcTypeOK, ProcessStates

LEMMA AdoptTyped ==
    ASSUME ProcTypeOK, NEW c \in Commands, Adopt(c)
    PROVE  ProcTypeOK'
BY DEF Adopt, ProcTypeOK, ProcessStates

LEMMA ProcessTyped ==
    ASSUME ProcTypeOK, ProcessNext
    PROVE  ProcTypeOK'
<1> SUFFICES ASSUME NEW p \in Pids,
                    Register(p) \/ GiveUp(p) \/ Return(p) \/ Die(p)
                       \/ UserListens(p) \/ Reuse(p)
             PROVE  ProcTypeOK'
  BY DEF ProcessNext
<1>1. mishaps' = mishaps \/ Mishap
  BY DEF Register, GiveUp, Return, Die, UserListens, Reuse
<1>2. mishaps' \in 0 .. MaxMishaps
  BY <1>1, MishapsAssumption DEF Mishap, ProcTypeOK
<1>3. CASE Register(p)
  BY <1>2, <1>3 DEF Register, WritePid, ProcTypeOK, ProcessStates
<1>4. CASE UserListens(p) \/ Reuse(p)
  BY <1>2, <1>4 DEF UserListens, Reuse, ProcTypeOK, ProcessStates
<1>5. CASE Ended(p) /\ pidfile' \in {pidfile, None}
  <2>1. owed' \in [Callers -> SUBSET Pids]
    BY <1>5 DEF Ended, ProcTypeOK
  <2>2. process' \in [Pids -> ProcessStates] /\ parent' = parent
    BY <1>5 DEF Ended, ProcTypeOK, ProcessStates
  <2>3. \A q \in Pids : process'[q] = "zombie" => parent'[q] # None
    BY <1>5, <2>2 DEF Ended, ProcTypeOK
  <2>4. doomed' \subseteq {q \in Pids : process'[q] \notin {"free", "zombie"}}
    BY <1>5 DEF Ended, ProcTypeOK
  <2>5. QED BY <1>2, <1>5, <2>1, <2>2, <2>3, <2>4 DEF ProcTypeOK
<1>6. QED
  BY <1>3, <1>4, <1>5 DEF GiveUp, Return, Die, ClearPid

LEMMA TypesInitially == Init => Typed
<1> SUFFICES ASSUME Init PROVE Typed
  OBVIOUS
<1>1. ProcTypeOK
  <2>1. (CHOOSE p \in Pids : TRUE) \in Pids
    BY PidsAssumption
  <2>2. QED BY <2>1, MishapsAssumption DEF Init, ProcInit, ProcTypeOK, ProcessStates
<1>2. CallsFit /\ \A c \in Callers : call[c] = NoCall
  BY NoCallFits DEF Init, CallsFit, Fits
<1>3. \A c \in Callers : call[c] \in CallState
                         /\ (call[c].at \in HasPid <=> call[c].pid # None)
  BY <1>2 DEF CallsFit, Fits
<1>4. ThreadsEnsure
  BY <1>2 DEF ThreadsEnsure, NoCall
<1>5. /\ snapshot \in BOOLEAN /\ lock \in Threads \cup {None}
      /\ x0x \in {"down", "up"} /\ silent = {}
  BY DEF Init
<1>6. QED
  BY <1>1, <1>2, <1>3, <1>4, <1>5 DEF Typed, ServicesTypeOK, CallsFit, HasPid

\* The calls keep theirs, and ensure_services is called by threads only.
LEMMA CallsKeepType ==
    ASSUME Typed, Next
    PROVE  CallsFit' /\ ThreadsEnsure'
<1>0. CallsFit /\ ThreadsEnsure /\ pidfile \in Pids \cup {None}
  BY DEF Typed, ServicesTypeOK, ProcTypeOK
<1>1. ASSUME NEW c \in Callers, NEW k \in ThreadKinds \cup CommandKinds,
             NEW force \in BOOLEAN, Begin(c, k, force)
      PROVE  CallsFit' /\ ThreadsEnsure'
  <2>1. OnlyMoves(c) /\ call'[c].kind = k
    BY <1>0, <1>1, BeginMoves
  <2>2. k = "ensure" => c \in Threads
    BY <1>1, KindsAssumption DEF Begin, CommandKinds
  <2>3. QED BY <1>0, <2>1, <2>2 DEF OnlyMoves, ThreadsEnsure
<1>2. ASSUME NEW c \in Callers, Step(c)
      PROVE  CallsFit' /\ ThreadsEnsure'
  <2>1. OnlyMoves(c) /\ call'[c].kind = call[c].kind
    BY <1>0, <1>2, StepMoves, CheckMoves DEF MovesOn
  <2>2. QED BY <1>0, <2>1 DEF OnlyMoves, ThreadsEnsure
<1>3. CASE Environment
  <2>1. call' = call BY <1>3 DEF Environment, servicesVars
  <2>2. QED BY <1>0, <2>1 DEF CallsFit, ThreadsEnsure
<1>4. QED BY <1>1, <1>2, <1>3 DEF Next

LEMMA ProcessesKeepType ==
    ASSUME Typed, Next
    PROVE  ProcTypeOK'
<1>0. ProcTypeOK /\ CallsFit
  BY DEF Typed, ServicesTypeOK
<1>1. ASSUME NEW c \in Callers, NEW k \in ThreadKinds \cup CommandKinds,
             NEW force \in BOOLEAN, Begin(c, k, force)
      PROVE  ProcTypeOK'
  <2>1. Listening \subseteq Pids BY DEF Listening
  <2>2. owed' \in [Callers -> SUBSET Pids]
    BY <1>0, <1>1, <2>1 DEF Begin, ProcTypeOK
  <2>3. QED BY <1>0, <1>1, <2>2 DEF Begin, ProcTypeOK
<1>2. ASSUME NEW c \in Callers, Step(c)
      PROVE  ProcTypeOK'
  <2>1. Effect(c) BY <1>0, <1>2, StepEffect
  <2>2. CASE UNCHANGED procVars
    BY <1>0, <2>2 DEF procVars, ProcTypeOK
  <2>3. ASSUME NEW p \in Pids, Spawn(c, p) \/ Signal(p)
        PROVE  ProcTypeOK'
    BY <1>0, <2>3, SpawnTyped, SignalTyped
  <2>4. ASSUME NEW p \in Pids \cup {None}, pidfile' = p,
               UNCHANGED <<process, parent, doomed, owed, mishaps>>
        PROVE  ProcTypeOK'
    BY <1>0, <2>4 DEF ProcTypeOK
  <2>5. call[c].pid \in Pids \cup {None}
    BY <1>0 DEF CallsFit, Fits, CallState
  <2>6. QED BY <2>1, <2>2, <2>3, <2>4, <2>5 DEF Effect, WritePid, ClearPid
<1>3. CASE Environment
  <2>1. CASE \/ X0xAnswers \/ X0xGone \/ X0xCrashes
             \/ \E service \in {"x0x", "antd"} :
                   FallsSilent(service) \/ AnswersAgain(service)
    <3>1. mishaps' \in 0 .. MaxMishaps
      BY <1>0, <2>1, MishapsAssumption
         DEF X0xAnswers, X0xGone, X0xCrashes, FallsSilent, AnswersAgain, Mishap, ProcTypeOK
    <3>2. CASE UNCHANGED <<process, parent, doomed, pidfile, owed>>
      BY <1>0, <3>1, <3>2 DEF ProcTypeOK
    <3>3. QED BY <1>3, <2>1, <3>2, AdoptTyped, ProcessTyped, <1>0 DEF Environment
  <2>2. QED BY <1>0, <1>3, <2>1, AdoptTyped, ProcessTyped DEF Environment
<1>4. QED BY <1>1, <1>2, <1>3 DEF Next

LEMMA TypesKept == Typed /\ [Next]_vars => Typed'
<1> SUFFICES ASSUME Typed, [Next]_vars PROVE Typed'
  OBVIOUS
<1>1. CASE UNCHANGED vars
  BY <1>1 DEF vars, procVars, servicesVars, Typed, ServicesTypeOK, ProcTypeOK, CallsFit,
              ThreadsEnsure
<1>2. CASE Next
  <2>1. CallsFit' /\ ThreadsEnsure' /\ ProcTypeOK'
    BY <1>2, CallsKeepType, ProcessesKeepType
  <2>2. /\ x0x \in {"down", "starting", "up", "stopping"} /\ snapshot \in BOOLEAN
        /\ silent \subseteq {"x0x", "antd"}
        /\ lock \in Threads \cup {None} /\ CallsFit /\ ThreadsEnsure
    BY DEF Typed, ServicesTypeOK
  <2>3. /\ x0x' \in {"down", "starting", "up", "stopping"} /\ snapshot' \in BOOLEAN
        /\ silent' \subseteq {"x0x", "antd"}
        /\ lock' \in Threads \cup {None}
    <3>1. ASSUME NEW c \in Callers, NEW k \in ThreadKinds \cup CommandKinds,
                 NEW force \in BOOLEAN, Begin(c, k, force)
          PROVE  UNCHANGED <<x0x, silent, snapshot, lock>>
      BY <3>1 DEF Begin, Keep
    <3>2. ASSUME NEW c \in Callers, Step(c)
          PROVE  /\ x0x' \in {x0x, "starting", "stopping"}
                 /\ snapshot' \in BOOLEAN
                 /\ lock' \in Threads \cup {None}
      <4>1. call[c].up \in BOOLEAN /\ (At(c, "lock") => c \in Threads)
        BY <2>2 DEF CallsFit, Fits, CallState, OnCourse, At, ThreadsEnsure
      <4>2. CASE StartX0x(c) \/ StopX0x(c)
        BY <2>2, <4>2 DEF StartX0x, StopX0x, Keep
      <4>3. CASE TakeLock(c)
        BY <2>2, <4>1, <4>3 DEF TakeLock
      <4>4. CASE Store(c)
        BY <2>2, <4>1, <4>4 DEF Store, Finish
      <4>5. CASE PollX0x(c)
        <5>1. call[c].kind \in {"ensure", "command", "start_x0x"}
          BY <2>2, <4>5 DEF PollX0x, At, CallsFit, Fits, OnCourse
        <5>2. QED BY <2>2, <4>5, <5>1 DEF PollX0x, Finish
      <4>6. CASE Decide(c) \/ Tell(c)
        BY <2>2, <4>6 DEF Decide, Tell, Finish
      <4>7. CASE CheckListener(c) \/ WriteListenerPid(c)
        BY <2>2, <4>7 DEF CheckListener, WriteListenerPid, Ensured
      <4>8. ASSUME NEW p \in call[c].targets, Terminate(c, p)
            PROVE  UNCHANGED <<x0x, snapshot, lock>>
        BY <4>8 DEF Terminate, Keep
      <4>9. CASE Probe(c) \/ WaitDown(c) \/ Refresh(c) \/ NeedsRefresh(c)
                 \/ Sweep(c) \/ WaitGone(c) \/ Kill(c) \/ Recheck(c)
                 \/ ReadTracked(c) \/ ClearAndReport(c)
        BY <2>2, <4>9 DEF Probe, WaitDown, Refresh, NeedsRefresh, Sweep, WaitGone, Kill,
                          Recheck, ReadTracked, ClearAndReport, Keep
      <4>10. QED
        BY <3>2, <2>2, <4>2, <4>3, <4>4, <4>5, <4>6, <4>7, <4>8, <4>9 DEF Step, Action
    <3>5. \A c \in Callers : Step(c) => silent' = silent
      BY DEF Step
    <3>3. CASE Environment
      <4>1. UNCHANGED <<snapshot, lock>>
        BY <3>3 DEF Environment, servicesVars, Keep
      <4>2. x0x' \in {x0x, "up", "down"} /\ silent' \subseteq silent \cup {"x0x", "antd"}
        BY <3>3 DEF Environment, X0xAnswers, X0xGone, X0xCrashes, FallsSilent, AnswersAgain,
                    servicesVars
      <4>3. QED BY <2>2, <4>1, <4>2
    <3>4. QED BY <1>2, <2>2, <3>1, <3>2, <3>3, <3>5 DEF Next
  <2>4. \A c \in Callers : call'[c] \in CallState
                           /\ (call'[c].at \in HasPid <=> call'[c].pid # None)
    BY <2>1 DEF CallsFit, Fits
  <2>5. QED BY <2>1, <2>3, <2>4 DEF Typed, ServicesTypeOK, CallsFit, HasPid
<1>3. QED BY <1>1, <1>2

(***************************************************************************)
(* The types, among them that a signal is pending only for a process that  *)
(* can still act on it, that a zombie has a parent to reap it, and that a  *)
(* caller has a process in hand exactly while it spawns or stops one.      *)
(***************************************************************************)
THEOREM ServicesTypeCorrect == Spec => []ServicesTypeOK
<1>1. Typed => ServicesTypeOK BY DEF Typed
<1>2. QED BY <1>1, TypesInitially, TypesKept, PTL DEF Spec

-----------------------------------------------------------------------------
(* A stop ends all                                                         *)

\* What is owed shrinks, and what is left of it is as it was.
OwedKept ==
    \A c \in Callers :
        /\ owed'[c] \subseteq owed[c]
        /\ \A p \in owed'[c] : (p \in Listening => p \in Listening')
                               /\ (p \in doomed => p \in doomed')

LEMMA EffectKeepsOwed ==
    ASSUME ProcTypeOK, CallsFit, NEW c \in Callers, Effect(c)
    PROVE  OwedKept
<1>1. CASE UNCHANGED procVars
  BY <1>1 DEF OwedKept, procVars, Listening
<1>2. ASSUME NEW p \in Pids, Spawn(c, p)
      PROVE  OwedKept
  BY <1>2 DEF ProcTypeOK, Spawn, OwedKept, Listening
<1>3. ASSUME NEW p \in Pids, Signal(p)
      PROVE  OwedKept
  BY <1>3 DEF Signal, OwedKept, Listening
<1>4. CASE UNCHANGED <<process, parent, doomed, owed, mishaps>>
  BY <1>4 DEF OwedKept, Listening
<1>5. QED BY <1>1, <1>2, <1>3, <1>4 DEF Effect

LEMMA ProcessKeepsOwed ==
    ASSUME ProcTypeOK, ProcessNext
    PROVE  OwedKept
<1> SUFFICES ASSUME NEW p \in Pids,
                    Register(p) \/ GiveUp(p) \/ Return(p) \/ Die(p)
                       \/ UserListens(p) \/ Reuse(p)
             PROVE  OwedKept
  BY DEF ProcessNext
<1>1. CASE Register(p)
  BY <1>1 DEF Register, ProcTypeOK, OwedKept, Listening
<1>2. CASE UserListens(p) \/ Reuse(p)
  BY <1>2 DEF UserListens, Reuse, ProcTypeOK, OwedKept, Listening
<1>3. CASE Ended(p)
  BY <1>3 DEF Ended, ProcTypeOK, OwedKept, Listening
<1>4. QED BY <1>1, <1>2, <1>3 DEF GiveUp, Return, Die

LEMMA EnvironmentKeepsOwed ==
    ASSUME ProcTypeOK, Environment
    PROVE  OwedKept
<1>1. ASSUME NEW c \in Commands, Adopt(c)
      PROVE  OwedKept
  BY <1>1 DEF Adopt, ProcTypeOK, OwedKept, Listening
<1>2. CASE UNCHANGED <<process, parent, doomed, pidfile, owed>>
  BY <1>2 DEF OwedKept, Listening
<1>3. QED BY <1>1, <1>2, ProcessKeepsOwed DEF Environment

LEMMA EndsWithoutStep ==
    ASSUME NEW c \in Callers, Ends(c), OwedKept, call'[c] = call[c]
    PROVE  Ends(c)'
BY DEF Ends, OwedKept, At

\* A call of another kind has nothing to end.
LEMMA OthersEndNothing ==
    ASSUME NEW c \in Callers, Ends(c), OwedKept, CallsFit', call'[c].kind # "stop"
    PROVE  Ends(c)'
BY DEF Ends, OwedKept, At, CallsFit, Fits, OnCourse

LEMMA StopEnds ==
    ASSUME Typed, NEW c \in Callers, Ends(c), Step(c), call[c].kind = "stop"
    PROVE  Ends(c)'
<1> DEFINE s == call[c]
<1>0. ProcTypeOK /\ CallsFit /\ Fits(s)
  BY DEF Typed, ServicesTypeOK, CallsFit
<1>1. OwedKept /\ CallsFit' BY <1>0, StepEffect, EffectKeepsOwed, StepMoves, CheckMoves
  DEF ProcTypeOK, MovesOn, OnlyMoves
<1>2. owed'[c] \subseteq Listening' BY <1>1 DEF OwedKept, Ends
<1>3. s.at \in {"sweep", "term", "wait", "kill", "recheck", "clear", "probe",
                  "waiting", "returned"}
  BY <1>0 DEF Fits, OnCourse, CallState, CallSteps
<1>4. CASE Sweep(c)
  <2> DEFINE t == [s EXCEPT !.at = "term", !.targets = FindListenerPids]
  <2>1. call' = [call EXCEPT ![c] = t] BY <1>4 DEF Sweep, Become
  <2>2. t.at = "term" /\ t.targets = Listening
    BY <1>0 DEF Fits, CallState, FindListenerPids
  <2>3. call'[c] = t BY <1>0, <2>1 DEF CallsFit
  <2>4. owed'[c] \subseteq Listening BY <1>1 DEF OwedKept, Ends
  <2> HIDE DEF t
  <2>5. QED BY <1>2, <2>2, <2>3, <2>4 DEF Ends, At
<1>5. ASSUME NEW p \in s.targets, Terminate(c, p)
      PROVE  Ends(c)'
  <2>1. s.at = "term" /\ owed[c] \subseteq doomed \cup s.targets
    BY <1>5 DEF Terminate, At, Ends
  <2>2. CASE ProcessAlive(p)
    <3> DEFINE at == IF s.force THEN "recheck" ELSE "wait"
               t == [s EXCEPT !.pid = p, !.targets = @ \ {p}, !.at = at]
    <3>1. call' = [call EXCEPT ![c] = t] /\ Signal(p)
      BY <1>5, <2>2 DEF Terminate, Become
    <3>2. at \in {"recheck", "wait"} OBVIOUS
    <3> HIDE DEF at
    <3>3. t.at = at /\ t.targets = s.targets \ {p}
      BY <1>0 DEF Fits, CallState
    <3>4. call'[c] = t BY <1>0, <3>1 DEF CallsFit
    <3> HIDE DEF t
    <3>5. \A q \in owed'[c] : q \in doomed' \cup (s.targets \ {p})
      BY <1>1, <2>1, <3>1 DEF OwedKept, Ends, Signal, Listening
    <3>6. QED BY <1>2, <3>2, <3>3, <3>4, <3>5 DEF Ends, At
  <2>3. CASE ~ProcessAlive(p)
    <3> DEFINE t == [s EXCEPT !.targets = @ \ {p}]
    <3>1. call' = [call EXCEPT ![c] = t] /\ UNCHANGED procVars
      BY <1>5, <2>3 DEF Terminate, Become
    <3>2. t.at = "term" /\ t.targets = s.targets \ {p}
      BY <1>0, <2>1 DEF Fits, CallState
    <3>3. call'[c] = t BY <1>0, <3>1 DEF CallsFit
    <3> HIDE DEF t
    <3>4. \A q \in owed'[c] : q \in doomed' \cup (s.targets \ {p})
      BY <2>1, <2>3, <3>1 DEF procVars, Ends, ProcessAlive, Listening
    <3>5. QED BY <1>2, <3>2, <3>3, <3>4 DEF Ends, At
  <2>4. QED BY <2>2, <2>3
<1>6. CASE WaitGone(c) \/ Kill(c) \/ Recheck(c)
  <2>1. call'[c].targets = s.targets /\ call'[c].at \in {"term", "kill", "recheck"}
    <3>1. /\ Stopped(c).at = "term" /\ Stopped(c).targets = s.targets
          /\ NotStopped(c).at = "term" /\ NotStopped(c).targets = s.targets
      BY <1>0 DEF Stopped, NotStopped, Fits, CallState
    <3>2. ASSUME NEW step \in {"kill", "recheck"}, Goto(c, step)
          PROVE  call'[c].targets = s.targets /\ call'[c].at = step
      BY <1>0, <3>2 DEF Goto, Become, CallsFit, Fits, CallState
    <3>3. ASSUME NEW t, Become(c, t)
          PROVE  call'[c] = t
      BY <1>0, <3>3 DEF Become, CallsFit
    <3>4. QED BY <1>6, <3>1, <3>2, <3>3 DEF WaitGone, Kill, Recheck
  <2>2. owed[c] \subseteq doomed \cup s.targets
    BY <1>6 DEF WaitGone, Kill, Recheck, At, Ends
  <2>3. \A q \in owed'[c] : q \in doomed' \cup s.targets
    BY <1>1, <2>2 DEF OwedKept
  <2>4. QED BY <1>2, <2>1, <2>3 DEF Ends, At
<1>7. CASE ReadTracked(c)
  <2>1. s.at = "term" /\ owed[c] \subseteq doomed
    BY <1>7 DEF ReadTracked, At, Ends
  <2>2. owed'[c] \subseteq doomed'
    BY <1>1, <2>1 DEF OwedKept
  <2>3. QED BY <1>2, <2>2 DEF Ends, At
<1>8. CASE ClearAndReport(c)
  <2>1. call'[c].at = "returned"
    BY <1>0, <1>8 DEF ClearAndReport, Become, CallsFit, Fits, CallState
  <2>2. QED BY <1>2, <2>1 DEF Ends, At
<1>10. CASE Probe(c)
  <2>1. Goto(c, "sweep") BY <1>10 DEF Probe
  <2>2. call'[c].at = "sweep"
    BY <1>0, <2>1 DEF Goto, Become, CallsFit, Fits, CallState
  <2>3. QED BY <1>2, <2>2 DEF Ends, At
<1>9. QED
  <2>1. ~(TakeLock(c) \/ Tell(c) \/ StartX0x(c) \/ PollX0x(c) \/ StopX0x(c) \/ WaitDown(c)
          \/ Refresh(c) \/ Store(c) \/ NeedsRefresh(c) \/ Decide(c)
          \/ CheckListener(c) \/ WriteListenerPid(c))
    BY <1>3 DEF At, TakeLock, Tell, StartX0x, PollX0x, StopX0x, WaitDown, Refresh, Store,
                NeedsRefresh, Decide, CheckListener, WriteListenerPid
  <2>2. QED BY <2>1, <1>4, <1>5, <1>6, <1>7, <1>8, <1>10 DEF Step, Action

LEMMA EndsKept == Typed /\ EndsInv /\ [Next]_vars => EndsInv'
<1> SUFFICES ASSUME Typed, EndsInv, [Next]_vars PROVE EndsInv'
  OBVIOUS
<1>0. ProcTypeOK /\ CallsFit /\ CallsFit'
  BY CallsKeepType, TypesKept DEF Typed, ServicesTypeOK
<1>1. ASSUME NEW c \in Callers, NEW k \in ThreadKinds \cup CommandKinds,
             NEW force \in BOOLEAN, Begin(c, k, force)
      PROVE  EndsInv'
  <2>1. OnlyMoves(c)
        /\ call'[c].at \in {"lock", "probe", "start", "halt", "needs", "listener", "sweep"}
    BY <1>0, <1>1, BeginMoves
  <2>2. /\ UNCHANGED <<process, doomed>>
        /\ owed' = [owed EXCEPT ![c] = IF k = "stop" THEN Listening ELSE {}]
    BY <1>1 DEF Begin
  <2>3. owed \in [Callers -> SUBSET Pids] BY <1>0 DEF ProcTypeOK
  <2>4. Ends(c)' BY <2>1, <2>2, <2>3 DEF Ends, At, Listening
  <2>5. ASSUME NEW d \in Callers \ {c} PROVE Ends(d)'
    <3>1. call'[d] = call[d] /\ owed'[d] = owed[d]
      BY <2>1, <2>2, <2>3 DEF OnlyMoves
    <3>2. QED BY <2>2, <3>1 DEF EndsInv, Ends, At, Listening
  <2>6. QED BY <2>4, <2>5 DEF EndsInv
<1>2. ASSUME NEW c \in Callers, Step(c)
      PROVE  EndsInv'
  <2>1. OnlyMoves(c) /\ call'[c].kind = call[c].kind
    BY <1>0, <1>2, StepMoves, CheckMoves DEF MovesOn, ProcTypeOK
  <2>2. OwedKept BY <1>0, <1>2, StepEffect, EffectKeepsOwed
  <2>3. ASSUME NEW d \in Callers \ {c} PROVE Ends(d)'
    BY <2>1, <2>2, EndsWithoutStep DEF OnlyMoves, EndsInv
  <2>4. Ends(c)'
    <3>1. CASE call[c].kind = "stop"
      BY <1>2, <3>1, StopEnds DEF EndsInv
    <3>2. CASE call[c].kind # "stop"
      BY <1>0, <2>1, <2>2, <3>2, OthersEndNothing DEF EndsInv
    <3>3. QED BY <3>1, <3>2
  <2>5. QED BY <2>3, <2>4 DEF EndsInv
<1>3. CASE Environment
  <2>1. call' = call BY <1>3 DEF Environment, servicesVars
  <2>2. OwedKept BY <1>0, <1>3, EnvironmentKeepsOwed
  <2>3. QED BY <2>1, <2>2, EndsWithoutStep DEF EndsInv
<1>4. CASE UNCHANGED vars
  BY <1>4 DEF vars, procVars, servicesVars, EndsInv, Ends, At, Listening
<1>5. QED BY <1>1, <1>2, <1>3, <1>4 DEF Next

(***************************************************************************)
(* StopEndsAll, for any number of listeners, however many callers start,   *)
(* register and stop them meanwhile.                                       *)
(***************************************************************************)
THEOREM StopsEndAll == Spec => []StopEndsAll
<1>1. Init => EndsInv
  BY DEF Init, ProcInit, EndsInv, Ends, At, NoCall
<1>2. EndsInv => StopEndsAll BY DEF EndsInv, Ends, StopEndsAll
<1>3. QED BY <1>1, <1>2, TypesInitially, TypesKept, EndsKept, PTL DEF Spec

-----------------------------------------------------------------------------
(* One listener                                                            *)

\* What a step does to the lock.
LEMMA StepLock ==
    ASSUME CallsFit, NEW c \in Callers, Step(c)
    PROVE  /\ call[c].at \notin {"waiting", "returned"}
           /\ \/ At(c, "lock") /\ lock = None /\ lock' = c
              \/ ~At(c, "lock") /\ lock' = lock
              \/ call'[c].at = "returned" /\ lock' = IF lock = c THEN None ELSE lock
<1> DEFINE Goal ==
      /\ call[c].at \notin {"waiting", "returned"}
      /\ \/ At(c, "lock") /\ lock = None /\ lock' = c
         \/ ~At(c, "lock") /\ lock' = lock
         \/ call'[c].at = "returned" /\ lock' = IF lock = c THEN None ELSE lock
<1>1. CASE TakeLock(c)
  BY <1>1 DEF TakeLock, At
<1>2. ASSUME Finish(c, call[c]), call[c].at \notin {"waiting", "returned"} PROVE Goal
  BY <1>2, FinishOne DEF Finish
<1>3. CASE PollX0x(c)
  <2>1. call[c].kind \in {"ensure", "command", "start_x0x"}
    BY <1>3 DEF PollX0x, At, CallsFit, Fits, OnCourse
  <2>2. QED BY <1>2, <1>3, <2>1 DEF PollX0x, At
<1>4. CASE Store(c) \/ Decide(c) \/ Tell(c)
  BY <1>2, <1>4 DEF Store, Decide, Tell, At
<1>5. CASE Probe(c) \/ StartX0x(c) \/ StopX0x(c) \/ WaitDown(c) \/ Refresh(c)
           \/ NeedsRefresh(c)
  BY <1>5 DEF Probe, StartX0x, StopX0x, WaitDown, Refresh, NeedsRefresh, At, Keep
<1>6. CASE CheckListener(c) \/ WriteListenerPid(c)
  BY <1>6 DEF CheckListener, WriteListenerPid, Ensured, At
<1>7. ASSUME NEW p \in call[c].targets, Terminate(c, p) PROVE Goal
  BY <1>7 DEF Terminate, At, Keep
<1>8. CASE Sweep(c) \/ WaitGone(c) \/ Kill(c) \/ Recheck(c) \/ ReadTracked(c)
           \/ ClearAndReport(c)
  BY <1>8 DEF Sweep, WaitGone, Kill, Recheck, ReadTracked, ClearAndReport, At, Keep
<1>9. QED BY <1>1, <1>3, <1>4, <1>5, <1>6, <1>7, <1>8 DEF Step, Action

LEMMA StepIsOne ==
    ASSUME Typed, NEW c \in Callers, Step(c)
    PROVE  OnlyMoves(c) /\ call'[c].kind = call[c].kind
BY StepMoves, CheckMoves DEF MovesOn, Typed, ServicesTypeOK, ProcTypeOK

LEMMA LockKept == Typed /\ LockInv /\ [Next]_vars => LockInv'
<1> SUFFICES ASSUME Typed, LockInv, [Next]_vars PROVE LockInv'
  OBVIOUS
<1>0. CallsFit BY DEF Typed
<1>1. ASSUME NEW c \in Callers, NEW k \in ThreadKinds \cup CommandKinds,
             NEW force \in BOOLEAN, Begin(c, k, force)
      PROVE  LockInv'
  <2>1. /\ OnlyMoves(c) /\ call'[c].kind = k
        /\ k = "ensure" => call'[c].at = "lock"
    BY <1>0, <1>1, BeginMoves
  <2>2. lock' = lock BY <1>1 DEF Begin, Keep
  <2>3. QED BY <2>1, <2>2 DEF OnlyMoves, LockInv
<1>2. ASSUME NEW c \in Callers, Step(c)
      PROVE  LockInv'
  <2>1. OnlyMoves(c) /\ call'[c].kind = call[c].kind
    BY <1>2, StepIsOne
  <2>2. /\ call[c].at \notin {"waiting", "returned"}
        /\ \/ At(c, "lock") /\ lock = None /\ lock' = c
           \/ ~At(c, "lock") /\ lock' = lock
           \/ call'[c].at = "returned" /\ lock' = IF lock = c THEN None ELSE lock
    BY <1>0, <1>2, StepLock
  <2>3. None \notin Callers BY CallersAssumption DEF Callers
  <2>4. QED BY <2>1, <2>2, <2>3 DEF OnlyMoves, LockInv, At
<1>3. CASE Environment \/ UNCHANGED vars
  <2>1. UNCHANGED <<call, lock>>
    BY <1>3 DEF Environment, Keep, vars, servicesVars
  <2>2. QED BY <2>1 DEF LockInv
<1>4. QED BY <1>1, <1>2, <1>3 DEF Next

\* Of two callers that write the PID file only one can be calling ensure_services.
LEMMA OneWriter ==
    ASSUME CallsFit, LockInv, OneInv, undisturbed, NEW c \in Callers,
           call[c].at \in {"listener", "write"}
    PROVE  /\ call[c].kind = "ensure" /\ lock = c
           /\ \A d \in Callers \ {c} : ~At(d, "write")
<1>1. ASSUME NEW d \in Callers, call[d].at \in {"listener", "write"}
      PROVE  call[d].kind = "ensure" /\ lock = d
  BY <1>1 DEF CallsFit, Fits, OnCourse, OneInv, LockInv, At
<1>2. QED BY <1>1 DEF At

\* The steps of ensure_services, and of the calls that leave listeners alone.
LEMMA OneStep ==
    ASSUME Typed, LockInv, OneInv, undisturbed, NEW c \in Callers, Step(c)
    PROVE  /\ \A d \in Callers : At(d, "write")' => Listening' \subseteq {call'[d].pid}
           /\ (\A d \in Callers : ~At(d, "write")') => Listening' \subseteq {pidfile'}
<1>0. CallsFit /\ ProcTypeOK BY DEF Typed, ServicesTypeOK
<1>1. OnlyMoves(c) BY StepIsOne
<1>2. call[c].kind # "stop"
  BY <1>0, StepLock DEF OneInv, At
<1>3. CASE CheckListener(c) /\ ~IsRunning /\ call'[c].at = "write" /\ call'[c].pid \in Pids
           /\ Spawn(c, call'[c].pid)
  <2>1. \A d \in Callers : ~At(d, "write")
    BY <1>0, <1>3, OneWriter DEF CheckListener, At
  <2>2. Listening \subseteq {pidfile} BY <2>1 DEF OneInv
  <2>3. Listening = {}
    BY <1>3, <2>2, PidsAssumption DEF IsRunning, ProcessAlive, Listening
  <2>4. Listening' \subseteq {call'[c].pid}
    BY <1>0, <1>3, <2>3 DEF Spawn, Listening, ProcTypeOK
  <2>5. QED BY <1>1, <1>3, <2>1, <2>4 DEF OnlyMoves, At
<1>4. CASE WriteListenerPid(c)
  <2>1. At(c, "write") /\ pidfile' = call[c].pid /\ process' = process /\ Ensured(c)
    BY <1>4 DEF WriteListenerPid, WritePid
  <2>2. \A d \in Callers \ {c} : ~At(d, "write")
    BY <1>0, <2>1, OneWriter DEF At
  <2>3. Listening' \subseteq {pidfile'}
    BY <2>1 DEF OneInv, Listening
  <2>4. call'[c].at # "write"
    BY <1>0, <2>1, EnsuredOne
  <2>5. QED BY <1>1, <2>2, <2>3, <2>4 DEF OnlyMoves, At
<1>5. CASE UNCHANGED procVars
  <2>1. UNCHANGED <<process, pidfile>> /\ Listening' = Listening
    BY <1>5 DEF procVars, Listening
  <2>2. CASE WriteListenerPid(c)
    BY <1>4, <2>2
  <2>3. CASE ~At(c, "write") /\ call'[c].at # "write"
    BY <1>1, <2>1, <2>3 DEF OnlyMoves, OneInv, At
  <2>4. CASE CheckListener(c)
    <3>1. \/ MovesOn(c)
          \/ Spawn(c, call'[c].pid) /\ call'[c].pid \in Pids
      BY <1>0, <2>4, CheckMoves
    <3>2. ASSUME NEW p \in Pids, Spawn(c, p) PROVE FALSE
      BY <1>0, <1>5, <3>2 DEF Spawn, procVars, ProcTypeOK
    <3>3. ~At(c, "write") /\ call'[c].at # "write"
      BY <2>4, <3>1, <3>2 DEF MovesOn, CheckListener, At
    <3>4. QED BY <2>3, <3>3
  <2>5. CASE ~CheckListener(c) /\ ~WriteListenerPid(c)
    <3>1. call'[c].at # "write"
      BY <1>0, <2>5, StepMoves DEF MovesOn, ProcTypeOK
    <3>2. ~At(c, "write")
      BY <2>5 DEF Step, Action, At, TakeLock, Probe, StartX0x, PollX0x, StopX0x, WaitDown,
                  Refresh, Store, NeedsRefresh, Decide, Sweep, Terminate, WaitGone, Kill, Recheck,
                  ReadTracked, ClearAndReport, Tell
    <3>3. QED BY <2>3, <3>1, <3>2
  <2>6. QED BY <2>2, <2>4, <2>5
<1>6. QED BY <1>0, <1>2, <1>3, <1>4, <1>5, StepEffect DEF Effect

\* What processes do on their own, but for a user who starts one.
LEMMA OneProcess ==
    ASSUME Typed, NEW p \in Pids, NEW x, Listening \subseteq {x},
           Register(p) \/ GiveUp(p) \/ Return(p) \/ Die(p) \/ Reuse(p)
    PROVE  Listening' \subseteq {x} /\ (x = pidfile => Listening' \subseteq {pidfile'})
<1>0. ProcTypeOK BY DEF Typed, ServicesTypeOK
<1>1. CASE Register(p)
  BY <1>0, <1>1 DEF Register, WritePid, ProcTypeOK, Listening
<1>2. CASE Ended(p) /\ (pidfile' = pidfile \/ process[p] = "serving")
  BY <1>0, <1>2 DEF Ended, ProcTypeOK, Listening
<1>3. CASE Reuse(p)
  BY <1>0, <1>3 DEF Reuse, ProcTypeOK, Listening
<1>4. QED BY <1>1, <1>2, <1>3 DEF GiveUp, Return, Die

LEMMA OneKept == Typed /\ LockInv /\ OneInv /\ [Next]_vars => OneInv'
<1> SUFFICES ASSUME Typed, LockInv, OneInv, [Next]_vars, undisturbed'
             PROVE  /\ \A c \in Callers :
                          ~At(c, "waiting")' =>
                             call'[c].kind \notin {"command", "listener_start", "stop"}
                    /\ \A c \in Callers : At(c, "write")' => Listening' \subseteq {call'[c].pid}
                    /\ (\A c \in Callers : ~At(c, "write")') => Listening' \subseteq {pidfile'}
  BY DEF OneInv, At
<1>0. CallsFit /\ ProcTypeOK BY DEF Typed, ServicesTypeOK
<1>1. ASSUME NEW c \in Callers, NEW k \in ThreadKinds \cup CommandKinds,
             NEW force \in BOOLEAN, Begin(c, k, force)
      PROVE  /\ \A d \in Callers :
                   ~At(d, "waiting")' =>
                      call'[d].kind \notin {"command", "listener_start", "stop"}
             /\ \A d \in Callers : At(d, "write")' => Listening' \subseteq {call'[d].pid}
             /\ (\A d \in Callers : ~At(d, "write")') => Listening' \subseteq {pidfile'}
  <2>1. /\ OnlyMoves(c) /\ call'[c].kind = k
        /\ call'[c].at \in {"lock", "probe", "start", "halt", "needs", "listener", "sweep"}
    BY <1>0, <1>1, BeginMoves
  <2>2. undisturbed /\ k \notin {"command", "listener_start", "stop"}
        /\ UNCHANGED <<process, pidfile>> /\ At(c, "waiting")
    BY <1>1 DEF Begin
  <2>3. QED BY <2>1, <2>2 DEF OnlyMoves, OneInv, At, Listening
<1>2. ASSUME NEW c \in Callers, Step(c)
      PROVE  /\ \A d \in Callers :
                   ~At(d, "waiting")' =>
                      call'[d].kind \notin {"command", "listener_start", "stop"}
             /\ \A d \in Callers : At(d, "write")' => Listening' \subseteq {call'[d].pid}
             /\ (\A d \in Callers : ~At(d, "write")') => Listening' \subseteq {pidfile'}
  <2>1. undisturbed
    BY <1>2 DEF Step, Action, TakeLock, Probe, StartX0x, PollX0x, StopX0x, WaitDown, Refresh,
                Store, NeedsRefresh, Decide, CheckListener, WriteListenerPid, Sweep, Terminate,
                WaitGone, Kill, Recheck, ReadTracked, ClearAndReport, Tell
  <2>2. OnlyMoves(c) /\ call'[c].kind = call[c].kind /\ call[c].at # "waiting"
    BY <1>0, <1>2, StepIsOne, StepLock
  <2>3. QED BY <1>2, <2>1, <2>2, OneStep DEF OnlyMoves, OneInv, At
<1>3. CASE UNCHANGED <<process, pidfile, call, undisturbed>>
  BY <1>3 DEF OneInv, At, Listening
<1>4. ASSUME NEW c \in Commands, Adopt(c), UNCHANGED <<call, undisturbed>>
      PROVE  OneInv'
  <2>1. Listening' = Listening /\ pidfile' = pidfile
    BY <1>0, <1>4 DEF Adopt, ProcTypeOK, Listening
  <2>2. QED BY <1>4, <2>1 DEF OneInv, At
<1>5. CASE ProcessNext /\ UNCHANGED call
           /\ undisturbed' = (undisturbed /\ ~\E p \in Pids : UserListens(p))
  <2>1. PICK p \in Pids : Register(p) \/ GiveUp(p) \/ Return(p) \/ Die(p) \/ Reuse(p)
    BY <1>5 DEF ProcessNext
  <2>2. undisturbed BY <1>5
  <2>3. \A x : Listening \subseteq {x} =>
             Listening' \subseteq {x} /\ (x = pidfile => Listening' \subseteq {pidfile'})
    BY <2>1, OneProcess
  <2>4. QED BY <1>5, <2>2, <2>3 DEF OneInv, At
<1>6. QED
  BY <1>1, <1>2, <1>3, <1>4, <1>5
     DEF Next, Environment, vars, procVars, servicesVars, OneInv, At

(***************************************************************************)
(* OneListener, for any number of pids and of calls that overlap, whenever *)
(* the listener registers, gives up, returns or dies.                      *)
(***************************************************************************)
THEOREM OneListenerAtMost == Spec => []OneListener
<1>1. Init => LockInv /\ OneInv
  <2>1. Init => \A c \in Callers : call[c] = NoCall
    BY DEF Init
  <2>2. Init => Listening \subseteq {pidfile}
    BY DEF Init, ProcInit, Listening
  <2>3. QED BY <2>1, <2>2 DEF LockInv, OneInv, At, NoCall
<1>2. OneInv => OneListener
  <2>1. ASSUME NEW x, Listening \subseteq {x}
        PROVE  Cardinality(Listening) <= 1
    <3>1. Listening = {} \/ Listening = {x} BY <2>1
    <3>2. QED BY <3>1, FS_EmptySet, FS_Singleton
  <2>2. QED BY <2>1 DEF OneInv, OneListener
<1>3. QED BY <1>1, <1>2, TypesInitially, TypesKept, LockKept, OneKept, PTL DEF Spec

-----------------------------------------------------------------------------
(* A search sees the daemon                                                *)

\* Answering, as the histories are kept, for as long as a search is on.
SearchOK(c) ==
    steadyUp[c] = TRUE =>
       /\ x0x \in {"up", "stopping"}
       /\ call[c].kind = "search"
       /\ At(c, "store") => call[c].up = TRUE
       /\ At(c, "decide") /\ ~overtaken[c] => snapshot

\* Watch, pointwise.
LEMMA Watched ==
    ASSUME Watch, NEW c \in Callers, steadyUp'[c] = TRUE
    PROVE  /\ x0x' \in {"up", "stopping"}
           /\ call'[c].kind = "search"
           /\ At(c, "waiting") \/ steadyUp[c]
           /\ overtaken' = overtaken
BY DEF Watch, At

LEMMA WatchTyped ==
    ASSUME Watch, steadyUp \in [Callers -> BOOLEAN]
    PROVE  steadyUp' \in [Callers -> BOOLEAN]
<1> DEFINE up(c) == /\ call'[c].kind = "search"
                    /\ call[c].at = "waiting" \/ steadyUp[c]
                    /\ x0x' \in {"up", "stopping"}
<1>1. \A c \in Callers : up(c) \in BOOLEAN
  BY DEF up
<1>2. steadyUp' = [c \in Callers |-> up(c)]
  BY DEF Watch
<1> HIDE DEF up
<1>3. QED BY <1>1, <1>2

\* Another caller's step, and one that does not concern the search.
LEMMA SearchWaits ==
    ASSUME steadyUp \in [Callers -> BOOLEAN], NEW c \in Callers, SearchOK(c), Watch,
           snapshot' = snapshot, call'[c] = call[c]
    PROVE  SearchOK(c)'
<1>1. SUFFICES ASSUME steadyUp'[c] = TRUE
               PROVE  /\ x0x' \in {"up", "stopping"}
                      /\ call'[c].kind = "search"
                      /\ At(c, "store")' => call'[c].up = TRUE
                      /\ At(c, "decide")' /\ ~overtaken'[c] => snapshot'
  BY DEF SearchOK
<1>2. /\ x0x' \in {"up", "stopping"} /\ call'[c].kind = "search"
      /\ At(c, "waiting") \/ steadyUp[c]
      /\ overtaken' = overtaken
  BY <1>1, Watched
<1>3. CASE At(c, "waiting")
  BY <1>2, <1>3 DEF At
<1>4. CASE steadyUp[c] = TRUE
  BY <1>2, <1>4 DEF At, SearchOK
<1>5. QED BY <1>2, <1>3, <1>4

LEMMA StepWatches ==
    ASSUME NEW c \in Callers, Step(c), ~Store(c), CallsFit
    PROVE  Watch /\ snapshot' = snapshot
<1>1. CASE PollX0x(c) \/ Decide(c) \/ Tell(c) \/ TakeLock(c)
  BY <1>1 DEF PollX0x, Decide, Tell, TakeLock
<1>2. CASE CheckListener(c) \/ WriteListenerPid(c)
  BY <1>2 DEF CheckListener, WriteListenerPid
<1>3. ASSUME NEW p \in call[c].targets, Terminate(c, p)
      PROVE  Watch /\ snapshot' = snapshot
  BY <1>3 DEF Terminate, Keep
<1>4. CASE Probe(c) \/ StartX0x(c) \/ StopX0x(c) \/ WaitDown(c) \/ Refresh(c)
           \/ NeedsRefresh(c) \/ Sweep(c) \/ WaitGone(c) \/ Kill(c) \/ Recheck(c)
           \/ ReadTracked(c) \/ ClearAndReport(c)
  BY <1>4 DEF Probe, StartX0x, StopX0x, WaitDown, Refresh, NeedsRefresh, Sweep, WaitGone,
              Kill, Recheck, ReadTracked, ClearAndReport, Keep
<1>5. QED BY <1>1, <1>2, <1>3, <1>4 DEF Step, Action

\* The search's own steps.
LEMMA SearchSteps ==
    ASSUME Typed, NEW c \in Callers, SearchOK(c), Step(c), ~Store(c),
           steadyUp \in [Callers -> BOOLEAN]
    PROVE  SearchOK(c)'
<1>0. CallsFit /\ Fits(call[c]) BY DEF Typed, CallsFit
<1>1. SUFFICES ASSUME steadyUp'[c] = TRUE
               PROVE  /\ x0x' \in {"up", "stopping"}
                      /\ call'[c].kind = "search"
                      /\ At(c, "store")' => call'[c].up = TRUE
                      /\ At(c, "decide")' /\ ~overtaken'[c] => snapshot'
  BY DEF SearchOK
<1>2. Watch /\ snapshot' = snapshot BY <1>0, StepWatches
<1>3. /\ x0x' \in {"up", "stopping"} /\ call'[c].kind = "search"
      /\ overtaken' = overtaken
  BY <1>1, <1>2, Watched
<1>4. call[c].kind = "search" /\ call[c].at \notin {"waiting", "returned"}
  BY <1>0, <1>3, StepIsOne, StepLock
<1>5. call[c].at \in {"needs", "refresh", "store", "decide"}
  BY <1>0, <1>4 DEF Fits, OnCourse, CallState, CallSteps
<1>6. NeedsRefresh(c) \/ Refresh(c) \/ Decide(c)
  BY <1>5 DEF Step, Action, At, TakeLock, Probe, StartX0x, PollX0x, StopX0x, WaitDown, Store,
              CheckListener, WriteListenerPid, Sweep, Terminate, WaitGone, Kill, Recheck,
              ReadTracked, ClearAndReport, Tell
<1>7. CASE NeedsRefresh(c)
  <2>1. call'[c].at = IF snapshot THEN "decide" ELSE "refresh"
    BY <1>0, <1>7 DEF NeedsRefresh, Goto, Become, CallsFit, CallState, Fits
  <2>2. QED BY <1>2, <1>3, <2>1 DEF At
<1>8. CASE Refresh(c)
  <2> DEFINE up == Answers
             state == [call[c] EXCEPT !.at = "store", !.up = up]
  <2>1. call' = [call EXCEPT ![c] = state] /\ x0x' = x0x
    BY <1>8 DEF Refresh, Become
  <2>2. up = TRUE
    BY <1>3, <2>1 DEF Answers
  <2> HIDE DEF up
  <2>3. state.at = "store" /\ state.up = up
    BY <1>0 DEF Fits, CallState
  <2>4. call'[c] = state BY <1>0, <2>1 DEF CallsFit
  <2> HIDE DEF state
  <2>5. QED BY <1>3, <2>2, <2>3, <2>4 DEF At
<1>9. CASE Decide(c)
  <2>1. call'[c].at = "returned"
    BY <1>0, <1>9, FinishOne DEF Decide
  <2>2. QED BY <1>3, <2>1 DEF At
<1>10. QED BY <1>6, <1>7, <1>8, <1>9

\* Whoever stores the result of a probe.
LEMMA StoreSteps ==
    ASSUME Typed, NEW d \in Callers, Step(d), Store(d), NEW c \in Callers, SearchOK(c),
           steadyUp \in [Callers -> BOOLEAN]
    PROVE  SearchOK(c)'
<1>0. CallsFit /\ call[d].up \in BOOLEAN
  BY DEF Typed, CallsFit, Fits, CallState
<1>1. steadyUp' = steadyUp /\ x0x' = x0x /\ snapshot' = call[d].up /\ At(d, "store")
  BY DEF Store
<1>3. OnlyMoves(d) /\ call'[d].kind = call[d].kind
  BY StepIsOne
<1>4. CASE steadyUp[c] # TRUE
  BY <1>1, <1>4 DEF SearchOK
<1>5. CASE steadyUp[c] = TRUE /\ c = d
  <2>1. call[c].kind = "search" /\ call[c].up = TRUE
    BY <1>1, <1>5 DEF SearchOK
  <2>2. Goto(c, "decide") BY <1>5, <2>1 DEF Store
  <2>3. call'[c].at = "decide"
    BY <1>0, <2>2 DEF Goto, Become, CallsFit, Fits, CallState
  <2>4. QED BY <1>1, <1>3, <1>5, <2>1, <2>3 DEF SearchOK, At
<1>6. CASE steadyUp[c] = TRUE /\ c # d
  <2>1. call'[c] = call[c] BY <1>3, <1>6 DEF OnlyMoves
  <2>2. overtaken'[c] = (call[c].kind = "search" /\ (overtaken[c] \/ ~call[d].up))
    BY <1>6 DEF Store
  <2>3. call[c].kind = "search" BY <1>6 DEF SearchOK
  <2>4. ~overtaken'[c] => call[d].up = TRUE
    BY <1>0, <2>2, <2>3
  <2>5. QED BY <1>1, <1>6, <2>1, <2>4 DEF SearchOK, At
<1>7. QED BY <1>4, <1>5, <1>6

SearchInv == steadyUp \in [Callers -> BOOLEAN] /\ \A c \in Callers : SearchOK(c)

LEMMA SearchKept == Typed /\ SearchInv /\ [Next]_vars => SearchInv'
<1> SUFFICES ASSUME Typed, SearchInv, [Next]_vars PROVE SearchInv'
  OBVIOUS
<1>0. CallsFit /\ steadyUp \in [Callers -> BOOLEAN] BY DEF Typed, SearchInv
<1>1. ASSUME NEW c \in Callers, NEW k \in ThreadKinds \cup CommandKinds,
             NEW force \in BOOLEAN, Begin(c, k, force)
      PROVE  SearchInv'
  <2>1. OnlyMoves(c)
        /\ call'[c].at \in {"lock", "probe", "start", "halt", "needs", "listener", "sweep"}
    BY <1>0, <1>1, BeginMoves
  <2>2. Watch /\ snapshot' = snapshot BY <1>1 DEF Begin, Keep
  <2>3. ASSUME NEW d \in Callers \ {c} PROVE SearchOK(d)'
    BY <1>0, <2>1, <2>2, SearchWaits DEF OnlyMoves, SearchInv
  <2>4. SearchOK(c)'
    <3>1. SUFFICES ASSUME steadyUp'[c] = TRUE
                   PROVE  x0x' \in {"up", "stopping"} /\ call'[c].kind = "search"
      BY <2>1 DEF SearchOK, At
    <3>2. QED BY <2>2, <3>1, Watched
  <2>5. QED BY <1>0, <2>2, <2>3, <2>4, WatchTyped DEF SearchInv
<1>2. ASSUME NEW c \in Callers, Step(c), ~Store(c)
      PROVE  SearchInv'
  <2>1. OnlyMoves(c) BY <1>2, StepIsOne
  <2>2. Watch /\ snapshot' = snapshot BY <1>0, <1>2, StepWatches
  <2>3. ASSUME NEW d \in Callers \ {c} PROVE SearchOK(d)'
    BY <1>0, <2>1, <2>2, SearchWaits DEF OnlyMoves, SearchInv
  <2>4. SearchOK(c)' BY <1>0, <1>2, SearchSteps DEF SearchInv
  <2>5. QED BY <1>0, <2>2, <2>3, <2>4, WatchTyped DEF SearchInv
<1>3. ASSUME NEW c \in Callers, Step(c), Store(c)
      PROVE  SearchInv'
  <2>1. steadyUp' = steadyUp BY <1>3 DEF Store
  <2>2. QED BY <1>0, <1>3, <2>1, StoreSteps DEF SearchInv
<1>4. CASE Watch /\ UNCHANGED <<snapshot, call>>
  BY <1>0, <1>4, SearchWaits, WatchTyped DEF SearchInv
<1>5. CASE UNCHANGED servicesVars \/ UNCHANGED <<x0x, snapshot, call, steadyUp, overtaken>>
  BY <1>5 DEF servicesVars, SearchInv, SearchOK, At
<1>6. CASE Environment
  BY <1>4, <1>5, <1>6 DEF Environment, Keep
<1>7. QED BY <1>1, <1>2, <1>3, <1>5, <1>6 DEF Next, vars

(***************************************************************************)
(* SearchSeesDaemon, for any number of searches, probes and stops.         *)
(***************************************************************************)
THEOREM SearchesSeeDaemon == Spec => []SearchSeesDaemon
<1>1. Init => SearchInv
  BY DEF Init, SearchInv, SearchOK
<1>2. SearchInv => SearchSeesDaemon
  <2>1. SUFFICES ASSUME SearchInv, NEW c \in Callers, At(c, "decide"), steadyUp[c], ~overtaken[c]
                 PROVE  snapshot
    BY DEF SearchSeesDaemon
  <2>2. steadyUp[c] = TRUE /\ ~overtaken[c]
    BY <2>1 DEF SearchInv
  <2>3. QED BY <2>1, <2>2 DEF SearchInv, SearchOK
<1>3. QED BY <1>1, <1>2, TypesInitially, TypesKept, SearchKept, PTL DEF Spec
=============================================================================
