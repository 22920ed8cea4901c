--------------------------- MODULE AvListenerProc ---------------------------
(***************************************************************************)
(* The background `av listen` processes and the PID file by which the      *)
(* other processes find them (av-cli/src/listener.rs).                     *)
(*                                                                         *)
(* A listener is spawned by a command, by a thread of the web server, or   *)
(* by a user at a terminal.  The one that spawns it never waits for it: a  *)
(* dead child stays a zombie, which still answers signal 0, until its      *)
(* parent exits.  The PID file is written by the parent after the spawn    *)
(* and by the child when it is ready, and removed by the child's guard and *)
(* by every stop; nothing locks it.                                        *)
(***************************************************************************)
EXTENDS Naturals, FiniteSets

CONSTANTS
    Pids,        \* process ids
    Threads,     \* threads of the web server that call this module
    Commands,    \* `av` commands that do, each a process of its own
    MaxMishaps,  \* bound: the events nothing in these modules causes
    None         \* no process: no PID file, no parent left

ASSUME CallersAssumption == Threads \cap Commands = {} /\ None \notin Threads \cup Commands
ASSUME PidsAssumption ==
    Pids # {} /\ Pids \cap (Threads \cup Commands) = {} /\ None \notin Pids
ASSUME MishapsAssumption == MaxMishaps \in Nat

Callers == Threads \cup Commands

VARIABLES
    process,   \* what runs under each pid
    parent,    \* who has to reap it
    doomed,    \* the processes with a fatal signal pending
    pidfile,   \* av-listener.pid
    owed,      \* history: what each caller found running, and still runs
    mishaps    \* bound: how many of those events there were

procVars == <<process, parent, doomed, pidfile, owed, mishaps>>

\* "running" has not written its pid yet, "zombie" is dead and not reaped,
\* "other" is another program.
ProcessStates == {"free", "running", "serving", "zombie", "other"}

ProcTypeOK ==
    /\ process \in [Pids -> ProcessStates]
    /\ parent \in [Pids -> {"server", None} \cup Commands]
    /\ doomed \subseteq {p \in Pids : process[p] \notin {"free", "zombie"}}
    /\ pidfile \in Pids \cup {None}
    /\ owed \in [Callers -> SUBSET Pids]
    /\ mishaps \in 0..MaxMishaps
    /\ \A p \in Pids : process[p] = "zombie" => parent[p] # None

Listening == {p \in Pids : process[p] \in {"running", "serving"}}

\* What earlier sessions left: no file, or one that names a listener that
\* still serves or a process that is gone.  Which pid it is does not matter.
ProcInit ==
    /\ pidfile \in {None, CHOOSE p \in Pids : TRUE}
    /\ process \in [Pids -> {"free", "serving"}]
    /\ \A p \in Pids : process[p] = "serving" => pidfile = p
    /\ parent = [p \in Pids |-> None]
    /\ doomed = {}
    /\ owed = [c \in Callers |-> {}]
    /\ mishaps = 0

Mishap == mishaps < MaxMishaps /\ mishaps' = mishaps + 1

\* process_alive: signal 0 can be sent.
ProcessAlive(p) == process[p] # "free"

\* is_running; the file and the process it names are looked at in one step.
IsRunning == pidfile # None /\ ProcessAlive(pidfile)

\* Mutant: only the process in the PID file is looked for.
TrackedOnly == {pidfile} \cap Listening

\* find_listener_pids; a zombie has no command line.
FindListenerPids == Listening

WritePid(p) == pidfile' = p
ClearPid == pidfile' = None

\* Who reaps the child of a caller.
ParentOf(c) == IF c \in Threads THEN "server" ELSE c

-----------------------------------------------------------------------------
(* What callers do to the processes.                                       *)

\* spawn_background_listener: the spawn returns when the child has executed
\* `av listen`; the pid is written in a step of its own.
Spawn(c, p) ==
    /\ process[p] = "free"
    /\ process' = [process EXCEPT ![p] = "running"]
    /\ parent' = [parent EXCEPT ![p] = ParentOf(c)]
    /\ UNCHANGED <<doomed, pidfile, owed, mishaps>>

\* kill(2): the signal is pending until the process is scheduled.
Signal(p) ==
    /\ doomed' = IF process[p] \in {"free", "zombie"} THEN doomed ELSE doomed \cup {p}
    /\ UNCHANGED <<process, parent, pidfile, owed, mishaps>>

\* A command has exited: what it left unreaped goes, its other children are
\* adopted.
Adopt(c) ==
    /\ \E p \in Pids : parent[p] = c
    /\ process' = [p \in Pids |-> IF parent[p] = c /\ process[p] = "zombie"
                                  THEN "free" ELSE process[p]]
    /\ parent' = [p \in Pids |-> IF parent[p] = c THEN None ELSE parent[p]]
    /\ UNCHANGED <<doomed, pidfile, owed, mishaps>>

-----------------------------------------------------------------------------
(* What the processes do on their own.                                     *)

Ended(p) ==
    /\ process' = [process EXCEPT ![p] = IF parent[p] = None THEN "free" ELSE "zombie"]
    /\ doomed' = doomed \ {p}
    /\ owed' = [c \in Callers |-> owed[c] \ {p}]
    /\ UNCHANGED parent

\* `av listen` registers itself, if the daemon was there when it looked.
Register(p) ==
    /\ process[p] = "running"
    /\ process' = [process EXCEPT ![p] = "serving"]
    /\ WritePid(p)
    /\ UNCHANGED <<parent, doomed, owed, mishaps>>

\* It returns an error before that and leaves the file alone.
GiveUp(p) ==
    /\ process[p] = "running"
    /\ Mishap
    /\ Ended(p)
    /\ UNCHANGED pidfile

\* The loop ends by an error or its time limit, and PidFileGuard is dropped.
Return(p) ==
    /\ process[p] = "serving"
    /\ Mishap
    /\ Ended(p)
    /\ ClearPid

\* A signal kills without unwinding: the guard is not dropped.
Die(p) ==
    /\ process[p] \in {"running", "serving", "other"}
    /\ \/ p \in doomed /\ UNCHANGED mishaps
       \/ process[p] = "serving" /\ Mishap
    /\ Ended(p)
    /\ UNCHANGED pidfile

UserListens(p) ==
    /\ Mishap
    /\ process[p] = "free"
    /\ process' = [process EXCEPT ![p] = "running"]
    /\ UNCHANGED <<parent, doomed, pidfile, owed>>

Reuse(p) ==
    /\ Mishap
    /\ process[p] = "free"
    /\ process' = [process EXCEPT ![p] = "other"]
    /\ UNCHANGED <<parent, doomed, pidfile, owed>>

ProcessNext ==
    \E p \in Pids : Register(p) \/ GiveUp(p) \/ Return(p) \/ Die(p)
                    \/ UserListens(p) \/ Reuse(p)
=============================================================================
