------------------------------- MODULE Migrate -------------------------------
(***************************************************************************)
(* Opening the database (av_store::db::open).  Every command, web request  *)
(* and responder answer opens its own connection, so several of them can   *)
(* reach a new database file at once: all of them try to switch it to WAL  *)
(* mode, and all of them see every migration as pending.                   *)
(*                                                                         *)
(* Only one connection can hold SQLite's write lock.  A connection that    *)
(* dies loses the lock and its uncommitted transaction.                    *)
(***************************************************************************)
EXTENDS Naturals

CONSTANTS
    Conns,       \* the connections that open the file
    Last,        \* the number of migrations in MIGRATIONS
    Attempts,    \* ATTEMPTS of ensure_wal
    MayDie,      \* connections whose process can die while it opens the file
    MayTimeOut,  \* connections that can wait out busy_timeout
    None

ASSUME LastAssumption == Last \in Nat
ASSUME AttemptsAssumption == Attempts \in Nat \ {0}
ASSUME NoneIsNoConn == None \notin Conns

Migrations == 1 .. Last

VARIABLES
    wal,       \* the file is in WAL mode
    walOwner,  \* the connection that is switching it, or None
    table,     \* applied_migrations exists
    applied,   \* the names it holds, committed
    ran,       \* how often the SQL of each migration is in the committed schema
    writer,    \* the holder of the write lock, or None
    conn       \* the local state of each connection

vars == <<wal, walOwner, table, applied, ran, writer, conn>>

Steps == {"closed", "wal", "switch", "table", "check", "begin", "recheck", "apply",
          "commit", "open", "failed", "dead"}

\* attempt: the attempt of ensure_wal; next: the migration it is at;
\* done: whether its open transaction has run that migration.
ConnState == [at : Steps, attempt : 0 .. Attempts, next : 1 .. Last + 1, done : BOOLEAN]

Closed == [at |-> "closed", attempt |-> 0, next |-> 1, done |-> FALSE]

At(c, s) == conn[c].at = s
Become(c, state) == conn' = [conn EXCEPT ![c] = state]
Goto(c, s) == Become(c, [conn[c] EXCEPT !.at = s])

Init ==
    /\ wal = FALSE
    /\ walOwner = None
    /\ table = FALSE
    /\ applied = {}
    /\ ran = [m \in Migrations |-> 0]
    /\ writer = None
    /\ conn = [c \in Conns |-> Closed]

-----------------------------------------------------------------------------
(* ensure_wal                                                              *)

Open(c) ==
    /\ At(c, "closed")
    /\ Goto(c, IF wal THEN "table" ELSE "wal")
    /\ UNCHANGED <<wal, walOwner, table, applied, ran, writer>>

\* PRAGMA journal_mode=WAL takes the exclusive lock, ...
SwitchToWal(c) ==
    /\ At(c, "wal")
    /\ ~wal
    /\ walOwner = None
    /\ walOwner' = c
    /\ Goto(c, "switch")
    /\ UNCHANGED <<wal, table, applied, ran, writer>>

Switched(c) ==
    /\ At(c, "switch")
    /\ wal' = TRUE
    /\ walOwner' = None
    /\ Goto(c, "table")
    /\ UNCHANGED <<table, applied, ran, writer>>

\* ... does nothing when the file is in WAL mode already, or fails at once
\* while another connection holds the lock: then the mode is read again.
AlreadyWal(c) ==
    /\ At(c, "wal")
    /\ wal
    /\ Goto(c, "table")
    /\ UNCHANGED <<wal, walOwner, table, applied, ran, writer>>

WalBusy(c) ==
    /\ At(c, "wal")
    /\ ~wal
    /\ walOwner # None
    /\ Become(c, [conn[c] EXCEPT !.attempt = @ + 1,
                                 !.at = IF conn[c].attempt + 1 = Attempts
                                        THEN "failed" ELSE "wal"])
    /\ UNCHANGED <<wal, walOwner, table, applied, ran, writer>>

-----------------------------------------------------------------------------
(* migrate                                                                 *)

\* CREATE TABLE IF NOT EXISTS applied_migrations, on its own.
CreateTable(c) ==
    /\ At(c, "table")
    /\ table \/ writer = None
    /\ table' = TRUE
    /\ Goto(c, "check")
    /\ UNCHANGED <<wal, walOwner, applied, ran, writer>>

\* The fast path: no lock for a migration that is recorded.
CheckApplied(c) ==
    /\ At(c, "check")
    /\ IF conn[c].next > Last THEN Goto(c, "open")
       ELSE IF conn[c].next \in applied
            THEN Become(c, [conn[c] EXCEPT !.next = @ + 1])
            ELSE Goto(c, "begin")
    /\ UNCHANGED <<wal, walOwner, table, applied, ran, writer>>

BeginImmediate(c) ==
    /\ At(c, "begin")
    /\ writer = None
    /\ writer' = c
    /\ Goto(c, "recheck")
    /\ UNCHANGED <<wal, walOwner, table, applied, ran>>

\* busy_timeout ran out while another connection held the lock.
BeginTimedOut(c) ==
    /\ c \in MayTimeOut
    /\ At(c, "begin")
    /\ writer # None
    /\ Goto(c, "failed")
    /\ UNCHANGED <<wal, walOwner, table, applied, ran, writer>>

Recheck(c) ==
    /\ At(c, "recheck")
    /\ Goto(c, IF conn[c].next \in applied THEN "commit" ELSE "apply")
    /\ UNCHANGED <<wal, walOwner, table, applied, ran, writer>>

\* ALTER TABLE ADD COLUMN of a column that is there fails, and the
\* transaction is rolled back.
Apply(c) ==
    /\ At(c, "apply")
    /\ IF ran[conn[c].next] = 0
       THEN /\ Become(c, [conn[c] EXCEPT !.at = "commit", !.done = TRUE])
            /\ UNCHANGED writer
       ELSE Goto(c, "failed") /\ writer' = None
    /\ UNCHANGED <<wal, walOwner, table, applied, ran>>

\* Mutant: the migration is not recorded in its own transaction.
CommitUnrecorded(c) ==
    /\ At(c, "commit")
    /\ ran' = IF conn[c].done THEN [ran EXCEPT ![conn[c].next] = @ + 1] ELSE ran
    /\ writer' = None
    /\ Become(c, [conn[c] EXCEPT !.at = "check", !.next = @ + 1, !.done = FALSE])
    /\ UNCHANGED <<wal, walOwner, table, applied>>

\* Mutant: the loser of a race moves on without ending its transaction.
CommitWinnerOnly(c) ==
    /\ At(c, "commit")
    /\ IF conn[c].done
       THEN /\ ran' = [ran EXCEPT ![conn[c].next] = @ + 1]
            /\ applied' = applied \cup {conn[c].next}
            /\ writer' = None
       ELSE UNCHANGED <<ran, applied, writer>>
    /\ Become(c, [conn[c] EXCEPT !.at = "check", !.next = @ + 1, !.done = FALSE])
    /\ UNCHANGED <<wal, walOwner, table>>

Commit(c) ==
    /\ At(c, "commit")
    /\ IF conn[c].done
       THEN /\ ran' = [ran EXCEPT ![conn[c].next] = @ + 1]
            /\ applied' = applied \cup {conn[c].next}
       ELSE UNCHANGED <<ran, applied>>
    /\ writer' = None
    /\ Become(c, [conn[c] EXCEPT !.at = "check", !.next = @ + 1, !.done = FALSE])
    /\ UNCHANGED <<wal, walOwner, table>>

-----------------------------------------------------------------------------

\* The request is over, and the next one opens the file again.
Close(c) ==
    /\ At(c, "open")
    /\ Become(c, Closed)
    /\ UNCHANGED <<wal, walOwner, table, applied, ran, writer>>

\* The process dies: SQLite drops its locks and its transaction.
Die(c) ==
    /\ c \in MayDie
    /\ conn[c].at \notin {"failed", "dead"}
    /\ Become(c, [Closed EXCEPT !.at = "dead"])
    /\ writer' = IF writer = c THEN None ELSE writer
    /\ walOwner' = IF walOwner = c THEN None ELSE walOwner
    /\ UNCHANGED <<wal, table, applied, ran>>

Step(c) ==
    \/ Open(c) \/ SwitchToWal(c) \/ Switched(c) \/ AlreadyWal(c) \/ WalBusy(c)
    \/ CreateTable(c) \/ CheckApplied(c) \/ BeginImmediate(c) \/ Recheck(c)
    \/ Apply(c) \/ Commit(c)

Next == \E c \in Conns : Step(c) \/ BeginTimedOut(c) \/ Close(c) \/ Die(c)

\* Every connection that can take a step of `open` eventually takes one: its
\* thread is scheduled, and SQLite's busy handler retries until the lock is
\* free.  Nothing makes a process close, die or time out.
Fairness == \A c \in Conns : WF_vars(Step(c))

Spec == Init /\ [][Next]_vars /\ Fairness

-----------------------------------------------------------------------------
TypeOK ==
    /\ wal \in BOOLEAN
    /\ walOwner \in Conns \cup {None}
    /\ table \in BOOLEAN
    /\ applied \subseteq Migrations
    /\ ran \in [Migrations -> Nat]
    /\ writer \in Conns \cup {None}
    /\ conn \in [Conns -> ConnState]

(***************************************************************************)
(* Each migration is executed once, whoever races to execute it, and the   *)
(* ones that are not recorded were not: ALTER TABLE ADD COLUMN cannot be   *)
(* repeated, and a recorded migration is never run again.                  *)
(***************************************************************************)
ExactlyOnce == \A m \in Migrations : ran[m] = IF m \in applied THEN 1 ELSE 0

(***************************************************************************)
(* Migrations are applied in order: each of them finds the schema that the *)
(* ones before it left.                                                    *)
(***************************************************************************)
InOrder == \A m \in applied : \A k \in 1 .. m : k \in applied

(***************************************************************************)
(* A connection that `open` returned works on a database with every        *)
(* migration, in WAL mode.                                                 *)
(***************************************************************************)
OpenIsMigrated ==
    \A c \in Conns : At(c, "open") => wal /\ applied = Migrations

(***************************************************************************)
(* Losing a race is not a failure: a connection that waits for the lock    *)
(* never fails on account of another's migration ("the loser used to fail  *)
(* with duplicate column name and the web server could not open a          *)
(* connection at all").  What is left is giving up on WAL mode.            *)
(***************************************************************************)
LosersSucceed ==
    \A c \in Conns \ MayTimeOut :
        At(c, "failed") => conn[c].attempt = Attempts

(***************************************************************************)
(* Opening terminates: no connection waits forever for one that lost, died *)
(* or gave up.                                                             *)
(***************************************************************************)
OpenReturns ==
    \A c \in Conns : ~At(c, "closed") ~> conn[c].at \in {"open", "failed", "dead"}
=============================================================================
