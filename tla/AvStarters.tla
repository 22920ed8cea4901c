----------------------------- MODULE AvStarters -----------------------------
(***************************************************************************)
(* Seeding the starter resources (av-cli/src/starters.rs).  `av web` opens *)
(* the database, migrates it, and before it binds its port runs one        *)
(* transaction that gives a fresh install its starters.  Meanwhile other   *)
(* connections, of a second server or of a command, open and migrate the   *)
(* same file, index a starter's location, purge it, block its content or   *)
(* lift the block.                                                         *)
(*                                                                         *)
(* The transaction takes SQLite's write lock, which is the lock that the   *)
(* migrations of Migrate take, and a process may die anywhere in it.       *)
(***************************************************************************)
EXTENDS Migrate

CONSTANTS
    Starters,  \* the locations of the bundled starters
    Servers,   \* the connections of av web, which seed
    Others,    \* the connections of other commands
    MaxBoots   \* bound: how often a server is restarted

ASSUME RolesAssumption == Servers \subseteq Conns /\ Others \subseteq Conns \ Servers
ASSUME BootsAssumption == MaxBoots \in Nat

VARIABLES
    store,  \* what is committed about each starter's location
    draft,  \* the same, as the open transaction of the seeder sees it
    pass,   \* where the pass of each connection is
    boots   \* bound: the restarts left

starterVars == <<store, draft, pass, boots>>
allVars == <<vars, starterVars>>

\* row: who stored the row at the location; whole: it has its embedding;
\* marked: starter_seeds has the location; blocked: the starter's content is.
Location == [row : {"none", "users", "starter"}, whole : BOOLEAN,
             marked : BOOLEAN, blocked : BOOLEAN]

Fresh == [row |-> "none", whole |-> FALSE, marked |-> FALSE, blocked |-> FALSE]

\* left: the starters the pass has not come to; at: its next statement; on:
\* the starter, or the location av index is storing.
PassState == [at : {"idle", "marker", "row", "blocked", "insert", "embed", "mark",
                    "user_embed", "booted"},
              left : SUBSET Starters, on : Starters \cup {None}]

NoPass == [at |-> "idle", left |-> {}, on |-> None]

StartersInit ==
    /\ Init
    /\ store = [l \in Starters |-> Fresh]
    /\ draft = store
    /\ pass = [c \in Conns |-> NoPass]
    /\ boots = MaxBoots

In(c, s) == pass[c].at = s
Advance(c, s) == pass' = [pass EXCEPT ![c].at = s]

\* The pass goes on with another starter, or to its COMMIT.
NextStarter(c) ==
    \/ \E l \in pass[c].left :
          pass' = [pass EXCEPT ![c] = [at |-> "marker", left |-> @.left \ {l}, on |-> l]]
    \/ /\ pass[c].left = {}
       /\ pass' = [pass EXCEPT ![c] = [at |-> "marker", left |-> {}, on |-> None]]

Here(c) == draft[pass[c].on]
Put(c, location) == draft' = [draft EXCEPT ![pass[c].on] = location]

-----------------------------------------------------------------------------
(* ensure_seeded                                                           *)

\* Mutant: a deferred BEGIN, which leaves the lock to others while it reads.
BeginWithoutLock(c) ==
    /\ At(c, "open")
    /\ In(c, "idle")
    /\ writer = None
    /\ draft' = store
    /\ \E l \in Starters :
          pass' = [pass EXCEPT ![c] = [at |-> "marker", left |-> Starters \ {l}, on |-> l]]
    /\ UNCHANGED <<vars, store>>

\* BEGIN IMMEDIATE, once `open` has returned.
BeginPass(c) ==
    /\ At(c, "open")
    /\ In(c, "idle")
    /\ writer = None
    /\ writer' = c
    /\ draft' = store
    /\ \E l \in Starters :
          pass' = [pass EXCEPT ![c] = [at |-> "marker", left |-> Starters \ {l}, on |-> l]]
    /\ UNCHANGED <<wal, walOwner, table, applied, ran, conn, store>>

\* is_seeded: a marked location is settled forever.
IsSeeded(c) ==
    /\ In(c, "marker")
    /\ pass[c].on # None
    /\ IF Here(c).marked THEN NextStarter(c) ELSE Advance(c, "row")
    /\ UNCHANGED <<vars, store, draft>>

\* get_by_location: the user's own row is adopted, and the location marked.
Adopt(c) ==
    /\ In(c, "row")
    /\ IF Here(c).row = "none"
       THEN Advance(c, "blocked") /\ UNCHANGED draft
       ELSE Put(c, [Here(c) EXCEPT !.marked = TRUE]) /\ NextStarter(c)
    /\ UNCHANGED <<vars, store>>

\* is_blocked: a blocked starter stays unmarked.
SkipBlocked(c) ==
    /\ In(c, "blocked")
    /\ IF Here(c).blocked THEN NextStarter(c) ELSE Advance(c, "insert")
    /\ UNCHANGED <<vars, store, draft>>

InsertStarter(c) ==
    /\ In(c, "insert")
    /\ Put(c, [Here(c) EXCEPT !.row = "starter", !.whole = FALSE])
    /\ Advance(c, "embed")
    /\ UNCHANGED <<vars, store>>

EmbedStarter(c) ==
    /\ In(c, "embed")
    /\ Put(c, [Here(c) EXCEPT !.whole = TRUE])
    /\ Advance(c, "mark")
    /\ UNCHANGED <<vars, store>>

\* mark_seeded
MarkSeeded(c) ==
    /\ In(c, "mark")
    /\ Put(c, [Here(c) EXCEPT !.marked = TRUE])
    /\ NextStarter(c)
    /\ UNCHANGED <<vars, store>>

\* Mutant: a pass that fails commits what it has.
AbortKeeps(c) ==
    /\ pass[c].at \notin {"idle", "user_embed", "booted"}
    /\ store' = draft
    /\ writer' = None
    /\ pass' = [pass EXCEPT ![c] = [NoPass EXCEPT !.at = "booted"]]
    /\ UNCHANGED <<wal, walOwner, table, applied, ran, conn, draft>>

\* A statement fails: the connection is dropped, the transaction rolled back,
\* and the server starts without the starters.
AbortPass(c) ==
    /\ pass[c].at \notin {"idle", "user_embed", "booted"}
    /\ draft' = store
    /\ writer' = None
    /\ pass' = [pass EXCEPT ![c] = [NoPass EXCEPT !.at = "booted"]]
    /\ UNCHANGED <<wal, walOwner, table, applied, ran, conn, store>>

CommitPass(c) ==
    /\ In(c, "marker")
    /\ pass[c].on = None
    /\ store' = draft
    /\ writer' = None
    /\ pass' = [pass EXCEPT ![c] = [NoPass EXCEPT !.at = "booted"]]
    /\ UNCHANGED <<wal, walOwner, table, applied, ran, conn, draft>>

SeedStep(c) ==
    \/ BeginPass(c) \/ IsSeeded(c) \/ Adopt(c) \/ SkipBlocked(c)
    \/ InsertStarter(c) \/ EmbedStarter(c) \/ MarkSeeded(c) \/ CommitPass(c)

-----------------------------------------------------------------------------
(* The other commands: one statement each, which waits for the write lock. *)

Write(c, l, location) ==
    /\ At(c, "open")
    /\ writer = None
    /\ store' = [store EXCEPT ![l] = location]
    /\ draft' = store'
    /\ UNCHANGED vars

\* av index of the starter's location: the row, and then its embedding.  Its
\* refusal of blocked content is read before, and not here.
UserStores(c, l) ==
    /\ In(c, "idle")
    /\ store[l].row = "none"
    /\ Write(c, l, [store[l] EXCEPT !.row = "users", !.whole = FALSE])
    /\ pass' = [pass EXCEPT ![c] = [NoPass EXCEPT !.at = "user_embed", !.on = l]]

UserEmbeds(c) ==
    /\ In(c, "user_embed")
    /\ LET l == pass[c].on
       IN  Write(c, l, [store[l] EXCEPT !.whole = (store[l].row # "none")])
    /\ pass' = [pass EXCEPT ![c] = NoPass]

Purge(c, l) ==
    /\ In(c, "idle")
    /\ store[l].row # "none"
    /\ Write(c, l, [store[l] EXCEPT !.row = "none", !.whole = FALSE])
    /\ UNCHANGED pass

SetBlock(c, l) ==
    /\ In(c, "idle")
    /\ Write(c, l, [store[l] EXCEPT !.blocked = ~@])
    /\ UNCHANGED pass

Command(c) ==
    \/ UserEmbeds(c)
    \/ \E l \in Starters : UserStores(c, l) \/ Purge(c, l) \/ SetBlock(c, l)

-----------------------------------------------------------------------------
\* Opening and migrating goes on as in Migrate.  A connection that dies takes
\* its pass with it, and one is closed only between two operations.
Opening(c) ==
    \/ (Step(c) \/ BeginTimedOut(c)) /\ UNCHANGED starterVars
    \/ Close(c) /\ In(c, "idle") /\ UNCHANGED starterVars
    \/ /\ Die(c)
       /\ draft' = IF writer = c THEN store ELSE draft
       /\ pass' = [pass EXCEPT ![c] = NoPass]
       /\ UNCHANGED <<store, boots>>

\* The server is stopped, and started again.
Restart(c) ==
    /\ In(c, "booted")
    /\ boots > 0
    /\ boots' = boots - 1
    /\ Become(c, Closed)
    /\ pass' = [pass EXCEPT ![c] = NoPass]
    /\ UNCHANGED <<wal, walOwner, table, applied, ran, writer, store, draft>>

StartersNext ==
    \/ \E c \in Conns : Opening(c)
    \/ \E c \in Servers : (SeedStep(c) \/ AbortPass(c)) /\ UNCHANGED boots
    \/ \E c \in Servers : Restart(c)
    \/ \E c \in Others : Command(c) /\ UNCHANGED boots

\* What Migrate assumes, and that a pass which holds the lock goes on: it is
\* straight-line code in one thread.
StartersSpec ==
    /\ StartersInit /\ [][StartersNext]_allVars
    /\ \A c \in Conns : WF_allVars(Step(c) /\ UNCHANGED starterVars)
    /\ \A c \in Servers : WF_allVars(SeedStep(c) /\ UNCHANGED boots)

-----------------------------------------------------------------------------
\* Types.
StartersTypeOK ==
    /\ TypeOK
    /\ store \in [Starters -> Location]
    /\ draft \in [Starters -> Location]
    /\ pass \in [Conns -> PassState]
    /\ boots \in 0 .. MaxBoots

(***************************************************************************)
(* A starter lands only where the user has left room for it: on a location *)
(* that holds no row ("theirs wins"), was not settled before ("a purged    *)
(* starter stays purged across restarts") and whose content is not blocked *)
(* at that instant, whatever other connections did since the pass read     *)
(* the three.                                                              *)
(***************************************************************************)
LandsWhereThereIsRoom ==
    [][\A l \in Starters :
          store[l].row # "starter" /\ store'[l].row = "starter" =>
              store[l].row = "none" /\ ~store[l].marked /\ ~store[l].blocked]_allVars

(***************************************************************************)
(* A crash or an error anywhere in the pass leaves no half-seeded starter: *)
(* one that is stored can be found by search, and is marked.               *)
(***************************************************************************)
SeededIsWhole ==
    \A l \in Starters : store[l].row = "starter" => store[l].whole /\ store[l].marked

(***************************************************************************)
(* A location that is settled is not one that search never finds: "marked  *)
(* forever, invisible to search".  It does not hold of a row the user's    *)
(* own av index left half-stored, which is adopted as it is.               *)
(***************************************************************************)
SettledIsWhole ==
    \A l \in Starters :
        store[l].marked /\ store[l].row # "none" /\ ~store[l].whole =>
            \E c \in Others : In(c, "user_embed") /\ pass[c].on = l
=============================================================================
