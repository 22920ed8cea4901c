------------------------------- MODULE AvNames -------------------------------
(***************************************************************************)
(* Names: what `av name`, `av resolve`, `av search`, the name responder of *)
(* `av listen` and the rating buttons do with the claims in `name_records` *)
(* while another command blocks and unblocks (av-index/src/naming.rs and   *)
(* its callers).                                                           *)
(*                                                                         *)
(* A claim can be suppressed in three independent ways: by its record id,  *)
(* by the resource its target is held as, and by the agent it was received *)
(* from.  Each list is a read of its own, the rows that relate a target to *)
(* a resource are further reads, and the moderator's statements (AvStore)  *)
(* run between any two of them.                                            *)
(*                                                                         *)
(* All records claim the one name that is asked for.  Scores only order    *)
(* what is found and are left out.                                         *)
(***************************************************************************)
EXTENDS AvStore, Naturals

CONSTANTS
    Askers,      \* the processes whose operations are modelled here
    Kind,        \* the operations each of them runs
    Authored,    \* the records `av name` makes on this machine
    Target,      \* the location each record points at
    Returns,     \* the <<agent, record>> pairs a peer may answer a query with
    MayMisread   \* the processes one of whose reads can fail

ASSUME AuthoredAssumption == Authored \subseteq Records
ASSUME TargetAssumption == Target \in [Records -> Locs]
ASSUME ReturnsAssumption == Returns \subseteq Agents \X Records

AskKinds == {"respond", "resolve", "search", "rate", "prompt"}

ASSUME KindAssumption == Kind \in [Askers -> SUBSET AskKinds]

VARIABLES
    origin,   \* origin_agent_id of each record, None when authored here
    op,       \* the operation of each asker between two statements
    steady    \* history: what was blocked, and stood for what, ever since

namesVars == <<origin, op, steady>>

\* A record as an operation read it.
Claim == [rec : Records, origin : Agents \cup {None}]

Lists == <<"name", "resource", "agent">>

AskSteps == {"idle", "accept", "cache", "insert", "lists", "own_list", "records",
             "policy", "targets", "show", "send", "check", "upsert", "claim"}

NoOp == [at |-> "idle", kind |-> "respond", heard |-> {}, rec |-> None,
         hits |-> {}, kept |-> {}, list |-> 1, resources |-> {}, network |-> {},
         names |-> {}, gate |-> FALSE, blind |-> FALSE]

OpState == [at : AskSteps, kind : AskKinds,
            heard : SUBSET (Agents \X Records),   \* answers still to be cached
            rec : Records \cup {None},            \* the record being rated
            hits : SUBSET Claim,                  \* records still to be checked
            kept : SUBSET Claim,                  \* records that passed
            list : 1 .. 3,                        \* the block list to read next
            resources : SUBSET Ids,               \* NameBlockPolicy.resources
            network : SUBSET Ids,                 \* resources heard of from peers
            names : SUBSET Records,               \* the names search knows as blocked
            gate : BOOLEAN,                       \* this is the pre-send gate
            blind : BOOLEAN]                      \* a failed read counted as empty

\* The rows that get_by_location can find for a record: those of its target,
\* or else those of the canonical target.  Of several the newest is taken.
PointsAt(r) ==
    IF RowsAt(Target[r]) # {} THEN RowsAt(Target[r]) ELSE RowsAt(Canon[Target[r]])

\* The resource a record stands for, while there is no other it could.
StandsFor == {e \in Records \X Ids : PointsAt(e[1]) = {e[2]}}

Now == [name |-> blocks["name"], resource |-> blocks["resource"],
        agent |-> blocks["agent"], target |-> StandsFor]

NamesTypeOK ==
    /\ TablesOK
    /\ embedded \subseteq Held
    /\ origin \in [Records -> Agents \cup {None}]
    /\ op \in [Askers -> OpState]
    /\ \A p \in Askers : op[p].at \in {"check", "upsert", "claim"} <=> op[p].rec # None
    /\ \A p \in Askers : op[p].at # "idle" => steady[p].target \subseteq Records \X Ids

NamesInit ==
    /\ resources \in [Ids -> {[location |-> l, canonical |-> Canon[l]] : l \in Locs}]
    /\ embedded = Held
    /\ names = [r \in Records |-> {}]
    /\ blocks = [k \in Kinds |-> {}]
    /\ blockedLocs = {}
    /\ proc = [p \in Procs |-> Idle]
    /\ origin = [r \in Records |-> None]
    /\ op = [p \in Askers |-> NoOp]
    /\ steady = [p \in Askers |-> Now]

Step(p, s) == op[p].at = s
Set(p, state) == op' = [op EXCEPT ![p] = state]
Finish(p) == Set(p, NoOp)

\* A read that returns an error ends the operation (`?`), or its result is
\* empty: nothing is sent, and a search shows what else it found.
Misread(p) ==
    /\ p \in MayMisread
    /\ IF op[p].kind = "search"
       THEN Set(p, [op[p] EXCEPT !.at = "show", !.hits = {}, !.kept = {}])
       ELSE Finish(p)

\* What every step of an operation leaves to the history.
Remember ==
    steady' = [p \in Askers |->
        IF op'[p].at = "idle" \/ op[p].at = "idle"
        THEN [name |-> blocks'["name"], resource |-> blocks'["resource"],
              agent |-> blocks'["agent"], target |-> StandsFor']
        ELSE [name |-> steady[p].name \cap blocks'["name"],
              resource |-> steady[p].resource \cap blocks'["resource"],
              agent |-> steady[p].agent \cap blocks'["agent"],
              target |-> steady[p].target \cap StandsFor']]

-----------------------------------------------------------------------------
(* Writers of name_records                                                 *)

\* INSERT OR REPLACE with the origin the caller knows.
InsertWithOrigin(r, from) ==
    /\ names' = [names EXCEPT ![r] = {Target[r], Canon[Target[r]]}]
    /\ origin' = [origin EXCEPT ![r] = from]

\* av name: a fresh record without an origin, stored and then broadcast.
NameIt(r) ==
    /\ r \in Authored
    /\ names[r] = {}
    /\ InsertWithOrigin(r, None)
    /\ UNCHANGED <<resources, embedded, blocks, blockedLocs, proc, op>>

\* Another `av resolve` caches a record, whose checks it made at any time
\* before.
CachedElsewhere(a, r) ==
    /\ <<a, r>> \in Returns
    /\ InsertWithOrigin(r, a)
    /\ UNCHANGED <<resources, embedded, blocks, blockedLocs, proc, op>>

-----------------------------------------------------------------------------
(* lookup_name: the records of the name, the three block lists, and for    *)
(* each record the resource its target is held as.                         *)

Lookup(state) == [state EXCEPT !.at = "records"]

\* Where the result of a lookup goes.
Found(state) ==
    IF state.kind = "respond" /\ ~state.gate
    THEN [state EXCEPT !.at = "policy", !.gate = TRUE, !.list = 1,
                       !.hits = state.kept, !.kept = {}, !.resources = {}]
    ELSE [state EXCEPT !.at = IF state.kind = "respond" THEN "send" ELSE "show",
                       !.kept = {c \in @ : c.rec \notin state.names}]

ReadRecords(p) ==
    /\ Step(p, "records")
    /\ LET found == {[rec |-> r, origin |-> origin[r]] : r \in {s \in Records : names[s] # {}}}
       IN  \/ Set(p, [op[p] EXCEPT !.at = "policy", !.list = 1, !.hits = found])
           \/ Misread(p)
    /\ UNCHANGED <<tables, proc, origin>>

\* What the list just read leaves: a list of records or of agents is applied
\* to what the record says of itself, a list of resources is kept for later.
\* The agent is the one the transport authenticated.
Retained(claims, k) ==
    CASE k = "name"     -> {c \in claims : c.rec \notin blocks["name"]}
      [] k = "agent"    -> {c \in claims : c.origin \notin blocks["agent"]}
      [] k = "resource" -> claims

\* Mutant: a list that cannot be read counts as empty.
OpenOnError(p) ==
    /\ Step(p, "policy")
    /\ LET k == Lists[op[p].list]
           read == [op[p] EXCEPT !.hits = Retained(@, k),
                                 !.resources = IF k = "resource" THEN BlockedResources ELSE @]
           next(state) == IF op[p].list = 3 THEN [state EXCEPT !.at = "targets"]
                          ELSE [state EXCEPT !.list = @ + 1]
       IN  Set(p, next(read)) \/ (p \in MayMisread /\ Set(p, next(op[p])))
    /\ UNCHANGED <<tables, proc, origin>>

\* NameBlockPolicy::load, one read after the other.
LoadPolicy(p) ==
    /\ Step(p, "policy")
    /\ LET k == Lists[op[p].list]
           read == [op[p] EXCEPT !.hits = Retained(@, k),
                                 !.resources = IF k = "resource" THEN BlockedResources ELSE @]
       IN  \/ Set(p, IF op[p].list = 3 THEN [read EXCEPT !.at = "targets"]
                     ELSE [read EXCEPT !.list = @ + 1])
           \/ Misread(p)
    /\ UNCHANGED <<tables, proc, origin>>

\* resolve_target_resource for one record, whose two spellings are read in
\* one step, and retain_unblocked_targets for its answer.  Nothing is looked
\* up, and nothing can fail, when no resource is blocked.
ResolveTarget(p, c) ==
    /\ Step(p, "targets") /\ c \in op[p].hits
    /\ \/ \E id \in IF PointsAt(c.rec) = {} THEN {None} ELSE PointsAt(c.rec) :
             Set(p, [op[p] EXCEPT !.hits = @ \ {c},
                        !.kept = IF id \in op[p].resources THEN @ ELSE @ \cup {c}])
       \/ op[p].resources # {} /\ Misread(p)
    /\ UNCHANGED <<tables, proc, origin>>

EndTargets(p) ==
    /\ Step(p, "targets") /\ op[p].hits = {}
    /\ Set(p, Found(op[p]))
    /\ UNCHANGED <<tables, proc, origin>>

-----------------------------------------------------------------------------
(* respond_to_name_query and its direct twin: lookup_name, the cap, and    *)
(* to_publishable_names, which loads the same policy again.                *)

RespondToName(p) ==
    /\ "respond" \in Kind[p]
    /\ Step(p, "idle")
    /\ Set(p, Lookup([NoOp EXCEPT !.kind = "respond"]))
    /\ UNCHANGED <<tables, proc, origin>>

\* q.max_results: any of the records found may be cut off before the gate.
Truncate(p) ==
    /\ Step(p, "policy") /\ op[p].gate /\ op[p].list = 1
    /\ \E S \in SUBSET op[p].hits : S # op[p].hits /\ Set(p, [op[p] EXCEPT !.hits = S])
    /\ UNCHANGED <<tables, proc, origin>>

\* The response leaves, or the command prints: an empty response is not sent.
Deliver(p) ==
    /\ op[p].at \in {"send", "show"}
    /\ Finish(p)
    /\ UNCHANGED <<tables, proc, origin>>

-----------------------------------------------------------------------------
(* av resolve: the answers of the peers that execute_resolve listened to   *)
(* (AvFanout) are cached one by one, and the lookup runs on the cache.     *)

Resolve(p) ==
    /\ "resolve" \in Kind[p]
    /\ Step(p, "idle")
    /\ Set(p, [NoOp EXCEPT !.at = "accept", !.kind = "resolve"])
    /\ UNCHANGED <<tables, proc, origin>>

\* accept_from, by the agents blocked when execute_resolve began to listen.
AcceptAnswers(p) ==
    /\ Step(p, "accept")
    /\ \E blind \in BOOLEAN, heard \in SUBSET Returns :
          /\ blind => p \in MayMisread
          /\ blind \/ \A e \in heard : e[1] \notin blocks["agent"]
          /\ Set(p, [op[p] EXCEPT !.at = "cache", !.heard = heard, !.blind = blind])
    /\ UNCHANGED <<tables, proc, origin>>

\* Mutant: a failed check counts as "not blocked".
CacheUnlessBlocked(p, e) ==
    /\ Step(p, "cache") /\ e \in op[p].heard
    /\ \/ Set(p, IF e[2] \in blocks["name"] THEN [op[p] EXCEPT !.heard = @ \ {e}]
                 ELSE [op[p] EXCEPT !.at = "insert", !.hits = {[rec |-> e[2], origin |-> e[1]]}])
       \/ p \in MayMisread
          /\ Set(p, [op[p] EXCEPT !.at = "insert", !.hits = {[rec |-> e[2], origin |-> e[1]]}])
    /\ UNCHANGED <<tables, proc, origin>>

\* is_blocked for one record of one answer; an error ends the command.
CheckRecord(p, e) ==
    /\ Step(p, "cache") /\ e \in op[p].heard
    /\ \/ Set(p, IF e[2] \in blocks["name"] THEN [op[p] EXCEPT !.heard = @ \ {e}]
                 ELSE [op[p] EXCEPT !.at = "insert", !.hits = {[rec |-> e[2], origin |-> e[1]]}])
       \/ Misread(p)
    /\ UNCHANGED <<tables, proc, origin>>

\* The origin is the agent the answer came from.  An insert that fails is
\* only logged.
CacheRecord(p) ==
    /\ Step(p, "insert")
    /\ \E c \in op[p].hits :
          /\ \/ InsertWithOrigin(c.rec, c.origin)
             \/ p \in MayMisread /\ UNCHANGED <<names, origin>>
          /\ Set(p, [op[p] EXCEPT !.at = "cache", !.hits = {},
                                  !.heard = @ \ {<<c.origin, c.rec>>}])
    /\ UNCHANGED <<resources, embedded, blocks, blockedLocs, proc>>

EndCache(p) ==
    /\ Step(p, "cache") /\ op[p].heard = {}
    /\ Set(p, Lookup(op[p]))
    /\ UNCHANGED <<tables, proc, origin>>

-----------------------------------------------------------------------------
(* collect_results, the part that merges what the network and the name     *)
(* table have to say.  Its own two lists are read with unwrap_or_default.  *)

Search(p) ==
    /\ "search" \in Kind[p]
    /\ Step(p, "idle")
    /\ \E found \in SUBSET Ids :
          Set(p, [NoOp EXCEPT !.at = "lists", !.kind = "search", !.network = found])
    /\ UNCHANGED <<tables, proc, origin>>

\* Mutant: nothing is dropped from what the peers returned.
KeepNetworkHits(p) ==
    /\ Step(p, "lists")
    /\ Set(p, [op[p] EXCEPT !.at = "own_list"])
    /\ UNCHANGED <<tables, proc, origin>>

DropNetworkHits(p) ==
    /\ Step(p, "lists")
    /\ \/ Set(p, [op[p] EXCEPT !.at = "own_list", !.network = @ \ BlockedResources])
       \/ p \in MayMisread /\ Set(p, [op[p] EXCEPT !.at = "own_list", !.blind = TRUE])
    /\ UNCHANGED <<tables, proc, origin>>

ReadBlockedNames(p) ==
    /\ Step(p, "own_list")
    /\ \/ Set(p, Lookup([op[p] EXCEPT !.names = blocks["name"]]))
       \/ p \in MayMisread /\ Set(p, Lookup(op[p]))
    /\ UNCHANGED <<tables, proc, origin>>

-----------------------------------------------------------------------------
(* Rating a name result, by POST /api/rate (reinforce) and at the prompt   *)
(* that `av search` ends with.  The result may have been on the screen for *)
(* any time, so the record need not be stored any more.  One that          *)
(* `av name` made while the daemon was down is broadcast like a peer's.    *)

\* A rating is answered 400 unless a row has the resource id it names.  The page
\* shows no button beside a name, whose result carries an id that no row has: only
\* a request that names a stored resource and echoes a name result goes on.
Rate(p, r) ==
    /\ "rate" \in Kind[p]
    /\ Step(p, "idle")
    /\ Held # {}
    /\ Set(p, [NoOp EXCEPT !.at = "check", !.kind = "rate", !.rec = r])
    /\ UNCHANGED <<tables, proc, origin>>

\* A failed check counts as "not blocked" here.
CheckRated(p) ==
    /\ Step(p, "check")
    /\ \/ IF op[p].rec \in blocks["name"] THEN Finish(p)
          ELSE Set(p, [op[p] EXCEPT !.at = "upsert"])
       \/ p \in MayMisread /\ Set(p, [op[p] EXCEPT !.at = "upsert", !.blind = TRUE])
    /\ UNCHANGED <<tables, proc, origin>>

\* The prompt stores the relevance at once.
Prompt(p, r) ==
    /\ "prompt" \in Kind[p]
    /\ Step(p, "idle")
    /\ Set(p, [NoOp EXCEPT !.at = "upsert", !.kind = "prompt", !.rec = r])
    /\ UNCHANGED <<tables, proc, origin>>

\* name_upsert; the button stops when it fails, the prompt goes on.
UpsertRelevance(p) ==
    /\ Step(p, "upsert")
    /\ \/ Set(p, [op[p] EXCEPT !.at = "claim"])
       \/ op[p].kind = "rate" /\ Misread(p)
    /\ UNCHANGED <<tables, proc, origin>>

\* publish_name_claim
Broadcast(p) ==
    /\ Step(p, "claim")
    /\ Finish(p)
    /\ UNCHANGED <<tables, proc, origin>>

-----------------------------------------------------------------------------
Ask(p) ==
    \/ RespondToName(p) \/ Truncate(p) \/ Deliver(p)
    \/ Resolve(p) \/ AcceptAnswers(p) \/ CacheRecord(p) \/ EndCache(p)
    \/ \E e \in op[p].heard : CheckRecord(p, e)
    \/ Search(p) \/ DropNetworkHits(p) \/ ReadBlockedNames(p)
    \/ ReadRecords(p) \/ LoadPolicy(p) \/ EndTargets(p)
    \/ \E c \in op[p].hits : ResolveTarget(p, c)
    \/ \E r \in Records : Rate(p, r) \/ Prompt(p, r)
    \/ CheckRated(p) \/ UpsertRelevance(p) \/ Broadcast(p)

NamesNext ==
    /\ \/ \E p \in Askers : Ask(p)
       \/ \E r \in Records : NameIt(r)
       \/ \E a \in Agents, r \in Records : CachedElsewhere(a, r)
       \/ \E m \in Moderators : Moderate(m) /\ UNCHANGED <<origin, op>>
    /\ Remember

NamesSpec == NamesInit /\ [][NamesNext]_<<vars, namesVars>>

-----------------------------------------------------------------------------
(* Properties                                                              *)

(***************************************************************************)
(* No answer, result or search page contains a record that has been        *)
(* blocked since before the operation began, whichever of the three blocks *)
(* it is and whatever is blocked, unblocked, cached or deleted meanwhile,  *)
(* also when reads fail: the record itself, the agent it came from, or the *)
(* resource it stands for, as long as the one row that relates the two     *)
(* stays (naming.rs: "the single choke point every name-serving path goes  *)
(* through").                                                              *)
(***************************************************************************)
IsOpen(c, since) ==
    /\ c.rec \notin since.name
    /\ c.origin \notin since.agent
    /\ \A i \in since.resource : <<c.rec, i>> \notin since.target

ServedIsOpen ==
    \A p \in Askers : op[p].at \in {"send", "show"} =>
        \A c \in op[p].kept : IsOpen(c, steady[p])

(***************************************************************************)
(* Resolving never brings a suppressed name back: what is put into the     *)
(* cache was not blocked by its id, and, unless the list of agents could   *)
(* not be read, not sent by a blocked agent, all through the command       *)
(* (resolve.rs: "a transient read failure would quietly reintroduce names  *)
(* the operator suppressed").                                              *)
(***************************************************************************)
CachedIsOpen ==
    \A p \in Askers : Step(p, "insert") =>
        \A c \in op[p].hits :
            /\ c.rec \notin steady[p].name
            /\ op[p].blind \/ c.origin \notin steady[p].agent

(***************************************************************************)
(* A resource that only a peer knows is not shown while it is blocked,     *)
(* unless the block list could not be read: network hits never pass        *)
(* through the index, so this is the only filter they meet.                *)
(***************************************************************************)
NetworkHitsAreOpen ==
    \A p \in Askers : Step(p, "show") /\ ~op[p].blind =>
        op[p].network \cap steady[p].resource = {}

\* A claim for a record is on its way out though it has long been blocked.
Undoes(p) == Step(p, "claim") /\ ~op[p].blind /\ op[p].rec \in steady[p].name

(***************************************************************************)
(* A rating never broadcasts a name that was blocked before it was given.  *)
(* It holds of POST /api/rate, which hardly ever gets there, and not of    *)
(* the prompt of `av search`: search.rs says of reinforce that it is       *)
(* shared by the two "so both reinforce results identically", but the      *)
(* prompt has code of its own, without the check.                          *)
(***************************************************************************)
BothRateAlike == \A p \in Askers : ~Undoes(p)

(***************************************************************************)
(* A name this machine authored is never suppressed by the block of an     *)
(* agent (names.rs: origin_agent_id "stays NULL and agent blocks never     *)
(* touch it").                                                             *)
(***************************************************************************)
AuthoredIsMine ==
    \A r \in Authored : names[r] # {} => origin[r] \notin blocks["agent"]
=============================================================================
