------------------------------- MODULE AvStore -------------------------------
(***************************************************************************)
(* The processes that share one Anta Vista database.                       *)
(*                                                                         *)
(* `av` has no daemon that owns the database: each command line run, each  *)
(* worker thread of the web server and the `av listen` responder opens its *)
(* own SQLite connection.  An operation is therefore a sequence of         *)
(* statements, each of them atomic, and the statements of two operations   *)
(* interleave freely.  Here a moderator is a process that blocks and       *)
(* unblocks, a worker one that indexes, propagates, fetches, answers       *)
(* peers, purges or names.                                                 *)
(*                                                                         *)
(* Every operation may stop after any statement: the process is killed, or *)
(* a statement fails and `?` returns from the handler.  Nothing undoes the *)
(* statements that were already committed.                                 *)
(***************************************************************************)
EXTENDS AvTables

CONSTANTS
    Moderators,  \* processes running av block / av unblock
    Workers,     \* processes running every other operation
    Ops,         \* the operations this instance has
    MayFail      \* the processes that can stop between two statements

ASSUME ProcsAssumption == Moderators \cap Workers = {}
ASSUME NoneIsNoSubject == None \notin Records \cup Agents

Procs == Moderators \cup Workers

OpNames == {"block", "block_other", "unblock", "clear_kind", "clear_all", "index",
            "force", "propagate", "fetch", "respond", "purge", "purge_all",
            "purge_duplicates", "name"}

ASSUME OpsAssumption == Ops \subseteq OpNames

VARIABLE proc    \* the local state of each process between two statements

vars == <<tables, proc>>

\* The statement a process executes next; "idle" between two operations.
Steps == {"idle",
          "read_spellings", "record", "remove", "forget_each", "clear_all",
          "by_location", "force_delete", "by_hash", "index_store", "index_embed",
          "announce", "recorded", "joined", "propagate_store", "propagate_embed",
          "admit", "filter", "rows", "gate", "send", "dedupe"}

ProcState == [at   : Steps,
              id   : Ids \cup {None},      \* the resource the operation is about
              loc  : Locs \cup {None},     \* the location it was handed
              todo : Seq(Locs),            \* spellings still to record or to check
              hits : SUBSET Ids,           \* ids read from the database
              flag : BOOLEAN]              \* --keep-local of a block, --force of an index

Idle == [at |-> "idle", id |-> None, loc |-> None, todo |-> << >>, hits |-> {},
         flag |-> FALSE]

At(p, s) == proc[p].at = s
Become(p, state) == proc' = [proc EXCEPT ![p] = state]
Goto(p, s) == Become(p, [proc[p] EXCEPT !.at = s])
Return(p) == Become(p, Idle)

Init ==
    \* The database left by earlier commands: rows with both spellings, as
    \* av index writes them, or without the canonical one, as a propagated row
    \* is written, all of them embedded; no block yet.
    /\ resources \in [Ids -> {row \in Row : row.canonical \in {Canon[row.location], None}}
                             \cup {None}]
    /\ embedded = Held
    /\ names = [r \in Records |-> {}]
    /\ blocks = [k \in Kinds |-> {}]
    /\ blockedLocs = {}
    /\ proc = [p \in Procs |-> Idle]

-----------------------------------------------------------------------------
(* block_subject.  The block row, then one row per spelling, then the      *)
(* local copy.                                                             *)

Block(m, i, keep) ==
    /\ "block" \in Ops
    /\ At(m, "idle")
    /\ AddBlock("resource", i)
    /\ Become(m, [Idle EXCEPT !.at = "read_spellings", !.id = i, !.flag = keep])
    /\ UNCHANGED <<resources, embedded, names, blockedLocs>>

\* A name or an agent has no local row to record or to remove.
BlockOther(m, k, s) ==
    /\ "block_other" \in Ops
    /\ At(m, "idle")
    /\ AddBlock(k, s)
    /\ UNCHANGED <<resources, embedded, names, blockedLocs, proc>>

ReadSpellings(m) ==
    /\ At(m, "read_spellings")
    /\ Become(m, [proc[m] EXCEPT !.at = "record",
                                 !.todo = Spellings(resources[proc[m].id])])
    /\ UNCHANGED tables

RecordSpelling(m) ==
    /\ At(m, "record")
    /\ proc[m].todo # << >>
    /\ RecordLocation(proc[m].id, Head(proc[m].todo))
    /\ Become(m, [proc[m] EXCEPT !.todo = Tail(@)])
    /\ UNCHANGED <<resources, embedded, names, blocks>>

DropLocalCopy(m) ==
    /\ At(m, "record")
    /\ proc[m].todo = << >>
    /\ ~proc[m].flag
    /\ DeleteResourceAndNames(proc[m].id)
    /\ Return(m)
    /\ UNCHANGED <<blocks, blockedLocs>>

KeepLocalCopy(m) ==
    /\ At(m, "record")
    /\ proc[m].todo = << >>
    /\ proc[m].flag
    /\ Return(m)
    /\ UNCHANGED tables

-----------------------------------------------------------------------------
(* unblock_subject.  The recorded spellings go before the block row.       *)

\* Mutant: the recorded spellings are left behind.
UnblockRowOnly(m, i) ==
    /\ "unblock" \in Ops
    /\ At(m, "idle")
    /\ Become(m, [Idle EXCEPT !.at = "remove", !.id = i])
    /\ UNCHANGED tables

Unblock(m, i) ==
    /\ "unblock" \in Ops
    /\ At(m, "idle")
    /\ ForgetLocations(i)
    /\ Become(m, [Idle EXCEPT !.at = "remove", !.id = i])
    /\ UNCHANGED <<resources, embedded, names, blocks>>

Remove(m) ==
    /\ At(m, "remove")
    /\ RemoveBlock("resource", proc[m].id)
    /\ Return(m)
    /\ UNCHANGED <<resources, embedded, names, blockedLocs>>

UnblockOther(m, k, s) ==
    /\ "block_other" \in Ops
    /\ At(m, "idle")
    /\ RemoveBlock(k, s)
    /\ UNCHANGED <<resources, embedded, names, blockedLocs, proc>>

\* unblock --kind resource: the ids are read from blocked_locations, and
\* forgotten one at a time, in no particular order.
ClearResources(m) ==
    /\ "clear_kind" \in Ops
    /\ At(m, "idle")
    /\ Become(m, [Idle EXCEPT !.at = "forget_each", !.hits = IdsWithRecordedLocations])
    /\ UNCHANGED tables

ForgetEach(m) ==
    /\ At(m, "forget_each")
    /\ \E i \in proc[m].hits :
          /\ ForgetLocations(i)
          /\ Become(m, [proc[m] EXCEPT !.hits = @ \ {i}])
    /\ UNCHANGED <<resources, embedded, names, blocks>>

ClearResourceBlocks(m) ==
    /\ At(m, "forget_each")
    /\ proc[m].hits = {}
    /\ ClearBlocks({"resource"})
    /\ Return(m)
    /\ UNCHANGED <<resources, embedded, names, blockedLocs>>

ClearOther(m, k) ==
    /\ "block_other" \in Ops
    /\ At(m, "idle")
    /\ ClearBlocks({k})
    /\ UNCHANGED <<resources, embedded, names, blockedLocs, proc>>

\* unblock --all
ForgetAll(m) ==
    /\ "clear_all" \in Ops
    /\ At(m, "idle")
    /\ blockedLocs' = {}
    /\ Become(m, [Idle EXCEPT !.at = "clear_all"])
    /\ UNCHANGED <<resources, embedded, names, blocks>>

ClearAllBlocks(m) ==
    /\ At(m, "clear_all")
    /\ ClearBlocks(Kinds)
    /\ Return(m)
    /\ UNCHANGED <<resources, embedded, names, blockedLocs>>

Moderate(m) ==
    \/ \E i \in Ids, keep \in BOOLEAN : Block(m, i, keep)
    \/ ReadSpellings(m) \/ RecordSpelling(m) \/ DropLocalCopy(m) \/ KeepLocalCopy(m)
    \/ \E i \in Ids : Unblock(m, i)
    \/ Remove(m)
    \/ ClearResources(m) \/ ForgetEach(m) \/ ClearResourceBlocks(m)
    \/ ForgetAll(m) \/ ClearAllBlocks(m)
    \/ \E k \in Kinds \ {"resource"} :
          \/ ClearOther(m, k)
          \/ \E s \in SubjectsOf[k] : BlockOther(m, k, s) \/ UnblockOther(m, k, s)

-----------------------------------------------------------------------------
(* index_resource_from_bytes.  The content hash is refused when blocked,   *)
(* then deduplicated by location and by hash; only then is the row stored, *)
(* embedded and announced.                                                 *)

\* Mutant: the block list is not consulted.
IndexUnchecked(w, i, l, force) ==
    /\ "index" \in Ops
    /\ force => "force" \in Ops
    /\ At(w, "idle")
    /\ Become(w, [Idle EXCEPT !.at = "by_location", !.id = i, !.loc = l, !.flag = force])
    /\ UNCHANGED tables

Index(w, i, l, force) ==
    /\ "index" \in Ops
    /\ force => "force" \in Ops
    /\ At(w, "idle")
    /\ i \notin BlockedResources
    /\ Become(w, [Idle EXCEPT !.at = "by_location", !.id = i, !.loc = l, !.flag = force])
    /\ UNCHANGED tables

NotHeldByLocation(w) ==
    /\ At(w, "by_location")
    /\ RowsAt(proc[w].loc) = {}
    /\ Goto(w, "by_hash")
    /\ UNCHANGED tables

HeldByLocation(w) ==
    /\ At(w, "by_location")
    /\ \E newest \in RowsAt(proc[w].loc) :
          IF proc[w].flag
          THEN Become(w, [proc[w] EXCEPT !.at = "force_delete", !.hits = {newest}])
          ELSE Return(w)          \* reported as a duplicate
    /\ UNCHANGED tables

ForceDelete(w) ==
    /\ At(w, "force_delete")
    /\ DeleteResources(proc[w].hits)
    /\ Become(w, [proc[w] EXCEPT !.at = "by_hash", !.hits = {}])
    /\ UNCHANGED <<names, blocks, blockedLocs>>

CheckHash(w) ==
    /\ At(w, "by_hash")
    /\ IF resources[proc[w].id] # None /\ ~proc[w].flag
       THEN Return(w)
       ELSE Goto(w, "index_store")
    /\ UNCHANGED tables

StoreIndexed(w) ==
    /\ At(w, "index_store")
    /\ InsertResource(proc[w].id,
                      [location |-> proc[w].loc, canonical |-> Canon[proc[w].loc]])
    /\ Goto(w, "index_embed")
    /\ UNCHANGED <<names, blocks, blockedLocs>>

\* The embedding of a row that is gone violates its foreign key: the
\* operation returns the error.
EmbedIndexed(w) ==
    /\ At(w, "index_embed")
    /\ IF resources[proc[w].id] # None
       THEN InsertEmbedding(proc[w].id) /\ Goto(w, "announce")
       ELSE Return(w) /\ UNCHANGED embedded
    /\ UNCHANGED <<resources, names, blocks, blockedLocs>>

Announce(w) ==
    /\ At(w, "announce")
    /\ Return(w)
    /\ UNCHANGED tables

-----------------------------------------------------------------------------
(* The location guard, is_location_blocked for each spelling in `todo`.    *)
(* propagate_resource runs it on both spellings, a fetch (refuse_if_blocked)*)
(* on the one it was handed.                                               *)

CheckRecorded(w) ==
    /\ At(w, "recorded")
    /\ IF IsRecorded(Head(proc[w].todo)) THEN Return(w) ELSE Goto(w, "joined")
    /\ UNCHANGED tables

CheckJoined(w) ==
    /\ At(w, "joined")
    /\ IF IsJoined(Head(proc[w].todo)) THEN Return(w)
       ELSE Become(w, [proc[w] EXCEPT
                           !.todo = Tail(@),
                           !.at = IF Tail(proc[w].todo) # << >> THEN "recorded"
                                  ELSE IF proc[w].id = None THEN "admit"
                                  ELSE "propagate_store"])
    /\ UNCHANGED tables

Fetch(w, l) ==
    /\ "fetch" \in Ops
    /\ At(w, "idle")
    /\ Become(w, [Idle EXCEPT !.at = "recorded", !.loc = l, !.todo = <<l>>])
    /\ UNCHANGED tables

\* What a guarded route was asked for is fetched and served: no block list is read
\* again.
ServeFetched(w) ==
    /\ At(w, "admit")
    /\ Return(w)
    /\ UNCHANGED tables

\* propagate_resource stores the id and the location a peer advertised,
\* whatever is already held under that id.
Propagate(w, i, l) ==
    /\ "propagate" \in Ops
    /\ At(w, "idle")
    /\ i \notin BlockedResources
    /\ Become(w, [Idle EXCEPT !.at = "recorded", !.id = i, !.loc = l,
                              !.todo = Spellings([location |-> l, canonical |-> Canon[l]])])
    /\ UNCHANGED tables

StorePropagated(w) ==
    /\ At(w, "propagate_store")
    /\ InsertResource(proc[w].id, [location |-> proc[w].loc, canonical |-> None])
    /\ Goto(w, "propagate_embed")
    /\ UNCHANGED <<names, blocks, blockedLocs>>

\* Mutant: a propagated row is not embedded.
PropagateUnembedded(w) ==
    /\ At(w, "propagate_embed")
    /\ Return(w)
    /\ UNCHANGED tables

EmbedPropagated(w) ==
    /\ At(w, "propagate_embed")
    /\ IF resources[proc[w].id] # None THEN InsertEmbedding(proc[w].id)
                                       ELSE UNCHANGED embedded
    /\ Return(w)
    /\ UNCHANGED <<resources, names, blocks, blockedLocs>>

-----------------------------------------------------------------------------
(* respond_to_search_query.  search_top_k reads the embeddings, the block  *)
(* list and the rows; to_publishable_resources reads the block list again. *)
(* Query filters and the top-k cut only remove hits and are left out, and  *)
(* the rows, which are read one by one, are read in one step.              *)

Respond(w) ==
    /\ "respond" \in Ops
    /\ At(w, "idle")
    /\ embedded # {}
    /\ Become(w, [Idle EXCEPT !.at = "filter", !.hits = embedded])
    /\ UNCHANGED tables

FilterHits(w) ==
    /\ At(w, "filter")
    /\ Become(w, [proc[w] EXCEPT !.at = "rows", !.hits = @ \ BlockedResources])
    /\ UNCHANGED tables

ReadRows(w) ==
    /\ At(w, "rows")
    /\ Become(w, [proc[w] EXCEPT !.at = "gate", !.hits = @ \cap Held])
    /\ UNCHANGED tables

Gate(w) ==
    /\ At(w, "gate")
    /\ LET kept == proc[w].hits \ BlockedResources
       IN  IF kept = {} THEN Return(w)
           ELSE Become(w, [proc[w] EXCEPT !.at = "send", !.hits = kept])
    /\ UNCHANGED tables

Send(w) ==
    /\ At(w, "send")
    /\ Return(w)
    /\ UNCHANGED tables

-----------------------------------------------------------------------------
(* purge.  One resource, or everything, is a transaction; --duplicates     *)
(* reads the rows of a location and deletes all but the newest, one        *)
(* statement each.  None of them touches the block tables.                 *)

PurgeResource(w, i) ==
    /\ "purge" \in Ops
    /\ At(w, "idle")
    /\ DeleteResources({i})
    /\ UNCHANGED <<names, blocks, blockedLocs, proc>>

PurgeAll(w) ==
    /\ "purge_all" \in Ops
    /\ At(w, "idle")
    /\ DeleteResources(Ids)
    /\ DeleteNames(Records)
    /\ UNCHANGED <<blocks, blockedLocs, proc>>

\* Every record of one name goes.
PurgeName(w, R) ==
    /\ "name" \in Ops
    /\ At(w, "idle")
    /\ DeleteNames(R)
    /\ UNCHANGED <<resources, embedded, blocks, blockedLocs, proc>>

PurgeDuplicates(w, l) ==
    /\ "purge_duplicates" \in Ops
    /\ At(w, "idle")
    /\ \E newest \in RowsAt(l) :
          /\ RowsAt(l) # {newest}
          /\ Become(w, [Idle EXCEPT !.at = "dedupe", !.hits = RowsAt(l) \ {newest}])
    /\ UNCHANGED tables

DeleteDuplicate(w) ==
    /\ At(w, "dedupe")
    /\ \E i \in proc[w].hits :
          /\ DeleteResources({i})
          /\ IF proc[w].hits = {i} THEN Return(w)
             ELSE Become(w, [proc[w] EXCEPT !.hits = @ \ {i}])
    /\ UNCHANGED <<names, blocks, blockedLocs>>

\* av name: a fresh record id, with both spellings of its target.
SaveName(w, r, l) ==
    /\ "name" \in Ops
    /\ At(w, "idle")
    /\ names[r] = {}
    /\ names' = [names EXCEPT ![r] = {l, Canon[l]}]
    /\ UNCHANGED <<resources, embedded, blocks, blockedLocs, proc>>

Work(w) ==
    \/ \E i \in Ids, l \in Locs, force \in BOOLEAN : Index(w, i, l, force)
    \/ NotHeldByLocation(w) \/ HeldByLocation(w) \/ ForceDelete(w) \/ CheckHash(w)
    \/ StoreIndexed(w) \/ EmbedIndexed(w) \/ Announce(w)
    \/ CheckRecorded(w) \/ CheckJoined(w)
    \/ \E l \in Locs : Fetch(w, l)
    \/ ServeFetched(w)
    \/ \E i \in Ids, l \in Locs : Propagate(w, i, l)
    \/ StorePropagated(w) \/ EmbedPropagated(w)
    \/ Respond(w) \/ FilterHits(w) \/ ReadRows(w) \/ Gate(w) \/ Send(w)
    \/ \E i \in Ids : PurgeResource(w, i)
    \/ PurgeAll(w)
    \/ \E l \in Locs : PurgeDuplicates(w, l)
    \/ DeleteDuplicate(w)
    \/ \E R \in SUBSET Records : PurgeName(w, R)
    \/ \E r \in Records, l \in Locs : SaveName(w, r, l)

\* The process dies, or the next statement returns an error.
Fail(p) ==
    /\ p \in MayFail
    /\ ~At(p, "idle")
    /\ Return(p)
    /\ UNCHANGED tables

Next ==
    \/ \E m \in Moderators : Moderate(m)
    \/ \E w \in Workers : Work(w)
    \/ \E p \in Procs : Fail(p)

Spec == Init /\ [][Next]_vars

-----------------------------------------------------------------------------
\* The steps that use the `id` field, and those that use `loc`.
IdSteps == {"read_spellings", "record", "remove", "by_location", "force_delete",
            "by_hash", "index_store", "index_embed", "announce", "propagate_store",
            "propagate_embed"}

LocSteps == {"by_location", "force_delete", "by_hash", "index_store", "index_embed",
             "announce", "recorded", "joined", "propagate_store", "propagate_embed",
             "admit"}

WellFormed(state) ==
    /\ state \in ProcState
    /\ state.at \in IdSteps => state.id \in Ids
    /\ state.at \in LocSteps => state.loc \in Locs
    /\ state.at \in {"recorded", "joined"} => state.todo # << >>

\* Types, the foreign key of `embeddings`, and the fields each step relies on.
TypeOK ==
    /\ TablesOK
    /\ embedded \subseteq Held
    /\ proc \in [Procs -> ProcState]
    /\ \A p \in Procs : WellFormed(proc[p])

(***************************************************************************)
(* A refusal never outlives its block: every recorded location belongs to  *)
(* a resource that is still blocked, so once unblock_subject returns no    *)
(* fetch guard refuses on account of the lifted block (block.rs: "Leaving  *)
(* them behind would refuse fetches for a block the user has explicitly    *)
(* lifted").  It needs the order of both operations: the block row before  *)
(* the spellings, the spellings gone before the block row.                 *)
(***************************************************************************)
NoOrphanRefusal == \A e \in blockedLocs : e[1] \in BlockedResources

(***************************************************************************)
(* A stored resource can be found: while nothing fails, a row without an   *)
(* embedding has a writer that is about to insert it.  INSERT OR REPLACE   *)
(* drops the embedding of the row it replaces, so a second writer of the   *)
(* same id must always re-embed.                                           *)
(***************************************************************************)
RowsAreSearchable ==
    MayFail = {} =>
        \A i \in Held \ embedded :
            \E w \in Workers :
                proc[w].at \in {"index_embed", "propagate_embed"} /\ proc[w].id = i
=============================================================================
