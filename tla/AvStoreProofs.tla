---------------------------- MODULE AvStoreProofs ----------------------------
(***************************************************************************)
(* Theorems about AvStore, and about AvRefusal, AvServing and AvNames,     *)
(* which extend it: for any number of resources, locations, names and      *)
(* processes.                                                              *)
(***************************************************************************)
EXTENDS AvRefusal, AvServing, AvNames, SequenceTheorems, TLAPS

\* A process that becomes a well-formed state leaves every process well formed.
LEMMA BecomeWellFormed ==
    ASSUME proc \in [Procs -> ProcState],
           \A q \in Procs : WellFormed(proc[q]),
           NEW p \in Procs, NEW state,
           WellFormed(state), Become(p, state)
    PROVE  /\ proc' \in [Procs -> ProcState]
           /\ \A q \in Procs : WellFormed(proc'[q])
BY DEF Become, WellFormed

\* The state between two operations is well formed.
LEMMA IdleWellFormed ==
    /\ WellFormed(Idle)
    /\ Idle \in ProcState
    /\ Idle.at = "idle" /\ Idle.id = None /\ Idle.loc = None
    /\ Idle.todo = << >> /\ Idle.hits = {} /\ Idle.flag = FALSE
BY DEF WellFormed, Idle, ProcState, Steps, IdSteps, LocSteps

\* Spellings is a sequence of locations, and empty only for an absent row.
LEMMA SpellingsType ==
    ASSUME NEW row \in Row \cup {None}
    PROVE  /\ Spellings(row) \in Seq(Locs)
           /\ row # None => Spellings(row) # << >>
BY NoneIsNoRow, NoneAssumption DEF Spellings, Row

-----------------------------------------------------------------------------
(* Type correctness.  TablesTyped is its half about the database.          *)

TablesTyped == TablesOK /\ embedded \subseteq Held

\* Leaving the tables alone keeps them typed.
LEMMA TablesUnchanged ==
    ASSUME TablesTyped, UNCHANGED tables
    PROVE  TablesTyped'
BY DEF TablesTyped, TablesOK, Held, tables

\* Every write to the block tables keeps the database typed.
LEMMA BlockWritesTyped ==
    ASSUME TablesTyped, UNCHANGED <<resources, embedded, names>>,
           \/ UNCHANGED blockedLocs /\ \E k \in Kinds, s \in Ids \cup Records \cup Agents :
                 /\ k = "resource" => s \in Ids
                 /\ AddBlock(k, s) \/ RemoveBlock(k, s)
           \/ UNCHANGED blockedLocs /\ \E ks \in SUBSET Kinds : ClearBlocks(ks)
           \/ UNCHANGED blocks /\ \E i \in Ids, l \in Locs : RecordLocation(i, l)
           \/ UNCHANGED blocks /\ \E i \in Ids : ForgetLocations(i)
           \/ UNCHANGED blocks /\ blockedLocs' = {}
    PROVE  TablesTyped'
<1>1. Held' = Held
  BY DEF Held
<1>2. /\ blocks' \in [Kinds -> SUBSET (Ids \cup Records \cup Agents)]
      /\ blocks'["resource"] \subseteq Ids
  BY DEF TablesTyped, TablesOK, AddBlock, RemoveBlock, ClearBlocks, Kinds
<1>3. blockedLocs' \subseteq Ids \X Locs
  BY DEF TablesTyped, TablesOK, RecordLocation, ForgetLocations
<1> QED
  BY <1>1, <1>2, <1>3 DEF TablesTyped, TablesOK

\* So does every write to the resource tables: a row replaced or deleted
\* takes its embedding along, and only a held row is embedded.
LEMMA ResourceWritesTyped ==
    ASSUME TablesTyped, UNCHANGED <<blocks, blockedLocs>>,
           names' \in [Records -> SUBSET Locs],
           \/ \E i \in Ids, row \in Row : InsertResource(i, row)
           \/ \E S \in SUBSET Ids : DeleteResources(S)
           \/ UNCHANGED resources /\ \E i \in Held : InsertEmbedding(i)
           \/ UNCHANGED <<resources, embedded>>
    PROVE  TablesTyped'
<1>1. CASE \E i \in Ids, row \in Row : InsertResource(i, row)
  BY <1>1, NoneIsNoRow DEF TablesTyped, TablesOK, Held, InsertResource
<1>2. CASE \E S \in SUBSET Ids : DeleteResources(S)
  BY <1>2 DEF TablesTyped, TablesOK, Held, DeleteResources
<1>3. CASE UNCHANGED resources /\ \E i \in Held : InsertEmbedding(i)
  BY <1>3 DEF TablesTyped, TablesOK, Held, InsertEmbedding
<1>4. CASE UNCHANGED <<resources, embedded>>
  BY <1>4 DEF TablesTyped, TablesOK, Held
<1> QED
  BY <1>1, <1>2, <1>3, <1>4

\* Every statement of a block or an unblock keeps the types.
LEMMA ModerateTyped ==
    ASSUME TypeOK, NEW m \in Moderators, Moderate(m)
    PROVE  TypeOK'
<1> USE DEF TypeOK, TablesTyped
<1>m. m \in Procs
  BY DEF Procs
<1>w. WellFormed(proc[m]) /\ proc[m] \in ProcState
  BY <1>m
<1>i. WellFormed(Idle) /\ proc' = [proc EXCEPT ![m] = Idle]
          => /\ proc' \in [Procs -> ProcState]
             /\ \A q \in Procs : WellFormed(proc'[q])
  BY <1>m, BecomeWellFormed DEF Become
<1>1. ASSUME NEW i \in Ids, NEW keep \in BOOLEAN, Block(m, i, keep)
      PROVE  TypeOK'
  <2>1. WellFormed([Idle EXCEPT !.at = "read_spellings", !.id = i, !.flag = keep])
    BY IdleWellFormed DEF WellFormed, ProcState, Steps, IdSteps, LocSteps
  <2>2. TablesTyped'
    BY <1>1, BlockWritesTyped DEF Block, Kinds
  <2> QED
    BY <1>1, <1>m, <2>1, <2>2, BecomeWellFormed DEF Block
<1>2. CASE ReadSpellings(m)
  <2>1. WellFormed([proc[m] EXCEPT !.at = "record",
                                   !.todo = Spellings(resources[proc[m].id])])
    BY <1>2, <1>w, SpellingsType
    DEF ReadSpellings, At, TablesOK, WellFormed, ProcState, Steps, IdSteps, LocSteps
  <2>2. TablesTyped'
    BY <1>2, TablesUnchanged DEF ReadSpellings
  <2> QED
    BY <1>2, <1>m, <2>1, <2>2, BecomeWellFormed DEF ReadSpellings
<1>3. CASE RecordSpelling(m)
  <2>1. /\ proc[m].id \in Ids
        /\ Head(proc[m].todo) \in Locs
        /\ Tail(proc[m].todo) \in Seq(Locs)
    BY <1>3, <1>w DEF RecordSpelling, At, WellFormed, ProcState, IdSteps
  <2>2. WellFormed([proc[m] EXCEPT !.todo = Tail(@)])
    BY <1>3, <1>w, <2>1 DEF RecordSpelling, At, WellFormed, ProcState, IdSteps, LocSteps
  <2>3. TablesTyped'
    BY <1>3, <2>1, BlockWritesTyped DEF RecordSpelling
  <2> QED
    BY <1>3, <1>m, <2>2, <2>3, BecomeWellFormed DEF RecordSpelling
<1>4. CASE DropLocalCopy(m)
  <2>1. names' \in [Records -> SUBSET Locs]
    BY <1>4 DEF DropLocalCopy, DeleteResourceAndNames, DeleteNames, TablesOK
  <2>2. proc[m].id \in Ids
    BY <1>4, <1>w DEF DropLocalCopy, At, WellFormed, IdSteps
  <2>3. TablesTyped'
    BY <1>4, <2>1, <2>2, ResourceWritesTyped DEF DropLocalCopy, DeleteResourceAndNames
  <2> QED
    BY <1>4, <1>i, <2>3, IdleWellFormed DEF DropLocalCopy, Return, Become
<1>5. CASE KeepLocalCopy(m)
  BY <1>5, <1>i, IdleWellFormed, TablesUnchanged DEF KeepLocalCopy, Return, Become
<1>6. ASSUME NEW i \in Ids, Unblock(m, i)
      PROVE  TypeOK'
  <2>1. WellFormed([Idle EXCEPT !.at = "remove", !.id = i])
    BY IdleWellFormed DEF WellFormed, ProcState, Steps, IdSteps, LocSteps
  <2>2. TablesTyped'
    BY <1>6, BlockWritesTyped DEF Unblock
  <2> QED
    BY <1>6, <1>m, <2>1, <2>2, BecomeWellFormed DEF Unblock
<1>7. CASE Remove(m)
  <2>1. proc[m].id \in Ids
    BY <1>7, <1>w DEF Remove, At, WellFormed, IdSteps
  <2>2. TablesTyped'
    BY <1>7, <2>1, BlockWritesTyped DEF Remove, Kinds
  <2> QED
    BY <1>7, <1>i, <2>2, IdleWellFormed DEF Remove, Return, Become
<1>8. CASE ClearResources(m)
  <2>1. WellFormed([Idle EXCEPT !.at = "forget_each", !.hits = IdsWithRecordedLocations])
    BY IdleWellFormed
    DEF WellFormed, ProcState, Steps, IdSteps, LocSteps, IdsWithRecordedLocations
  <2>2. TablesTyped'
    BY <1>8, TablesUnchanged DEF ClearResources
  <2> QED
    BY <1>8, <1>m, <2>1, <2>2, BecomeWellFormed DEF ClearResources
<1>9. CASE ForgetEach(m)
  <2> PICK i \in proc[m].hits :
          /\ ForgetLocations(i)
          /\ Become(m, [proc[m] EXCEPT !.hits = @ \ {i}])
    BY <1>9 DEF ForgetEach
  <2>1. /\ i \in Ids
        /\ WellFormed([proc[m] EXCEPT !.hits = @ \ {i}])
    BY <1>9, <1>w DEF ForgetEach, At, WellFormed, ProcState, IdSteps, LocSteps
  <2>2. TablesTyped'
    BY <1>9, <2>1, BlockWritesTyped DEF ForgetEach
  <2> QED
    BY <1>m, <2>1, <2>2, BecomeWellFormed
<1>10. CASE ClearResourceBlocks(m)
  <2>1. TablesTyped'
    BY <1>10, BlockWritesTyped DEF ClearResourceBlocks, Kinds
  <2> QED
    BY <1>10, <1>i, <2>1, IdleWellFormed DEF ClearResourceBlocks, Return, Become
<1>11. CASE ForgetAll(m)
  <2>1. WellFormed([Idle EXCEPT !.at = "clear_all"])
    BY IdleWellFormed DEF WellFormed, ProcState, Steps, IdSteps, LocSteps
  <2>2. TablesTyped'
    BY <1>11, BlockWritesTyped DEF ForgetAll
  <2> QED
    BY <1>11, <1>m, <2>1, <2>2, BecomeWellFormed DEF ForgetAll
<1>12. CASE ClearAllBlocks(m)
  <2>1. TablesTyped'
    BY <1>12, BlockWritesTyped DEF ClearAllBlocks
  <2> QED
    BY <1>12, <1>i, <2>1, IdleWellFormed DEF ClearAllBlocks, Return, Become
<1>13. ASSUME NEW k \in Kinds \ {"resource"}, ClearOther(m, k)
       PROVE  TypeOK'
  <2>1. TablesTyped'
    BY <1>13, BlockWritesTyped DEF ClearOther
  <2> QED
    BY <1>13, <2>1 DEF ClearOther
<1>14. ASSUME NEW k \in Kinds \ {"resource"}, NEW s \in SubjectsOf[k],
              BlockOther(m, k, s) \/ UnblockOther(m, k, s)
       PROVE  TypeOK'
  <2>1. s \in Ids \cup Records \cup Agents
    BY DEF SubjectsOf, Kinds
  <2>2. TablesTyped'
    BY <1>14, <2>1, BlockWritesTyped DEF BlockOther, UnblockOther
  <2> QED
    BY <1>14, <2>2 DEF BlockOther, UnblockOther
<1> QED
  BY <1>1, <1>2, <1>3, <1>4, <1>5, <1>6, <1>7, <1>8, <1>9, <1>10, <1>11, <1>12,
     <1>13, <1>14 DEF Moderate

\* Every statement of the other operations keeps the types.
LEMMA WorkTyped ==
    ASSUME TypeOK, NEW w \in Workers, Work(w)
    PROVE  TypeOK'
<1> USE DEF TypeOK, TablesTyped
<1>w. w \in Procs /\ WellFormed(proc[w]) /\ proc[w] \in ProcState
  BY DEF Procs
<1>i. WellFormed(Idle) /\ proc' = [proc EXCEPT ![w] = Idle]
          => /\ proc' \in [Procs -> ProcState]
             /\ \A q \in Procs : WellFormed(proc'[q])
  BY <1>w, BecomeWellFormed DEF Become
<1>1. ASSUME NEW i \in Ids, NEW l \in Locs, NEW force \in BOOLEAN, Index(w, i, l, force)
      PROVE  TypeOK'
  <2>1. WellFormed([Idle EXCEPT !.at = "by_location", !.id = i, !.loc = l, !.flag = force])
    BY IdleWellFormed DEF WellFormed, ProcState, Steps, IdSteps, LocSteps
  <2> QED
    BY <1>1, <1>w, <2>1, TablesUnchanged, BecomeWellFormed DEF Index
<1>2. CASE NotHeldByLocation(w)
  <2>1. WellFormed([proc[w] EXCEPT !.at = "by_hash"])
    BY <1>2, <1>w
    DEF NotHeldByLocation, At, WellFormed, ProcState, Steps, IdSteps, LocSteps
  <2> QED
    BY <1>2, <1>w, <2>1, TablesUnchanged, BecomeWellFormed DEF NotHeldByLocation, Goto
<1>3. CASE HeldByLocation(w)
  <2>1. PICK newest \in RowsAt(proc[w].loc) :
            IF proc[w].flag
            THEN Become(w, [proc[w] EXCEPT !.at = "force_delete", !.hits = {newest}])
            ELSE Return(w)
    BY <1>3 DEF HeldByLocation
  <2>2. WellFormed([proc[w] EXCEPT !.at = "force_delete", !.hits = {newest}])
    BY <1>3, <1>w
    DEF HeldByLocation, RowsAt, Held, At, WellFormed, ProcState, Steps, IdSteps, LocSteps
  <2>3. TablesTyped'
    BY <1>3, TablesUnchanged DEF HeldByLocation
  <2>4. CASE proc[w].flag
    BY <1>w, <2>1, <2>2, <2>3, <2>4, BecomeWellFormed
  <2>5. CASE ~proc[w].flag
    BY <1>i, <2>1, <2>3, <2>5, IdleWellFormed DEF Return, Become
  <2> QED
    BY <2>4, <2>5
<1>4. CASE ForceDelete(w)
  <2>1. WellFormed([proc[w] EXCEPT !.at = "by_hash", !.hits = {}])
    BY <1>4, <1>w DEF ForceDelete, At, WellFormed, ProcState, Steps, IdSteps, LocSteps
  <2>2. proc[w].hits \in SUBSET Ids
    BY <1>w DEF ProcState
  <2>3. TablesTyped'
    BY <1>4, <2>2, ResourceWritesTyped DEF ForceDelete, TablesOK
  <2> QED
    BY <1>4, <1>w, <2>1, <2>3, BecomeWellFormed DEF ForceDelete
<1>5. CASE CheckHash(w)
  <2>1. WellFormed([proc[w] EXCEPT !.at = "index_store"])
    BY <1>5, <1>w DEF CheckHash, At, WellFormed, ProcState, Steps, IdSteps, LocSteps
  <2>2. TablesTyped'
    BY <1>5, TablesUnchanged DEF CheckHash
  <2>3. CASE Return(w)
    BY <1>i, <2>2, <2>3, IdleWellFormed DEF Return, Become
  <2>4. CASE Goto(w, "index_store")
    BY <1>w, <2>1, <2>2, <2>4, BecomeWellFormed DEF Goto
  <2> QED
    BY <1>5, <2>3, <2>4 DEF CheckHash
<1>6. CASE StoreIndexed(w)
  <2>1. WellFormed([proc[w] EXCEPT !.at = "index_embed"])
    BY <1>6, <1>w DEF StoreIndexed, At, WellFormed, ProcState, Steps, IdSteps, LocSteps
  <2>2. proc[w].id \in Ids /\ proc[w].loc \in Locs
    BY <1>6, <1>w DEF StoreIndexed, At, WellFormed, IdSteps, LocSteps
  <2>3. [location |-> proc[w].loc, canonical |-> Canon[proc[w].loc]] \in Row
    BY <2>2, CanonAssumption DEF Row
  <2>4. TablesTyped'
    BY <1>6, <2>2, <2>3, ResourceWritesTyped DEF StoreIndexed, TablesOK
  <2> QED
    BY <1>6, <1>w, <2>1, <2>4, BecomeWellFormed DEF StoreIndexed, Goto
<1>7. CASE EmbedIndexed(w)
  <2>1. WellFormed([proc[w] EXCEPT !.at = "announce"])
    BY <1>7, <1>w DEF EmbedIndexed, At, WellFormed, ProcState, Steps, IdSteps, LocSteps
  <2>2. proc[w].id \in Ids
    BY <1>7, <1>w DEF EmbedIndexed, At, WellFormed, IdSteps
  <2>3. TablesTyped'
    BY <1>7, <2>2, ResourceWritesTyped DEF EmbedIndexed, TablesOK, Held
  <2>4. CASE Return(w)
    BY <1>i, <2>3, <2>4, IdleWellFormed DEF Return, Become
  <2>5. CASE Goto(w, "announce")
    BY <1>w, <2>1, <2>3, <2>5, BecomeWellFormed DEF Goto
  <2> QED
    BY <1>7, <2>4, <2>5 DEF EmbedIndexed
<1>8. CASE Announce(w)
  BY <1>8, <1>i, IdleWellFormed, TablesUnchanged DEF Announce, Return, Become
<1>9. CASE CheckRecorded(w)
  <2>1. WellFormed([proc[w] EXCEPT !.at = "joined"])
    BY <1>9, <1>w DEF CheckRecorded, At, WellFormed, ProcState, Steps, IdSteps, LocSteps
  <2>2. TablesTyped'
    BY <1>9, TablesUnchanged DEF CheckRecorded
  <2>3. CASE Return(w)
    BY <1>i, <2>2, <2>3, IdleWellFormed DEF Return, Become
  <2>4. CASE Goto(w, "joined")
    BY <1>w, <2>1, <2>2, <2>4, BecomeWellFormed DEF Goto
  <2> QED
    BY <1>9, <2>3, <2>4 DEF CheckRecorded
<1>10. CASE CheckJoined(w)
  <2> DEFINE next == IF Tail(proc[w].todo) # << >> THEN "recorded"
                     ELSE IF proc[w].id = None THEN "admit" ELSE "propagate_store"
  <2>1. /\ Tail(proc[w].todo) \in Seq(Locs)
        /\ proc[w].loc \in Locs
        /\ proc[w].id \in Ids \cup {None}
    BY <1>10, <1>w DEF CheckJoined, At, WellFormed, ProcState, LocSteps
  <2>2. WellFormed([proc[w] EXCEPT !.todo = Tail(@), !.at = next])
    BY <1>w, <2>1 DEF WellFormed, ProcState, Steps, IdSteps, LocSteps
  <2>3. TablesTyped'
    BY <1>10, TablesUnchanged DEF CheckJoined
  <2>4. CASE Return(w)
    BY <1>i, <2>3, <2>4, IdleWellFormed DEF Return, Become
  <2>5. CASE Become(w, [proc[w] EXCEPT !.todo = Tail(@), !.at = next])
    BY <1>w, <2>2, <2>3, <2>5, BecomeWellFormed
  <2> QED
    BY <1>10, <2>4, <2>5 DEF CheckJoined
<1>11. ASSUME NEW l \in Locs, Fetch(w, l)
       PROVE  TypeOK'
  <2> DEFINE spellings == <<l>>
  <2>0. spellings \in Seq(Locs) /\ spellings # << >>
    OBVIOUS
  <2>1. WellFormed([Idle EXCEPT !.at = "recorded", !.loc = l, !.todo = spellings])
    <3> HIDE DEF spellings
    <3> QED
      BY <2>0, IdleWellFormed DEF WellFormed, ProcState, Steps, IdSteps, LocSteps
  <2> QED
    BY <1>11, <1>w, <2>1, TablesUnchanged, BecomeWellFormed DEF Fetch
<1>12. CASE ServeFetched(w)
  BY <1>12, <1>i, IdleWellFormed, TablesUnchanged DEF ServeFetched, Return, Become
<1>13. ASSUME NEW i \in Ids, NEW l \in Locs, Propagate(w, i, l)
       PROVE  TypeOK'
  <2> DEFINE spellings == Spellings([location |-> l, canonical |-> Canon[l]])
  <2>1. [location |-> l, canonical |-> Canon[l]] \in Row
    BY CanonAssumption DEF Row
  <2>2. spellings \in Seq(Locs) /\ spellings # << >>
    BY <2>1, SpellingsType, NoneIsNoRow
  <2>3. WellFormed([Idle EXCEPT !.at = "recorded", !.id = i, !.loc = l, !.todo = spellings])
    <3> HIDE DEF spellings
    <3> QED
      BY <2>2, IdleWellFormed DEF WellFormed, ProcState, Steps, IdSteps, LocSteps
  <2> QED
    BY <1>13, <1>w, <2>3, TablesUnchanged, BecomeWellFormed DEF Propagate
<1>14. CASE StorePropagated(w)
  <2>1. WellFormed([proc[w] EXCEPT !.at = "propagate_embed"])
    BY <1>14, <1>w DEF StorePropagated, At, WellFormed, ProcState, Steps, IdSteps, LocSteps
  <2>2. proc[w].id \in Ids /\ proc[w].loc \in Locs
    BY <1>14, <1>w DEF StorePropagated, At, WellFormed, IdSteps, LocSteps
  <2>3. TablesTyped'
    BY <1>14, <2>2, ResourceWritesTyped DEF StorePropagated, TablesOK, Row
  <2> QED
    BY <1>14, <1>w, <2>1, <2>3, BecomeWellFormed DEF StorePropagated, Goto
<1>15. CASE EmbedPropagated(w)
  <2>1. proc[w].id \in Ids
    BY <1>15, <1>w DEF EmbedPropagated, At, WellFormed, IdSteps
  <2>2. TablesTyped'
    BY <1>15, <2>1, ResourceWritesTyped DEF EmbedPropagated, TablesOK, Held
  <2> QED
    BY <1>15, <1>i, <2>2, IdleWellFormed DEF EmbedPropagated, Return, Become
<1>16. CASE Respond(w)
  <2>1. WellFormed([Idle EXCEPT !.at = "filter", !.hits = embedded])
    BY IdleWellFormed DEF WellFormed, ProcState, Steps, IdSteps, LocSteps, TablesOK
  <2> QED
    BY <1>16, <1>w, <2>1, TablesUnchanged, BecomeWellFormed DEF Respond
<1>17. CASE FilterHits(w)
  <2>1. WellFormed([proc[w] EXCEPT !.at = "rows", !.hits = @ \ BlockedResources])
    BY <1>w DEF WellFormed, ProcState, Steps, IdSteps, LocSteps
  <2> QED
    BY <1>17, <1>w, <2>1, TablesUnchanged, BecomeWellFormed DEF FilterHits
<1>18. CASE ReadRows(w)
  <2>1. WellFormed([proc[w] EXCEPT !.at = "gate", !.hits = @ \cap Held])
    BY <1>w DEF WellFormed, ProcState, Steps, IdSteps, LocSteps
  <2> QED
    BY <1>18, <1>w, <2>1, TablesUnchanged, BecomeWellFormed DEF ReadRows
<1>19. CASE Gate(w)
  <2> DEFINE kept == proc[w].hits \ BlockedResources
  <2>1. WellFormed([proc[w] EXCEPT !.at = "send", !.hits = kept])
    BY <1>w DEF WellFormed, ProcState, Steps, IdSteps, LocSteps
  <2>2. TablesTyped'
    BY <1>19, TablesUnchanged DEF Gate
  <2>3. CASE Return(w)
    BY <1>i, <2>2, <2>3, IdleWellFormed DEF Return, Become
  <2>4. CASE Become(w, [proc[w] EXCEPT !.at = "send", !.hits = kept])
    BY <1>w, <2>1, <2>2, <2>4, BecomeWellFormed
  <2> QED
    BY <1>19, <2>3, <2>4 DEF Gate
<1>20. CASE Send(w)
  BY <1>20, <1>i, IdleWellFormed, TablesUnchanged DEF Send, Return, Become
<1>21. ASSUME NEW i \in Ids, PurgeResource(w, i)
       PROVE  TypeOK'
  <2>1. TablesTyped'
    BY <1>21, ResourceWritesTyped DEF PurgeResource, TablesOK
  <2> QED
    BY <1>21, <2>1 DEF PurgeResource
<1>22. CASE PurgeAll(w)
  <2>1. TablesTyped'
    BY <1>22, ResourceWritesTyped DEF PurgeAll, DeleteNames, TablesOK
  <2> QED
    BY <1>22, <2>1 DEF PurgeAll
<1>23. ASSUME NEW l \in Locs, PurgeDuplicates(w, l)
       PROVE  TypeOK'
  <2>1. PICK newest \in RowsAt(l) :
            Become(w, [Idle EXCEPT !.at = "dedupe", !.hits = RowsAt(l) \ {newest}])
    BY <1>23 DEF PurgeDuplicates
  <2>2. WellFormed([Idle EXCEPT !.at = "dedupe", !.hits = RowsAt(l) \ {newest}])
    BY IdleWellFormed DEF RowsAt, Held, WellFormed, ProcState, Steps, IdSteps, LocSteps
  <2> QED
    BY <1>23, <1>w, <2>1, <2>2, TablesUnchanged, BecomeWellFormed DEF PurgeDuplicates
<1>24. CASE DeleteDuplicate(w)
  <2>1. PICK i \in proc[w].hits :
            /\ DeleteResources({i})
            /\ IF proc[w].hits = {i} THEN Return(w)
               ELSE Become(w, [proc[w] EXCEPT !.hits = @ \ {i}])
    BY <1>24 DEF DeleteDuplicate
  <2>2. /\ i \in Ids
        /\ WellFormed([proc[w] EXCEPT !.hits = @ \ {i}])
    BY <1>w DEF WellFormed, ProcState, IdSteps, LocSteps
  <2>3. TablesTyped'
    BY <1>24, <2>1, <2>2, ResourceWritesTyped DEF DeleteDuplicate, TablesOK
  <2>4. CASE Return(w)
    BY <1>i, <2>3, <2>4, IdleWellFormed DEF Return, Become
  <2>5. CASE Become(w, [proc[w] EXCEPT !.hits = @ \ {i}])
    BY <1>w, <2>2, <2>3, <2>5, BecomeWellFormed
  <2> QED
    BY <2>1, <2>4, <2>5
<1>25. ASSUME NEW R \in SUBSET Records, PurgeName(w, R)
       PROVE  TypeOK'
  <2>1. TablesTyped'
    BY <1>25, ResourceWritesTyped DEF PurgeName, DeleteNames, TablesOK
  <2> QED
    BY <1>25, <2>1 DEF PurgeName
<1>26. ASSUME NEW r \in Records, NEW l \in Locs, SaveName(w, r, l)
       PROVE  TypeOK'
  <2>1. TablesTyped'
    BY <1>26, CanonAssumption, ResourceWritesTyped DEF SaveName, TablesOK
  <2> QED
    BY <1>26, <2>1 DEF SaveName
<1> QED
  BY <1>1, <1>2, <1>3, <1>4, <1>5, <1>6, <1>7, <1>8, <1>9, <1>10, <1>11, <1>12,
     <1>13, <1>14, <1>15, <1>16, <1>17, <1>18, <1>19, <1>20, <1>21, <1>22, <1>23,
     <1>24, <1>25, <1>26 DEF Work

\* Where an operation stops, the tables stay as they are.
LEMMA FailTyped ==
    ASSUME TypeOK, NEW p \in Procs, Fail(p)
    PROVE  TypeOK'
<1>1. TablesTyped'
  BY TablesUnchanged DEF TypeOK, TablesTyped, Fail
<1> QED
  BY <1>1, IdleWellFormed, BecomeWellFormed DEF TypeOK, TablesTyped, Fail, Return

LEMMA InitTyped == Init => TypeOK
<1> SUFFICES ASSUME Init PROVE TypeOK
  OBVIOUS
<1>1. resources \in [Ids -> Row \cup {None}]
  BY DEF Init
<1>2. TablesOK
  BY <1>1 DEF Init, TablesOK, Held, Kinds
<1> QED
  BY <1>2, IdleWellFormed DEF Init, TypeOK

(***************************************************************************)
(* Type correctness: the tables keep their types, no embedding outlives    *)
(* its resource row, and every step of an operation finds the fields it    *)
(* uses, for any number of processes and any interleaving.                 *)
(***************************************************************************)
THEOREM TypeCorrect == Spec => []TypeOK
<1>1. TypeOK /\ [Next]_vars => TypeOK'
  <2> SUFFICES ASSUME TypeOK, [Next]_vars PROVE TypeOK'
    OBVIOUS
  <2>1. CASE UNCHANGED vars
    BY <2>1 DEF vars, tables, TypeOK, TablesOK, Held
  <2> QED
    BY <2>1, ModerateTyped, WorkTyped, FailTyped DEF Next
<1> QED
  BY <1>1, InitTyped, PTL DEF Spec

-----------------------------------------------------------------------------
(* No refusal outlives its block, when one process moderates.              *)

\* Where a process is not named by a step, its local state stays.
LEMMA WorkLeavesModeration ==
    ASSUME TypeOK, NEW w \in Workers, Work(w)
    PROVE  /\ UNCHANGED <<blocks, blockedLocs>>
           /\ \A m \in Moderators : proc'[m] = proc[m]
<1>1. UNCHANGED <<blocks, blockedLocs>>
  BY DEF Work, tables, Index, NotHeldByLocation, HeldByLocation, ForceDelete, CheckHash,
         StoreIndexed, EmbedIndexed, Announce, CheckRecorded, CheckJoined, Fetch,
         ServeFetched, Propagate, StorePropagated, EmbedPropagated, Respond, FilterHits,
         ReadRows, Gate, Send, PurgeResource, PurgeAll, PurgeDuplicates, DeleteDuplicate,
         PurgeName, SaveName
<1>2. proc' = proc \/ \E state : Become(w, state)
  BY DEF Work, Goto, Return, Index, NotHeldByLocation, HeldByLocation, ForceDelete,
         CheckHash, StoreIndexed, EmbedIndexed, Announce, CheckRecorded, CheckJoined,
         Fetch, ServeFetched, Propagate, StorePropagated, EmbedPropagated, Respond,
         FilterHits, ReadRows, Gate, Send, PurgeResource, PurgeAll, PurgeDuplicates,
         DeleteDuplicate, PurgeName, SaveName
<1>3. \A m \in Moderators : m # w /\ m \in Procs
  BY ProcsAssumption DEF Procs
<1> QED
  BY <1>1, <1>2, <1>3 DEF Become, TypeOK

(***************************************************************************)
(* What the one moderator knows between two of its statements: the block   *)
(* row is there while it records spellings, and no spelling is left where  *)
(* it is about to remove block rows.                                       *)
(***************************************************************************)
ModeratorKnows(m) ==
    /\ proc[m].at \in {"read_spellings", "record"} => proc[m].id \in BlockedResources
    /\ At(m, "remove") => proc[m].id \notin IdsWithRecordedLocations
    /\ At(m, "forget_each") => IdsWithRecordedLocations \subseteq proc[m].hits
    /\ At(m, "clear_all") => blockedLocs = {}

OrphanInv == NoOrphanRefusal /\ \A m \in Moderators : ModeratorKnows(m)

LEMMA ModerateKeepsOrphanInv ==
    ASSUME \A m, n \in Moderators : m = n,
           TypeOK, OrphanInv, NEW m \in Moderators, Moderate(m)
    PROVE  OrphanInv'
<1> USE DEF OrphanInv, NoOrphanRefusal, ModeratorKnows, BlockedResources, At
<1>m. m \in Procs /\ \A n \in Moderators : n = m
  BY DEF Procs
<1>t. /\ proc \in [Procs -> ProcState]
      /\ WellFormed(proc[m])
      /\ proc[m] \in ProcState
      /\ blockedLocs \subseteq Ids \X Locs
      /\ blocks \in [Kinds -> SUBSET (Ids \cup Records \cup Agents)]
      /\ blocks["resource"] \subseteq Ids
      /\ "resource" \in Kinds
  BY <1>m DEF TypeOK, TablesOK, Kinds
\* It suffices to look at the block tables and at what the moderator becomes.
<1>s. ASSUME NEW state, Become(m, state), NoOrphanRefusal',
             state.at \in {"read_spellings", "record"} => state.id \in BlockedResources',
             state.at = "remove" => state.id \notin IdsWithRecordedLocations',
             state.at = "forget_each" => IdsWithRecordedLocations' \subseteq state.hits,
             state.at = "clear_all" => blockedLocs' = {}
      PROVE  OrphanInv'
  <2>1. proc'[m] = state
    BY <1>s, <1>m, <1>t DEF Become
  <2> QED
    BY <1>s, <1>m, <2>1
<1>r. ASSUME Return(m), NoOrphanRefusal'
      PROVE  OrphanInv'
  BY <1>r, <1>s, IdleWellFormed DEF Return
<1>u. ASSUME proc' = proc, UNCHANGED blockedLocs, blocks'["resource"] = blocks["resource"]
      PROVE  OrphanInv'
  BY <1>u DEF IdsWithRecordedLocations
<1>1. ASSUME NEW i \in Ids, NEW keep \in BOOLEAN, Block(m, i, keep)
      PROVE  OrphanInv'
  <2> DEFINE state == [Idle EXCEPT !.at = "read_spellings", !.id = i, !.flag = keep]
  <2>1. state.at = "read_spellings" /\ state.id = i
    BY IdleWellFormed DEF ProcState
  <2>2. blocks'["resource"] = blocks["resource"] \cup {i} /\ UNCHANGED blockedLocs
    BY <1>1, <1>t DEF Block, AddBlock
  <2>3. Become(m, state)
    BY <1>1 DEF Block
  <2> HIDE DEF state
  <2> QED
    BY <1>s, <2>1, <2>2, <2>3
<1>2. CASE ReadSpellings(m)
  <2> DEFINE state == [proc[m] EXCEPT !.at = "record",
                                      !.todo = Spellings(resources[proc[m].id])]
  <2>1. state.at = "record" /\ state.id = proc[m].id
    BY <1>t DEF ProcState
  <2>2. UNCHANGED <<blocks, blockedLocs>> /\ Become(m, state) /\ At(m, "read_spellings")
    BY <1>2 DEF ReadSpellings, tables
  <2> HIDE DEF state
  <2> QED
    BY <1>s, <2>1, <2>2
<1>3. CASE RecordSpelling(m)
  <2> DEFINE state == [proc[m] EXCEPT !.todo = Tail(@)]
  <2>1. state.at = "record" /\ state.id = proc[m].id
    BY <1>3, <1>t DEF RecordSpelling, ProcState
  <2>2. /\ UNCHANGED blocks
        /\ Become(m, state)
        /\ At(m, "record")
        /\ \E l \in Locs : RecordLocation(proc[m].id, l)
    BY <1>3, <1>t DEF RecordSpelling, ProcState
  <2> HIDE DEF state
  <2> QED
    BY <1>s, <2>1, <2>2 DEF RecordLocation
<1>4. CASE DropLocalCopy(m)
  BY <1>4, <1>r DEF DropLocalCopy
<1>5. CASE KeepLocalCopy(m)
  BY <1>5, <1>r DEF KeepLocalCopy, tables
<1>6. ASSUME NEW i \in Ids, Unblock(m, i)
      PROVE  OrphanInv'
  <2> DEFINE state == [Idle EXCEPT !.at = "remove", !.id = i]
  <2>1. state.at = "remove" /\ state.id = i
    BY IdleWellFormed DEF ProcState
  <2>2. UNCHANGED blocks /\ ForgetLocations(i) /\ Become(m, state)
    BY <1>6 DEF Unblock
  <2> HIDE DEF state
  <2>3. i \notin IdsWithRecordedLocations'
    BY <2>2 DEF ForgetLocations, IdsWithRecordedLocations
  <2>4. NoOrphanRefusal'
    BY <2>2 DEF ForgetLocations
  <2> QED
    BY <1>s, <2>1, <2>2, <2>3, <2>4
<1>7. CASE Remove(m)
  <2>1. /\ UNCHANGED blockedLocs
        /\ blocks'["resource"] = blocks["resource"] \ {proc[m].id}
        /\ Return(m)
        /\ proc[m].id \notin IdsWithRecordedLocations
    BY <1>7, <1>t DEF Remove, RemoveBlock
  <2>2. NoOrphanRefusal'
    BY <1>t, <2>1 DEF IdsWithRecordedLocations
  <2> QED
    BY <1>r, <2>1, <2>2
<1>8. CASE ClearResources(m)
  <2> DEFINE state == [Idle EXCEPT !.at = "forget_each", !.hits = IdsWithRecordedLocations]
  <2>1. state.at = "forget_each" /\ state.hits = IdsWithRecordedLocations
    BY IdleWellFormed DEF ProcState
  <2>2. UNCHANGED <<blocks, blockedLocs>> /\ Become(m, state)
    BY <1>8 DEF ClearResources, tables
  <2> HIDE DEF state
  <2>3. IdsWithRecordedLocations' = IdsWithRecordedLocations
    BY <2>2 DEF IdsWithRecordedLocations
  <2> QED
    BY <1>s, <2>1, <2>2, <2>3
<1>9. CASE ForgetEach(m)
  <2>1. PICK i \in proc[m].hits :
            /\ ForgetLocations(i)
            /\ Become(m, [proc[m] EXCEPT !.hits = @ \ {i}])
    BY <1>9 DEF ForgetEach
  <2> DEFINE state == [proc[m] EXCEPT !.hits = @ \ {i}]
  <2>2. state.at = "forget_each" /\ state.hits = proc[m].hits \ {i}
    BY <1>9, <1>t DEF ForgetEach, ProcState
  <2>3. UNCHANGED blocks /\ At(m, "forget_each") /\ Become(m, state)
    BY <1>9, <2>1 DEF ForgetEach
  <2> HIDE DEF state
  <2>4. IdsWithRecordedLocations' \subseteq state.hits
    BY <2>1, <2>2, <2>3 DEF ForgetLocations, IdsWithRecordedLocations
  <2>5. NoOrphanRefusal'
    BY <2>1, <2>3 DEF ForgetLocations
  <2> QED
    BY <1>s, <2>2, <2>3, <2>4, <2>5
<1>10. CASE ClearResourceBlocks(m)
  <2>1. UNCHANGED blockedLocs /\ Return(m) /\ IdsWithRecordedLocations = {}
    BY <1>10 DEF ClearResourceBlocks
  <2>2. blockedLocs' = {}
    BY <1>t, <2>1 DEF IdsWithRecordedLocations
  <2> QED
    BY <1>r, <2>1, <2>2
<1>11. CASE ForgetAll(m)
  <2> DEFINE state == [Idle EXCEPT !.at = "clear_all"]
  <2>1. state.at = "clear_all"
    BY IdleWellFormed DEF ProcState
  <2>2. UNCHANGED blocks /\ blockedLocs' = {} /\ Become(m, state)
    BY <1>11 DEF ForgetAll
  <2> HIDE DEF state
  <2> QED
    BY <1>s, <2>1, <2>2
<1>12. CASE ClearAllBlocks(m)
  BY <1>12, <1>r DEF ClearAllBlocks
<1>13. ASSUME NEW k \in Kinds \ {"resource"}, ClearOther(m, k)
       PROVE  OrphanInv'
  BY <1>13, <1>u, <1>t DEF ClearOther, ClearBlocks
<1>14. ASSUME NEW k \in Kinds \ {"resource"}, NEW s \in SubjectsOf[k],
              BlockOther(m, k, s) \/ UnblockOther(m, k, s)
       PROVE  OrphanInv'
  BY <1>14, <1>u, <1>t DEF BlockOther, UnblockOther, AddBlock, RemoveBlock
<1> QED
  BY <1>1, <1>2, <1>3, <1>4, <1>5, <1>6, <1>7, <1>8, <1>9, <1>10, <1>11, <1>12,
     <1>13, <1>14 DEF Moderate

LEMMA OthersKeepOrphanInv ==
    ASSUME TypeOK, OrphanInv,
           \/ UNCHANGED vars
           \/ \E w \in Workers : Work(w)
           \/ \E p \in Procs : Fail(p)
    PROVE  OrphanInv'
<1> USE DEF OrphanInv, NoOrphanRefusal, ModeratorKnows, BlockedResources,
            IdsWithRecordedLocations, At
<1>1. CASE UNCHANGED vars
  BY <1>1 DEF vars, tables
<1>2. CASE \E w \in Workers : Work(w)
  BY <1>2, WorkLeavesModeration
<1>3. ASSUME NEW p \in Procs, Fail(p)
      PROVE  OrphanInv'
  <2>1. UNCHANGED <<blocks, blockedLocs>>
    BY <1>3 DEF Fail, tables
  <2>2. \A m \in Moderators : proc'[m] = proc[m] \/ proc'[m].at = "idle"
    BY <1>3, IdleWellFormed DEF Fail, Return, Become, TypeOK, Procs
  <2> QED
    BY <2>1, <2>2
<1> QED
  BY <1>1, <1>2, <1>3

(***************************************************************************)
(* One process moderating, whatever the others do and wherever an          *)
(* operation stops: every recorded location belongs to a resource that is  *)
(* still blocked, so an unblock that returns leaves no fetch refused.      *)
(***************************************************************************)
THEOREM NoRefusalOutlivesItsBlock ==
    ASSUME \A m, n \in Moderators : m = n
    PROVE  Spec => []NoOrphanRefusal
<1>1. Init => OrphanInv
  BY IdleWellFormed
  DEF Init, OrphanInv, NoOrphanRefusal, ModeratorKnows, At, Procs
<1>2. TypeOK /\ OrphanInv /\ [Next]_vars => OrphanInv'
  BY ModerateKeepsOrphanInv, OthersKeepOrphanInv DEF Next
<1>3. OrphanInv => NoOrphanRefusal
  BY DEF OrphanInv
<1> QED
  BY <1>1, <1>2, <1>3, TypeCorrect, PTL DEF Spec

-----------------------------------------------------------------------------
(* Every stored row can be found.                                          *)

Embedding == {"index_embed", "propagate_embed"}

Writing(w, i) == proc[w].at \in Embedding /\ proc[w].id = i

\* A worker either leaves rows and embeddings alone, or deletes rows with
\* theirs, or is at one of the four statements that write them.
LEMMA WorkOnRows ==
    ASSUME NEW w \in Workers, Work(w)
    PROVE  \/ /\ proc[w].at \notin Embedding
              /\ UNCHANGED <<resources, embedded>> \/ \E S : DeleteResources(S)
           \/ StoreIndexed(w) \/ StorePropagated(w)
           \/ EmbedIndexed(w) \/ EmbedPropagated(w)
BY DEF Work, tables, At, Embedding, Index, NotHeldByLocation, HeldByLocation, ForceDelete,
       CheckHash, Announce, CheckRecorded, CheckJoined, Fetch, ServeFetched, Propagate,
       Respond, FilterHits, ReadRows, Gate, Send, PurgeResource, PurgeAll,
       PurgeDuplicates, DeleteDuplicate, PurgeName, SaveName

\* It changes no other process.
LEMMA WorkIsLocal ==
    ASSUME TypeOK, NEW w \in Workers, Work(w)
    PROVE  \A p \in Procs \ {w} : proc'[p] = proc[p]
<1>1. proc' = proc \/ \E state : Become(w, state)
  BY DEF Work, Goto, Return, Index, NotHeldByLocation, HeldByLocation, ForceDelete,
         CheckHash, StoreIndexed, EmbedIndexed, Announce, CheckRecorded, CheckJoined,
         Fetch, ServeFetched, Propagate, StorePropagated, EmbedPropagated, Respond,
         FilterHits, ReadRows, Gate, Send, PurgeResource, PurgeAll, PurgeDuplicates,
         DeleteDuplicate, PurgeName, SaveName
<1> QED
  BY <1>1 DEF Become, TypeOK

\* A moderator writes no row; at most it deletes one.
LEMMA ModerateOnRows ==
    ASSUME TypeOK, NEW m \in Moderators, Moderate(m)
    PROVE  /\ UNCHANGED <<resources, embedded>> \/ \E S : DeleteResources(S)
           /\ \A w \in Workers : proc'[w] = proc[w]
<1>1. UNCHANGED <<resources, embedded>> \/ \E S : DeleteResources(S)
  BY DEF Moderate, tables, Block, ReadSpellings, RecordSpelling, DropLocalCopy,
         DeleteResourceAndNames, KeepLocalCopy, Unblock, Remove, ClearResources,
         ForgetEach, ClearResourceBlocks, ForgetAll, ClearAllBlocks, ClearOther,
         BlockOther, UnblockOther
<1>2. proc' = proc \/ \E state : Become(m, state)
  BY DEF Moderate, Return, Block, ReadSpellings, RecordSpelling, DropLocalCopy,
         KeepLocalCopy, Unblock, Remove, ClearResources, ForgetEach,
         ClearResourceBlocks, ForgetAll, ClearAllBlocks, ClearOther, BlockOther,
         UnblockOther
<1>3. \A w \in Workers : w # m /\ w \in Procs
  BY ProcsAssumption DEF Procs
<1> QED
  BY <1>1, <1>2, <1>3 DEF Become, TypeOK

LEMMA SearchableStep ==
    ASSUME MayFail = {}, TypeOK, RowsAreSearchable, [Next]_vars
    PROVE  RowsAreSearchable'
<1> DEFINE Bare == Held \ embedded
<1>1. \A i \in Bare : \E w \in Workers : Writing(w, i)
  BY DEF RowsAreSearchable, Writing, Embedding
<1>2. SUFFICES \A i \in Bare' : \E w \in Workers : Writing(w, i)'
  BY DEF RowsAreSearchable, Writing, Embedding
<1>3. ASSUME UNCHANGED <<resources, embedded>> \/ \E S : DeleteResources(S)
      PROVE  Bare' \subseteq Bare
  BY <1>3, NoneIsNoRow DEF Held, DeleteResources, TypeOK, TablesOK
<1>4. ASSUME NEW m \in Moderators, Moderate(m)
      PROVE  \A i \in Bare' : \E w \in Workers : Writing(w, i)'
  BY <1>1, <1>3, <1>4, ModerateOnRows DEF Writing
<1>5. ASSUME NEW w \in Workers, Work(w)
      PROVE  \A i \in Bare' : \E v \in Workers : Writing(v, i)'
  <2>1. \A v \in Workers \ {w} : \A i : Writing(v, i) => Writing(v, i)'
    BY <1>5, WorkIsLocal DEF Procs, Writing
  <2>w. w \in Procs /\ proc[w] \in ProcState /\ proc \in [Procs -> ProcState]
    BY DEF Procs, TypeOK
  <2>2. CASE /\ proc[w].at \notin Embedding
             /\ UNCHANGED <<resources, embedded>> \/ \E S : DeleteResources(S)
    BY <1>1, <1>3, <2>1, <2>2 DEF Writing
  \* The row that is stored has this worker as its writer.
  <2>3. CASE StoreIndexed(w) \/ StorePropagated(w)
    <3>1. Bare' \subseteq Bare \cup {proc[w].id}
      BY <2>3 DEF StoreIndexed, StorePropagated, InsertResource, Held, TypeOK, TablesOK
    <3>2. \A i : i = proc[w].id => Writing(w, i)'
      BY <2>3, <2>w
      DEF StoreIndexed, StorePropagated, Goto, Become, Writing, Embedding, ProcState
    <3>3. proc[w].at \notin Embedding
      BY <2>3 DEF StoreIndexed, StorePropagated, At, Embedding
    <3> QED
      BY <1>1, <2>1, <3>1, <3>2, <3>3 DEF Writing
  \* The one row a writer leaves is embedded, or gone.
  <2>4. CASE EmbedIndexed(w) \/ EmbedPropagated(w)
    <3>1. Bare' \subseteq Bare \ {proc[w].id}
      BY <2>4 DEF EmbedIndexed, EmbedPropagated, InsertEmbedding, Held, TypeOK, TablesOK
    <3> QED
      BY <1>1, <2>1, <3>1 DEF Writing
  <2> QED
    BY <1>5, <2>2, <2>3, <2>4, WorkOnRows
<1>6. CASE UNCHANGED vars
  BY <1>1, <1>6 DEF vars, tables, Held, Writing
<1> QED
  BY <1>4, <1>5, <1>6 DEF Next, Fail

(***************************************************************************)
(* While nothing fails, a row without an embedding has a writer about to   *)
(* insert it, however many workers and moderators replace and delete the   *)
(* same row.                                                               *)
(***************************************************************************)
THEOREM StoredRowsAreSearchable == Spec => []RowsAreSearchable
<1>1. Init => RowsAreSearchable
  BY DEF Init, RowsAreSearchable
<1>2. TypeOK /\ RowsAreSearchable /\ [Next]_vars => RowsAreSearchable'
  <2>1. CASE MayFail = {}
    BY <2>1, SearchableStep
  <2>2. CASE MayFail # {}
    BY <2>2 DEF RowsAreSearchable
  <2> QED
    BY <2>1, <2>2
<1> QED
  BY <1>1, <1>2, TypeCorrect, PTL DEF Spec

-----------------------------------------------------------------------------
(* A block holds (AvRefusal), where one process moderates and the others   *)
(* are Orderly: with a purge between the block row and the read of the     *)
(* spellings there is nothing left to record.                              *)

\* Every spelling of the row a block is about to drop is recorded, or about to
\* be.
StillToRecord(m) ==
    At(m, "record") =>
        \A l \in SpellingSet(resources[proc[m].id]) :
            \/ <<proc[m].id, l>> \in blockedLocs
            \/ \E k \in DOMAIN proc[m].todo : proc[m].todo[k] = l

(***************************************************************************)
(* RefusalHolds is not inductive: a spelling may be refused on account of  *)
(* its row alone, which the block then deletes.  What holds is that an     *)
(* owed spelling is still the row's, or has been recorded; nothing is owed *)
(* without a block, or once it is being lifted.                            *)
(***************************************************************************)
Traced(i, l) == l \in SpellingSet(resources[i]) \/ <<i, l>> \in blockedLocs

OwedIsKept ==
    \A i \in Ids : \A l \in owed[i] :
        i \in BlockedResources /\ ~Lifting(i) /\ Traced(i, l)

RefusalInv == OwedIsKept /\ \A m \in Moderators : StillToRecord(m)

\* Spellings lists what a row has.
LEMMA SpellingsAreAll ==
    ASSUME NEW row \in Row \cup {None}, NEW l \in SpellingSet(row)
    PROVE  \E k \in DOMAIN Spellings(row) : Spellings(row)[k] = l
BY NoneIsNoRow, NoneAssumption DEF Spellings, SpellingSet, Row

\* The first element of a sequence, or one of the others.
LEMMA HeadOrTail ==
    ASSUME NEW S, NEW seq \in Seq(S), seq # << >>, NEW k \in DOMAIN seq
    PROVE  seq[k] = Head(seq) \/ \E j \in DOMAIN Tail(seq) : Tail(seq)[j] = seq[k]
<1>1. k \in 1 .. Len(seq)
  OBVIOUS
<1>2. CASE k = 1
  BY <1>2
<1>3. CASE k > 1
  <2>1. k - 1 \in DOMAIN Tail(seq) /\ Tail(seq)[k - 1] = seq[k]
    BY <1>1, <1>3
  <2> QED
    BY <2>1
<1> QED
  BY <1>1, <1>2, <1>3

\* What an orderly worker takes has been recorded, and it puts nothing in the way
\* of a block that records.
LEMMA OrderlyWork ==
    ASSUME TypeOK, OrphanInv, RefusalInv, NEW w \in Workers, Work(w), Orderly
    PROVE  /\ \A m \in Moderators : StillToRecord(m)'
           /\ \A i \in BlockedResources : \A l : Traced(i, l) => Traced(i, l)'
<1>1. UNCHANGED blockedLocs /\ \A m \in Moderators : proc'[m] = proc[m]
  BY WorkLeavesModeration
<1>2. ASSUME NEW m \in Moderators, At(m, "record")
      PROVE  StillToRecord(m)'
  <2> DEFINE i == proc[m].id
  <2>1. i \in BlockedResources
    BY <1>2 DEF OrphanInv, ModeratorKnows, At
  <2>2. \A l \in SpellingSet(resources[i]) :
            \/ <<i, l>> \in blockedLocs
            \/ \E k \in DOMAIN proc[m].todo : proc[m].todo[k] = l
    BY <1>2 DEF RefusalInv, StillToRecord
  <2>3. resources'[i] = resources[i] \/ resources'[i] = None
    BY <1>1, <1>2, <2>1 DEF Orderly
  <2>4. SpellingSet(resources'[i]) \subseteq SpellingSet(resources[i])
    BY <2>3 DEF SpellingSet
  <2>5. \A l \in SpellingSet(resources'[i]) :
            \/ <<i, l>> \in blockedLocs'
            \/ \E k \in DOMAIN proc[m].todo : proc[m].todo[k] = l
    BY <1>1, <2>2, <2>4
  <2> QED
    BY <1>1, <2>5 DEF StillToRecord
<1>3. ASSUME NEW m \in Moderators, ~At(m, "record")
      PROVE  StillToRecord(m)'
  BY <1>1, <1>3 DEF StillToRecord, At
<1>4. ASSUME NEW i \in BlockedResources, NEW l, Traced(i, l)
      PROVE  Traced(i, l)'
  <2>1. CASE resources'[i] = resources[i]
    BY <1>1, <1>4, <2>1 DEF Traced
  <2>2. CASE resources'[i] # resources[i]
    BY <1>1, <1>4, <2>2 DEF Orderly, Traced
  <2> QED
    BY <2>1, <2>2
<1> QED
  BY <1>2, <1>3, <1>4

\* What a statement of the one moderator does to the rows, to what is recorded
\* and to what it still has to record.
LEMMA ModerateRecords ==
    ASSUME TypeOK, \A m, n \in Moderators : m = n,
           NEW m \in Moderators, StillToRecord(m), Moderate(m)
    PROVE  /\ StillToRecord(m)'
           /\ \A i \in Ids : \A l : Traced(i, l) => Traced(i, l)' \/ Lifting(i)'
<1>m. m \in Procs /\ proc[m] \in ProcState /\ proc \in [Procs -> ProcState]
      /\ WellFormed(proc[m])
  BY DEF Procs, TypeOK
<1>o. ASSUME NEW state, Become(m, state)
      PROVE  proc'[m] = state
  BY <1>o, <1>m DEF Become
<1> DEFINE Kept(i) == \A l : Traced(i, l) => Traced(i, l)' \/ Lifting(i)'
<1> SUFFICES StillToRecord(m)' /\ \A i \in Ids : Kept(i)
  OBVIOUS
<1> USE DEF Traced
<1>i. ASSUME Return(m)
      PROVE  StillToRecord(m)'
  BY <1>i, <1>o, IdleWellFormed DEF Return, StillToRecord, At
<1>u. ASSUME UNCHANGED <<resources, blockedLocs>>
      PROVE  \A i \in Ids : Kept(i)
  BY <1>u
<1>1. ASSUME NEW i \in Ids, NEW keep \in BOOLEAN, Block(m, i, keep)
      PROVE  StillToRecord(m)' /\ \A j \in Ids : Kept(j)
  <2> DEFINE state == [Idle EXCEPT !.at = "read_spellings", !.id = i, !.flag = keep]
  <2>1. state.at = "read_spellings" /\ Become(m, state)
    BY <1>1, IdleWellFormed DEF Block, ProcState
  <2> HIDE DEF state
  <2> QED
    BY <1>1, <1>o, <1>u, <2>1 DEF Block, StillToRecord, At
<1>2. CASE ReadSpellings(m)
  <2> DEFINE state == [proc[m] EXCEPT !.at = "record",
                                      !.todo = Spellings(resources[proc[m].id])]
  <2>1. /\ Become(m, state) /\ state.id = proc[m].id
        /\ state.todo = Spellings(resources[proc[m].id])
    BY <1>2, <1>m DEF ReadSpellings, ProcState
  <2>2. resources[proc[m].id] \in Row \cup {None}
    BY <1>2, <1>m DEF ReadSpellings, At, WellFormed, IdSteps, TypeOK, TablesOK
  <2>3. UNCHANGED <<resources, blockedLocs>>
    BY <1>2 DEF ReadSpellings, tables
  <2> HIDE DEF state
  <2>4. \A l \in SpellingSet(resources[proc[m].id]) : \E k \in DOMAIN state.todo : state.todo[k] = l
    BY <2>1, <2>2, SpellingsAreAll
  <2> QED
    BY <1>o, <1>u, <2>1, <2>3, <2>4 DEF StillToRecord
<1>3. CASE RecordSpelling(m)
  <2> DEFINE todo == proc[m].todo
             state == [proc[m] EXCEPT !.todo = Tail(@)]
  <2>1. /\ Become(m, state) /\ state.id = proc[m].id /\ state.todo = Tail(todo)
        /\ todo \in Seq(Locs) /\ todo # << >> /\ At(m, "record")
        /\ UNCHANGED resources
        /\ blockedLocs' = blockedLocs \cup {<<proc[m].id, Head(todo)>>}
    BY <1>3, <1>m DEF RecordSpelling, RecordLocation, ProcState
  <2> HIDE DEF state
  <2>2. \A k \in DOMAIN todo :
            todo[k] = Head(todo) \/ \E j \in DOMAIN Tail(todo) : Tail(todo)[j] = todo[k]
    BY <2>1, HeadOrTail
  <2>3. \A l \in SpellingSet(resources[proc[m].id]) :
            \/ <<proc[m].id, l>> \in blockedLocs
            \/ \E k \in DOMAIN todo : todo[k] = l
    BY <2>1 DEF StillToRecord
  <2>4. \A l \in SpellingSet(resources[proc[m].id]) :
            \/ <<proc[m].id, l>> \in blockedLocs'
            \/ \E j \in DOMAIN Tail(todo) : Tail(todo)[j] = l
    BY <2>1, <2>2, <2>3
  <2>5. proc'[m] = state
    BY <1>o, <2>1
  <2>6. StillToRecord(m)'
    BY <2>1, <2>4, <2>5 DEF StillToRecord
  <2> QED
    BY <2>1, <2>6
\* The row goes when all its spellings are recorded.
<1>4. CASE DropLocalCopy(m)
  <2>1. \A l \in SpellingSet(resources[proc[m].id]) : <<proc[m].id, l>> \in blockedLocs
    BY <1>4 DEF DropLocalCopy, StillToRecord
  <2>2. /\ UNCHANGED blockedLocs /\ Return(m)
        /\ \A i \in Ids : i # proc[m].id => resources'[i] = resources[i]
    BY <1>4 DEF DropLocalCopy, DeleteResourceAndNames, DeleteResources
  <2> QED
    BY <1>i, <2>1, <2>2
<1>5. CASE KeepLocalCopy(m)
  BY <1>5, <1>i, <1>u DEF KeepLocalCopy, tables
<1>6. ASSUME NEW i \in Ids, Unblock(m, i)
      PROVE  StillToRecord(m)' /\ \A j \in Ids : Kept(j)
  <2> DEFINE state == [Idle EXCEPT !.at = "remove", !.id = i]
  <2>1. state.at = "remove" /\ state.id = i /\ Become(m, state)
    BY <1>6, IdleWellFormed DEF Unblock, ProcState
  <2> HIDE DEF state
  <2>2. \A j \in Ids : j = i => Lifting(j)'
    BY <1>o, <2>1 DEF Lifting, At
  <2>3. /\ UNCHANGED resources
        /\ \A j \in Ids \ {i} : \A l : <<j, l>> \in blockedLocs => <<j, l>> \in blockedLocs'
    BY <1>6 DEF Unblock, ForgetLocations
  <2> QED
    BY <1>o, <2>1, <2>2, <2>3 DEF StillToRecord, At
<1>7. CASE Remove(m) \/ ClearResourceBlocks(m) \/ ClearAllBlocks(m)
  BY <1>7, <1>i, <1>u DEF Remove, ClearResourceBlocks, ClearAllBlocks
\* Every block is being lifted.
<1>l. ASSUME NEW state, Become(m, state), state.at \in {"forget_each", "clear_all"}
      PROVE  StillToRecord(m)' /\ \A i \in Ids : Kept(i)
  <2>1. \A i \in Ids : Lifting(i)'
    BY <1>o, <1>l DEF Lifting
  <2> QED
    BY <1>o, <1>l, <2>1 DEF StillToRecord, At
<1>8. CASE ClearResources(m)
  <2> DEFINE state == [Idle EXCEPT !.at = "forget_each", !.hits = IdsWithRecordedLocations]
  <2>1. state.at = "forget_each" /\ Become(m, state)
    BY <1>8, IdleWellFormed DEF ClearResources, ProcState
  <2> HIDE DEF state
  <2> QED
    BY <1>l, <2>1
<1>10. CASE ForgetEach(m)
  <2>1. PICK i \in proc[m].hits : Become(m, [proc[m] EXCEPT !.hits = @ \ {i}])
    BY <1>10 DEF ForgetEach
  <2> DEFINE state == [proc[m] EXCEPT !.hits = @ \ {i}]
  <2>2. state.at = "forget_each" /\ Become(m, state)
    BY <1>10, <1>m, <2>1 DEF ForgetEach, At, ProcState
  <2> HIDE DEF state
  <2> QED
    BY <1>l, <2>2
<1>11. CASE ForgetAll(m)
  <2> DEFINE state == [Idle EXCEPT !.at = "clear_all"]
  <2>1. state.at = "clear_all" /\ Become(m, state)
    BY <1>11, IdleWellFormed DEF ForgetAll, ProcState
  <2> HIDE DEF state
  <2> QED
    BY <1>l, <2>1
<1>9. ASSUME NEW k \in Kinds \ {"resource"},
             \/ ClearOther(m, k)
             \/ \E s \in SubjectsOf[k] : BlockOther(m, k, s) \/ UnblockOther(m, k, s)
      PROVE  StillToRecord(m)' /\ \A i \in Ids : Kept(i)
  <2>1. UNCHANGED <<resources, blockedLocs, proc>>
    BY <1>9 DEF ClearOther, BlockOther, UnblockOther
  <2> QED
    BY <1>u, <2>1 DEF StillToRecord, At
<1> QED
  BY <1>1, <1>2, <1>3, <1>4, <1>5, <1>6, <1>7, <1>8, <1>9, <1>10, <1>11 DEF Moderate

LEMMA RefusalStep ==
    ASSUME TypeOK, OrphanInv, RefusalInv, RefusalNext, Orderly,
           \A m, n \in Moderators : m = n
    PROVE  RefusalInv'
<1> DEFINE Kept(i) == \A l : Traced(i, l) => Traced(i, l)' \/ Lifting(i)'
<1>0. BlockedResources \subseteq Ids
  BY DEF TypeOK, TablesOK, BlockedResources, Kinds, SubjectsOf
<1>1. /\ \A i \in BlockedResources : Kept(i)
      /\ \A m \in Moderators : StillToRecord(m)'
  <2>1. ASSUME NEW m \in Moderators, Moderate(m)
        PROVE  /\ \A i \in BlockedResources : Kept(i)
               /\ \A n \in Moderators : StillToRecord(n)'
    <3>1. \A i \in BlockedResources : Kept(i)
      BY <1>0, <2>1, ModerateRecords DEF RefusalInv
    <3>2. \A n \in Moderators : StillToRecord(n)'
      BY <2>1, ModerateRecords DEF RefusalInv
    <3> QED
      BY <3>1, <3>2
  <2>2. ASSUME NEW w \in Workers, Work(w)
        PROVE  /\ \A i \in BlockedResources : Kept(i)
               /\ \A n \in Moderators : StillToRecord(n)'
    BY <2>2, OrderlyWork
  <2>3. ASSUME NEW p \in Procs, Fail(p)
        PROVE  /\ \A i \in BlockedResources : Kept(i)
               /\ \A n \in Moderators : StillToRecord(n)'
    <3>1. UNCHANGED tables /\ \A q \in Procs : proc'[q] = proc[q] \/ proc'[q].at = "idle"
      BY <2>3, IdleWellFormed DEF Fail, Return, Become, TypeOK
    <3>2. \A m \in Moderators : StillToRecord(m)'
      BY <3>1 DEF RefusalInv, StillToRecord, At, tables, Procs
    <3> QED
      BY <3>1, <3>2 DEF Traced, tables
  <2> QED
    BY <2>1, <2>2, <2>3 DEF RefusalNext, Next
<1>2. OwedIsKept'
  <2> SUFFICES ASSUME NEW i \in Ids, NEW l \in owed'[i]
               PROVE  i \in BlockedResources' /\ ~Lifting(i)' /\ Traced(i, l)'
    BY DEF OwedIsKept
  <2>1. /\ i \in BlockedResources' /\ ~Lifting(i)'
        /\ l \in owed[i] \/ l \in SpellingSet(resources'[i])
    BY DEF RefusalNext, KeepAccount
  <2>2. CASE l \in owed[i]
    <3>1. Traced(i, l) /\ i \in BlockedResources
      BY <2>2 DEF RefusalInv, OwedIsKept
    <3> QED
      BY <1>1, <2>1, <3>1
  <2> QED
    BY <2>1, <2>2 DEF Traced
<1> QED
  BY <1>1, <1>2 DEF RefusalInv

(***************************************************************************)
(* One process moderating, any others indexing, propagating and purging,   *)
(* so long as none of them takes a row from a block that has yet to record *)
(* it: however often blocks are imposed and lifted, and at whichever       *)
(* statement any of them dies, every spelling a blocked resource has been  *)
(* held under since its block is refused until an unblock begins, by the   *)
(* record alone when the row is purged.                                    *)
(***************************************************************************)
THEOREM BlocksHold ==
    ASSUME \A m, n \in Moderators : m = n
    PROVE  OrderlySpec => []RefusalHolds
<1>1. RefusalInit => Init /\ RefusalInv /\ OrphanInv
  <2>1. RefusalInit => Init /\ RefusalInv
    BY IdleWellFormed DEF RefusalInit, Init, RefusalInv, OwedIsKept, StillToRecord, At, Procs
  <2>2. Init => OrphanInv
    BY IdleWellFormed
    DEF Init, OrphanInv, NoOrphanRefusal, ModeratorKnows, At, Procs
  <2> QED
    BY <2>1, <2>2
<1>2. [RefusalNext /\ Orderly]_refusalVars => [Next]_vars
  BY DEF RefusalNext, refusalVars
<1>3. TypeOK /\ OrphanInv /\ RefusalInv /\ [RefusalNext /\ Orderly]_refusalVars
          => RefusalInv'
  <2>1. CASE UNCHANGED refusalVars
    BY <2>1
    DEF refusalVars, vars, tables, RefusalInv, OwedIsKept, StillToRecord, At,
        Lifting, BlockedResources, Traced
  <2> QED
    BY <2>1, RefusalStep
<1>4. TypeOK /\ RefusalInv => RefusalHolds
  <2> SUFFICES ASSUME TypeOK, RefusalInv, NEW i \in BlockedResources, NEW l \in owed[i]
               PROVE  Refused(l)
    BY DEF RefusalHolds
  <2>1. i \in Ids
    BY DEF TypeOK, TablesOK, BlockedResources, Kinds, SubjectsOf
  <2>2. Traced(i, l)
    BY <2>1 DEF RefusalInv, OwedIsKept
  <2> QED
    BY <2>1, <2>2 DEF Traced, Refused, IsRecorded, IsJoined, SpellingSet, RowsAt, Held
<1>5. OrderlySpec => Spec
  BY <1>1, <1>2, PTL DEF OrderlySpec, Spec
<1>6. TypeOK /\ OrphanInv /\ [Next]_vars => OrphanInv'
  BY ModerateKeepsOrphanInv, OthersKeepOrphanInv DEF Next
<1> QED
  BY <1>1, <1>2, <1>3, <1>4, <1>5, <1>6, TypeCorrect, PTL DEF OrderlySpec

-----------------------------------------------------------------------------
(* AvServing keeps the promise of BlockPromise, for any number of          *)
(* resources, moderators and workers.                                      *)

\* What an operation carries from the check it passed to its answer.
CarrySteps == {"by_location", "force_delete", "by_hash", "index_store", "index_embed",
               "announce", "recorded", "joined", "propagate_store", "propagate_embed"}

Carried(state) ==
    IF state.at \in CarrySteps THEN {state.id} \ {None}
    ELSE IF state.at = "send" THEN state.hits ELSE {}

(***************************************************************************)
(* An operation only carries what it has seen unblocked, and a busy        *)
(* worker has seen everything that is unblocked now.                       *)
(***************************************************************************)
SeenInv ==
    \A w \in Workers :
        /\ Carried(proc[w]) \subseteq seen[w]
        /\ w \notin Busy => seen[w] = {}
        /\ w \in Busy => Unblocked \subseteq seen[w]

\* What is answered is carried.
LEMMA AnsweredIsCarried ==
    ASSUME TypeOK, NEW w \in Workers
    PROVE  Answered(w) \subseteq Carried(proc[w])
<1>1. WellFormed(proc[w])
  BY DEF TypeOK, Procs
<1>2. CASE proc[w].at \in {"index_store", "index_embed", "announce",
                           "propagate_store", "propagate_embed"}
  BY <1>1, <1>2, NoneAssumption DEF Answered, Carried, CarrySteps, WellFormed, IdSteps
<1>3. CASE At(w, "send")
  BY <1>3 DEF Answered, Carried, CarrySteps, At
<1> QED
  BY <1>2, <1>3 DEF Answered

\* The steps of the workers: one of them moves, and all it carries after the
\* step it carried before or has just seen unblocked.
LEMMA WorkCarries ==
    ASSUME TypeOK, NEW w \in Workers, Work(w)
    PROVE  /\ \A q \in Workers \ {w} : proc'[q] = proc[q]
           /\ Carried(proc'[w]) \subseteq Carried(proc[w]) \cup Unblocked
<1>w. /\ w \in Procs
      /\ proc \in [Procs -> ProcState]
      /\ WellFormed(proc[w])
      /\ proc[w] \in ProcState
  BY DEF TypeOK, Procs
<1>b. ASSUME NEW state, Become(w, state),
             Carried(state) \subseteq Carried(proc[w]) \cup Unblocked
      PROVE  /\ \A q \in Workers \ {w} : proc'[q] = proc[q]
             /\ Carried(proc'[w]) \subseteq Carried(proc[w]) \cup Unblocked
  BY <1>b, <1>w DEF Become, Procs
<1>r. Return(w) => /\ \A q \in Workers \ {w} : proc'[q] = proc[q]
                   /\ Carried(proc'[w]) \subseteq Carried(proc[w]) \cup Unblocked
  BY <1>b, IdleWellFormed DEF Return, Carried, CarrySteps
\* A step from one carrying step to the next with the same id.
<1>g. ASSUME NEW state \in ProcState, Become(w, state), state.id = proc[w].id,
             proc[w].at \in CarrySteps, state.at # "send"
      PROVE  /\ \A q \in Workers \ {w} : proc'[q] = proc[q]
             /\ Carried(proc'[w]) \subseteq Carried(proc[w]) \cup Unblocked
  BY <1>b, <1>g DEF Carried
\* A step to one that carries nothing.
<1>n. ASSUME NEW state, Become(w, state), state.at \notin CarrySteps \cup {"send"}
      PROVE  /\ \A q \in Workers \ {w} : proc'[q] = proc[q]
             /\ Carried(proc'[w]) \subseteq Carried(proc[w]) \cup Unblocked
  BY <1>b, <1>n DEF Carried
<1>u. ASSUME proc' = proc
      PROVE  /\ \A q \in Workers \ {w} : proc'[q] = proc[q]
             /\ Carried(proc'[w]) \subseteq Carried(proc[w]) \cup Unblocked
  BY <1>u
<1>1. ASSUME NEW i \in Ids, NEW l \in Locs, NEW force \in BOOLEAN, Index(w, i, l, force)
      PROVE  /\ \A q \in Workers \ {w} : proc'[q] = proc[q]
             /\ Carried(proc'[w]) \subseteq Carried(proc[w]) \cup Unblocked
  <2> DEFINE state == [Idle EXCEPT !.at = "by_location", !.id = i, !.loc = l,
                                   !.flag = force]
  <2>1. state.at = "by_location" /\ state.id = i
    BY IdleWellFormed DEF ProcState
  <2>2. Become(w, state) /\ i \in Unblocked
    BY <1>1 DEF Index, Unblocked
  <2> HIDE DEF state
  <2>3. Carried(state) \subseteq Unblocked
    BY <2>1, <2>2 DEF Carried, CarrySteps
  <2> QED
    BY <1>b, <2>2, <2>3
<1>2. ASSUME NEW i \in Ids, NEW l \in Locs, Propagate(w, i, l)
      PROVE  /\ \A q \in Workers \ {w} : proc'[q] = proc[q]
             /\ Carried(proc'[w]) \subseteq Carried(proc[w]) \cup Unblocked
  <2> DEFINE state == [Idle EXCEPT !.at = "recorded", !.id = i, !.loc = l,
                           !.todo = Spellings([location |-> l, canonical |-> Canon[l]])]
  <2>1. state.at = "recorded" /\ state.id = i
    BY IdleWellFormed DEF ProcState
  <2>2. Become(w, state) /\ i \in Unblocked
    BY <1>2 DEF Propagate, Unblocked
  <2> HIDE DEF state
  <2>3. Carried(state) \subseteq Unblocked
    BY <2>1, <2>2 DEF Carried, CarrySteps
  <2> QED
    BY <1>b, <2>2, <2>3
<1>3. ASSUME NEW l \in Locs, Fetch(w, l)
      PROVE  /\ \A q \in Workers \ {w} : proc'[q] = proc[q]
             /\ Carried(proc'[w]) \subseteq Carried(proc[w]) \cup Unblocked
  <2> DEFINE state == [Idle EXCEPT !.at = "recorded", !.loc = l, !.todo = <<l>>]
  <2>1. state.at = "recorded" /\ state.id = None
    BY IdleWellFormed DEF ProcState
  <2>2. Become(w, state)
    BY <1>3 DEF Fetch
  <2> HIDE DEF state
  <2>3. Carried(state) = {}
    BY <2>1 DEF Carried, CarrySteps
  <2> QED
    BY <1>b, <2>2, <2>3
<1>4. CASE NotHeldByLocation(w) \/ CheckHash(w) \/ StoreIndexed(w) \/ EmbedIndexed(w)
           \/ CheckRecorded(w) \/ StorePropagated(w)
  <2>1. \/ Return(w)
        \/ \E s \in Steps : /\ Become(w, [proc[w] EXCEPT !.at = s])
                            /\ proc[w].at \in CarrySteps
                            /\ s # "send"
    BY <1>4 DEF NotHeldByLocation, CheckHash, StoreIndexed, EmbedIndexed, CheckRecorded,
                StorePropagated, Goto, At, CarrySteps, Steps
  <2>2. ASSUME NEW s \in Steps, Become(w, [proc[w] EXCEPT !.at = s]),
               proc[w].at \in CarrySteps, s # "send"
        PROVE  /\ \A q \in Workers \ {w} : proc'[q] = proc[q]
               /\ Carried(proc'[w]) \subseteq Carried(proc[w]) \cup Unblocked
    <3> DEFINE state == [proc[w] EXCEPT !.at = s]
    <3>1. state \in ProcState /\ state.at = s /\ state.id = proc[w].id
      BY <1>w DEF ProcState
    <3> HIDE DEF state
    <3> QED
      BY <1>g, <2>2, <3>1 DEF state
  <2> QED
    BY <1>r, <2>1, <2>2
<1>5. CASE HeldByLocation(w)
  <2>1. PICK newest \in RowsAt(proc[w].loc) :
            IF proc[w].flag
            THEN Become(w, [proc[w] EXCEPT !.at = "force_delete", !.hits = {newest}])
            ELSE Return(w)
    BY <1>5 DEF HeldByLocation
  <2> DEFINE state == [proc[w] EXCEPT !.at = "force_delete", !.hits = {newest}]
  <2>2. state \in ProcState /\ state.at = "force_delete" /\ state.id = proc[w].id
    BY <1>w DEF ProcState, Steps, RowsAt, Held
  <2>3. proc[w].at \in CarrySteps
    BY <1>5 DEF HeldByLocation, At, CarrySteps
  <2>4. Become(w, state) \/ Return(w)
    BY <2>1
  <2> HIDE DEF state
  <2> QED
    BY <1>g, <1>r, <2>2, <2>3, <2>4
<1>6. CASE ForceDelete(w)
  <2> DEFINE state == [proc[w] EXCEPT !.at = "by_hash", !.hits = {}]
  <2>1. state \in ProcState /\ state.at = "by_hash" /\ state.id = proc[w].id
    BY <1>w DEF ProcState, Steps
  <2>2. proc[w].at \in CarrySteps /\ Become(w, state)
    BY <1>6 DEF ForceDelete, At, CarrySteps
  <2> HIDE DEF state
  <2> QED
    BY <1>g, <2>1, <2>2
<1>7. CASE CheckJoined(w)
  <2> DEFINE next == IF Tail(proc[w].todo) # << >> THEN "recorded"
                     ELSE IF proc[w].id = None THEN "admit" ELSE "propagate_store"
             state == [proc[w] EXCEPT !.todo = Tail(@), !.at = next]
  <2>1. Tail(proc[w].todo) \in Seq(Locs)
    BY <1>7, <1>w DEF CheckJoined, At, WellFormed, ProcState
  <2>2. next \in Steps \ {"send"}
    BY DEF Steps
  <2>3. Become(w, state) \/ Return(w)
    BY <1>7 DEF CheckJoined
  <2>4. proc[w].at \in CarrySteps
    BY <1>7 DEF CheckJoined, At, CarrySteps
  <2> HIDE DEF next
  <2>5. state \in ProcState /\ state.at = next /\ state.id = proc[w].id
    BY <1>w, <2>1, <2>2 DEF ProcState
  <2> HIDE DEF state
  <2> QED
    BY <1>g, <1>r, <2>2, <2>3, <2>4, <2>5
<1>8. CASE Respond(w)
  <2> DEFINE state == [Idle EXCEPT !.at = "filter", !.hits = embedded]
  <2>1. state.at = "filter" /\ Become(w, state)
    BY <1>8, IdleWellFormed DEF Respond, ProcState
  <2> HIDE DEF state
  <2> QED
    BY <1>n, <2>1 DEF CarrySteps
<1>9. CASE FilterHits(w)
  <2> DEFINE state == [proc[w] EXCEPT !.at = "rows", !.hits = @ \ BlockedResources]
  <2>1. state.at = "rows" /\ Become(w, state)
    BY <1>9, <1>w DEF FilterHits, ProcState
  <2> HIDE DEF state
  <2> QED
    BY <1>n, <2>1 DEF CarrySteps
<1>10. CASE ReadRows(w)
  <2> DEFINE state == [proc[w] EXCEPT !.at = "gate", !.hits = @ \cap Held]
  <2>1. state.at = "gate" /\ Become(w, state)
    BY <1>10, <1>w DEF ReadRows, ProcState
  <2> HIDE DEF state
  <2> QED
    BY <1>n, <2>1 DEF CarrySteps
<1>11. CASE Gate(w)
  <2> DEFINE kept == proc[w].hits \ BlockedResources
             state == [proc[w] EXCEPT !.at = "send", !.hits = kept]
  <2>1. state.at = "send" /\ state.hits = kept /\ kept \subseteq Unblocked
    BY <1>w DEF ProcState, Unblocked
  <2>2. Become(w, state) \/ Return(w)
    BY <1>11 DEF Gate
  <2> HIDE DEF state, kept
  <2>3. Carried(state) \subseteq Unblocked
    BY <2>1 DEF Carried, CarrySteps
  <2> QED
    BY <1>b, <1>r, <2>2, <2>3
<1>12. ASSUME NEW l \in Locs, PurgeDuplicates(w, l)
       PROVE  /\ \A q \in Workers \ {w} : proc'[q] = proc[q]
              /\ Carried(proc'[w]) \subseteq Carried(proc[w]) \cup Unblocked
  <2>1. PICK newest \in RowsAt(l) :
            Become(w, [Idle EXCEPT !.at = "dedupe", !.hits = RowsAt(l) \ {newest}])
    BY <1>12 DEF PurgeDuplicates
  <2> DEFINE state == [Idle EXCEPT !.at = "dedupe", !.hits = RowsAt(l) \ {newest}]
  <2>2. state.at = "dedupe" /\ Become(w, state)
    BY <2>1, IdleWellFormed DEF ProcState
  <2> HIDE DEF state
  <2> QED
    BY <1>n, <2>2 DEF CarrySteps
<1>13. CASE DeleteDuplicate(w)
  <2>1. PICK i \in proc[w].hits :
            IF proc[w].hits = {i} THEN Return(w)
            ELSE Become(w, [proc[w] EXCEPT !.hits = @ \ {i}])
    BY <1>13 DEF DeleteDuplicate
  <2> DEFINE state == [proc[w] EXCEPT !.hits = @ \ {i}]
  <2>2. state.at = "dedupe" /\ (Become(w, state) \/ Return(w))
    BY <1>13, <1>w, <2>1 DEF DeleteDuplicate, At, ProcState
  <2> HIDE DEF state
  <2> QED
    BY <1>n, <1>r, <2>2 DEF CarrySteps
<1>14. CASE Announce(w) \/ ServeFetched(w) \/ EmbedPropagated(w) \/ Send(w)
  BY <1>14, <1>r DEF Announce, ServeFetched, EmbedPropagated, Send
<1>15. CASE \/ \E i \in Ids : PurgeResource(w, i)
            \/ PurgeAll(w)
            \/ \E R \in SUBSET Records : PurgeName(w, R)
            \/ \E r \in Records, l \in Locs : SaveName(w, r, l)
  BY <1>15, <1>u DEF PurgeResource, PurgeAll, PurgeName, SaveName
<1> QED
  BY <1>1, <1>2, <1>3, <1>4, <1>5, <1>6, <1>7, <1>8, <1>9, <1>10, <1>11, <1>12,
     <1>13, <1>14, <1>15 DEF Work

\* An operation begins before its answer: no first step answers.
LEMMA NothingAnsweredAtOnce ==
    ASSUME TypeOK, NEW w \in Workers, Work(w), At(w, "idle")
    PROVE  Answered(w)' = {}
<1> DEFINE First == {"idle", "by_location", "recorded", "filter", "dedupe"}
<1>1. ASSUME NEW state, Become(w, state), state.at \in First
      PROVE  proc'[w].at \in First
  BY <1>1 DEF Become, TypeOK, Procs
<1>2. ASSUME NEW i \in Ids, NEW l \in Locs, NEW force \in BOOLEAN, Index(w, i, l, force)
      PROVE  proc'[w].at \in First
  <2> DEFINE state == [Idle EXCEPT !.at = "by_location", !.id = i, !.loc = l,
                                   !.flag = force]
  <2>1. state.at = "by_location" /\ Become(w, state)
    BY <1>2, IdleWellFormed DEF Index, ProcState
  <2> HIDE DEF state
  <2> QED
    BY <1>1, <2>1
<1>3. ASSUME NEW i \in Ids, NEW l \in Locs, Propagate(w, i, l)
      PROVE  proc'[w].at \in First
  <2> DEFINE state == [Idle EXCEPT !.at = "recorded", !.id = i, !.loc = l,
                           !.todo = Spellings([location |-> l, canonical |-> Canon[l]])]
  <2>1. state.at = "recorded" /\ Become(w, state)
    BY <1>3, IdleWellFormed DEF Propagate, ProcState
  <2> HIDE DEF state
  <2> QED
    BY <1>1, <2>1
<1>4. ASSUME NEW l \in Locs, Fetch(w, l)
      PROVE  proc'[w].at \in First
  <2> DEFINE state == [Idle EXCEPT !.at = "recorded", !.loc = l, !.todo = <<l>>]
  <2>1. state.at = "recorded" /\ Become(w, state)
    BY <1>4, IdleWellFormed DEF Fetch, ProcState
  <2> HIDE DEF state
  <2> QED
    BY <1>1, <2>1
<1>5. ASSUME Respond(w)
      PROVE  proc'[w].at \in First
  <2> DEFINE state == [Idle EXCEPT !.at = "filter", !.hits = embedded]
  <2>1. state.at = "filter" /\ Become(w, state)
    BY <1>5, IdleWellFormed DEF Respond, ProcState
  <2> HIDE DEF state
  <2> QED
    BY <1>1, <2>1
<1>6. ASSUME NEW l \in Locs, PurgeDuplicates(w, l)
      PROVE  proc'[w].at \in First
  <2>1. PICK newest \in RowsAt(l) :
            Become(w, [Idle EXCEPT !.at = "dedupe", !.hits = RowsAt(l) \ {newest}])
    BY <1>6 DEF PurgeDuplicates
  <2> DEFINE state == [Idle EXCEPT !.at = "dedupe", !.hits = RowsAt(l) \ {newest}]
  <2>2. state.at = "dedupe" /\ Become(w, state)
    BY <2>1, IdleWellFormed DEF ProcState
  <2> HIDE DEF state
  <2> QED
    BY <1>1, <2>2
<1>7. ASSUME \/ \E i \in Ids : PurgeResource(w, i)
             \/ PurgeAll(w)
             \/ \E R \in SUBSET Records : PurgeName(w, R)
             \/ \E r \in Records, l \in Locs : SaveName(w, r, l)
      PROVE  proc'[w].at \in First
  BY <1>7 DEF PurgeResource, PurgeAll, PurgeName, SaveName, At
<1>8. proc'[w].at \in First
  BY <1>2, <1>3, <1>4, <1>5, <1>6, <1>7
  DEF Work, At, NotHeldByLocation, HeldByLocation, ForceDelete, CheckHash, StoreIndexed,
      EmbedIndexed, Announce, CheckRecorded, CheckJoined, ServeFetched, StorePropagated,
      EmbedPropagated, FilterHits, ReadRows, Gate, Send, DeleteDuplicate
<1> QED
  BY <1>8 DEF Answered, At

-----------------------------------------------------------------------------
\* What a step does to the blocked resources and to the workers: a moderator
\* imposes one block or lifts some, a worker moves, and a failing process
\* returns to idle.
LEMMA ModerateBlocks ==
    ASSUME TypeOK, NEW m \in Moderators, Moderate(m)
    PROVE  /\ \A w \in Workers : proc'[w] = proc[w]
           /\ \/ \E i \in Ids : BlockedResources' = BlockedResources \cup {i}
              \/ \E S \in SUBSET Ids : BlockedResources' = BlockedResources \ S
<1>t. /\ blocks \in [Kinds -> SUBSET (Ids \cup Records \cup Agents)]
      /\ BlockedResources \subseteq Ids
      /\ "resource" \in Kinds
      /\ WellFormed(proc[m])
  BY DEF TypeOK, TablesOK, Kinds, BlockedResources, Procs
<1>1. proc' = proc \/ \E state : Become(m, state)
  BY DEF Moderate, Return, Block, BlockOther, ReadSpellings, RecordSpelling, DropLocalCopy,
         KeepLocalCopy, Unblock, Remove, UnblockOther, ClearResources, ForgetEach,
         ClearResourceBlocks, ClearOther, ForgetAll, ClearAllBlocks
<1>2. \A w \in Workers : proc'[w] = proc[w]
  BY <1>1, ProcsAssumption DEF Become, TypeOK, Procs
<1>3. ASSUME NEW i \in Ids, NEW keep \in BOOLEAN, Block(m, i, keep)
      PROVE  BlockedResources' = BlockedResources \cup {i}
  BY <1>3, <1>t DEF Block, AddBlock, BlockedResources
<1>4. CASE Remove(m)
  <2>1. proc[m].id \in Ids
    BY <1>4, <1>t DEF Remove, At, WellFormed, IdSteps
  <2>2. BlockedResources' = BlockedResources \ {proc[m].id}
    BY <1>4, <1>t DEF Remove, RemoveBlock, BlockedResources
  <2> QED
    BY <1>2, <2>1, <2>2
<1>5. CASE ClearResourceBlocks(m) \/ ClearAllBlocks(m)
  <2>1. BlockedResources' = BlockedResources \ Ids
    BY <1>5, <1>t DEF ClearResourceBlocks, ClearAllBlocks, ClearBlocks, BlockedResources
  <2> QED
    BY <1>2, <2>1
<1>6. ASSUME BlockedResources' = BlockedResources
      PROVE  \E S \in SUBSET Ids : BlockedResources' = BlockedResources \ S
  <2>1. BlockedResources' = BlockedResources \ {}
    BY <1>6
  <2> QED
    BY <2>1
<1>7. CASE \/ ReadSpellings(m) \/ RecordSpelling(m) \/ DropLocalCopy(m) \/ KeepLocalCopy(m)
           \/ \E i \in Ids : Unblock(m, i)
           \/ ClearResources(m) \/ ForgetEach(m) \/ ForgetAll(m)
  BY <1>7, <1>2, <1>6
  DEF ReadSpellings, RecordSpelling, DropLocalCopy, KeepLocalCopy, Unblock, ClearResources,
      ForgetEach, ForgetAll, tables, BlockedResources
<1>8. ASSUME NEW k \in Kinds \ {"resource"},
             \/ ClearOther(m, k)
             \/ \E s \in SubjectsOf[k] : BlockOther(m, k, s) \/ UnblockOther(m, k, s)
      PROVE  BlockedResources' = BlockedResources
  BY <1>8, <1>t
  DEF ClearOther, BlockOther, UnblockOther, AddBlock, RemoveBlock, ClearBlocks,
      BlockedResources
<1> QED
  BY <1>2, <1>3, <1>4, <1>5, <1>6, <1>7, <1>8 DEF Moderate

\* Whoever moves, at most one worker changes, and only a moderator changes the
\* block list.
LEMMA StepEffects ==
    ASSUME TypeOK, [Next]_vars
    PROVE  \/ /\ \A w \in Workers : proc'[w] = proc[w]
              /\ \/ \E i \in Ids : BlockedResources' = BlockedResources \cup {i}
                 \/ \E S \in SUBSET Ids : BlockedResources' = BlockedResources \ S
           \/ /\ BlockedResources' = BlockedResources
              /\ \E w \in Workers :
                    /\ \A q \in Workers \ {w} : proc'[q] = proc[q]
                    /\ Carried(proc'[w]) \subseteq Carried(proc[w]) \cup Unblocked
                    /\ At(w, "idle") => Answered(w)' = {}
<1>1. CASE UNCHANGED vars
  <2>1. BlockedResources' = BlockedResources \ {}
    BY <1>1 DEF vars, tables, BlockedResources
  <2>2. {} \in SUBSET Ids /\ \A w \in Workers : proc'[w] = proc[w]
    BY <1>1 DEF vars
  <2> QED
    BY <2>1, <2>2
<1>2. CASE \E m \in Moderators : Moderate(m)
  BY <1>2, ModerateBlocks
<1>3. CASE \E w \in Workers : Work(w)
  BY <1>3, WorkCarries, WorkLeavesModeration, NothingAnsweredAtOnce DEF BlockedResources
<1>4. ASSUME NEW p \in Procs, Fail(p)
      PROVE  \/ /\ \A w \in Workers : proc'[w] = proc[w]
                /\ \E S \in SUBSET Ids : BlockedResources' = BlockedResources \ S
             \/ /\ BlockedResources' = BlockedResources
                /\ \E w \in Workers :
                      /\ \A q \in Workers \ {w} : proc'[q] = proc[q]
                      /\ Carried(proc'[w]) \subseteq Carried(proc[w]) \cup Unblocked
                      /\ Answered(w)' = {}
  <2>1. BlockedResources' = BlockedResources /\ proc' = [proc EXCEPT ![p] = Idle]
    BY <1>4 DEF Fail, tables, BlockedResources, Return, Become
  <2>2. Carried(Idle) = {}
    BY IdleWellFormed DEF Carried, CarrySteps
  <2>3. CASE p \in Workers
    <3>1. proc'[p] = Idle /\ \A q \in Workers \ {p} : proc'[q] = proc[q]
      BY <2>1, <2>3 DEF TypeOK, Procs
    <3>2. Answered(p)' = {}
      BY <3>1, IdleWellFormed DEF Answered, At
    <3> QED
      BY <2>1, <2>2, <2>3, <3>1, <3>2
  <2>4. CASE p \notin Workers
    <3>1. \A w \in Workers : proc'[w] = proc[w]
      BY <2>1, <2>4 DEF TypeOK, Procs
    <3>2. BlockedResources' = BlockedResources \ {} /\ {} \in SUBSET Ids
      BY <2>1
    <3> QED
      BY <3>1, <3>2
  <2> QED
    BY <2>3, <2>4
<1> QED
  BY <1>1, <1>2, <1>3, <1>4 DEF Next

LEMMA SeenInvStep ==
    ASSUME TypeOK, SeenInv, [ServingNext]_servingVars
    PROVE  SeenInv'
<1>1. CASE UNCHANGED servingVars
  BY <1>1 DEF servingVars, vars, tables, SeenInv, Busy, At, Unblocked, BlockedResources
<1>2. CASE ServingNext
  <2>1. \A w \in Workers :
           seen'[w] = IF w \notin Busy' THEN {}
                      ELSE IF w \in Busy THEN seen[w] \cup Unblocked' ELSE Unblocked'
    BY <1>2 DEF ServingNext, Watch
  <2>2. \A w \in Workers \ Busy : Carried(proc[w]) = {}
    BY DEF Busy, At, Carried, CarrySteps
  <2>3. \A w \in Workers : w \notin Busy' => Carried(proc'[w]) = {}
    BY DEF Busy, At, Carried, CarrySteps
  <2>4. SUFFICES ASSUME NEW w \in Workers, w \in Busy'
                 PROVE  Carried(proc'[w]) \subseteq seen'[w]
    BY <2>1, <2>3 DEF SeenInv
  <2>5. Carried(proc[w]) \subseteq seen'[w] /\ Unblocked' \subseteq seen'[w]
    BY <2>1, <2>2, <2>4 DEF SeenInv
  <2>6. CASE proc'[w] = proc[w]
    BY <2>5, <2>6
  <2>7. CASE proc'[w] # proc[w]
    <3>1. /\ BlockedResources' = BlockedResources
          /\ Carried(proc'[w]) \subseteq Carried(proc[w]) \cup Unblocked
      BY <1>2, <2>7, StepEffects DEF ServingNext
    <3> QED
      BY <2>5, <3>1 DEF Unblocked
  <2> QED
    BY <2>6, <2>7
<1> QED
  BY <1>1, <1>2

LEMMA ServingInvariant == ServingSpec => [](TypeOK /\ SeenInv)
<1>1. ServingInit => TypeOK /\ SeenInv
  <2> SUFFICES ASSUME ServingInit PROVE TypeOK /\ SeenInv
    OBVIOUS
  <2>1. \A w \in Workers : proc[w] = Idle
    BY DEF ServingInit, Init, Procs
  <2> QED
    BY <2>1, InitTyped, IdleWellFormed
    DEF ServingInit, SeenInv, Carried, CarrySteps, Busy, At
<1>2. TypeOK /\ [ServingNext]_servingVars => TypeOK'
  <2> SUFFICES ASSUME TypeOK, [ServingNext]_servingVars PROVE TypeOK'
    OBVIOUS
  <2>1. CASE UNCHANGED vars
    BY <2>1 DEF vars, tables, TypeOK, TablesOK, Held
  <2> QED
    BY <2>1, ModerateTyped, WorkTyped, FailTyped DEF Next, ServingNext, servingVars
<1> QED
  BY <1>1, <1>2, SeenInvStep, PTL DEF ServingSpec

(***************************************************************************)
(* A resource that was blocked for the whole of an operation is not        *)
(* stored, announced or sent by it.                                        *)
(***************************************************************************)
THEOREM BlockedIsNotServed == ServingSpec => []NothingBlockedIsServed
<1>1. TypeOK /\ SeenInv => NothingBlockedIsServed
  BY AnsweredIsCarried DEF SeenInv, NothingBlockedIsServed
<1> QED
  BY <1>1, ServingInvariant, PTL

-----------------------------------------------------------------------------
(* The refinement of BlockPromise.                                         *)

\* Between two steps of the history variable, a worker that stays busy only
\* gains what is lifted.
LEMMA SeenStep ==
    ASSUME SeenInv, Watch, BlockedResources' = BlockedResources
    PROVE  \A w \in Workers :
              seen'[w] = IF w \notin Busy' THEN {}
                         ELSE IF w \in Busy THEN seen[w] ELSE Unblocked
BY DEF SeenInv, Watch, Unblocked

LEMMA PromiseStep ==
    ASSUME TypeOK, SeenInv, SeenInv', NothingBlockedIsServed',
           seen \in [Workers -> SUBSET Ids], [ServingNext]_servingVars
    PROVE  [Promise!Next]_(Promise!vars)
<1> DEFINE answer == [w \in Workers |-> Answered(w)]
<1> USE DEF Promise!Next, Promise!vars
<1>0. CASE UNCHANGED servingVars
  BY <1>0 DEF servingVars, vars, tables, BlockedResources, Busy, At, Answered
<1> SUFFICES ASSUME Next, Watch
             PROVE  [Promise!Next]_(Promise!vars)
  BY <1>0 DEF ServingNext
<1>1. ASSUME \A w \in Workers : proc'[w] = proc[w]
      PROVE  Busy' = Busy /\ answer' = answer
  BY <1>1 DEF Busy, At, Answered
<1>2. ASSUME \A w \in Workers : proc'[w] = proc[w],
             NEW i \in Ids, BlockedResources' = BlockedResources \cup {i}
      PROVE  Promise!Next
  <2>1. \A w \in Workers : seen'[w] = seen[w]
    BY <1>1, <1>2 DEF Watch, SeenInv, Unblocked
  <2>2. seen' = seen
    BY <2>1 DEF Watch
  <2>3. Promise!Impose(i)
    BY <1>1, <1>2, <2>2 DEF Promise!Impose
  <2> QED
    BY <2>3
<1>3. ASSUME \A w \in Workers : proc'[w] = proc[w],
             NEW S \in SUBSET Ids, BlockedResources' = BlockedResources \ S
      PROVE  Promise!Next
  <2>1. seen' = [w \in Workers |-> IF w \in Busy THEN seen[w] \cup Unblocked' ELSE {}]
    BY <1>1, <1>3 DEF Watch
  <2>2. Promise!Lift(S)
    BY <1>1, <1>3, <2>1 DEF Promise!Lift, Promise!Unblocked, Unblocked
  <2> QED
    BY <2>2
<1>4. ASSUME BlockedResources' = BlockedResources,
             NEW w \in Workers, \A q \in Workers \ {w} : proc'[q] = proc[q],
             At(w, "idle") => Answered(w)' = {}
      PROVE  [Promise!Next]_(Promise!vars)
  <2>1. /\ \A q \in Workers \ {w} : (q \in Busy' <=> q \in Busy) /\ Answered(q)' = Answered(q)
        /\ answer' = [answer EXCEPT ![w] = Answered(w)']
    BY <1>4 DEF Busy, At, Answered
  <2>2. /\ \A q \in Workers \ {w} : seen'[q] = seen[q]
        /\ seen'[w] = IF w \notin Busy' THEN {}
                      ELSE IF w \in Busy THEN seen[w] ELSE Unblocked
    BY <1>4, <2>1, SeenStep DEF SeenInv
  <2>3. seen' = [seen EXCEPT ![w] = seen'[w]]
    BY <2>2 DEF Watch
  <2>4. w \notin Busy => Answered(w) = {}
    BY DEF Busy, At, Answered
  <2>5. w \notin Busy' => Answered(w)' = {}
    BY DEF Busy, At, Answered
  <2>6. CASE w \in Busy /\ w \in Busy'
    <3>1. Busy' = Busy /\ seen' = seen
      BY <2>1, <2>2, <2>3, <2>6 DEF Busy
    <3>2. Answered(w)' \subseteq seen[w] /\ seen[w] \in SUBSET Ids
      BY <3>1 DEF NothingBlockedIsServed
    <3>3. Promise!Answer(w, Answered(w)')
      BY <1>4, <2>1, <2>6, <3>1, <3>2 DEF Promise!Answer
    <3> QED
      BY <3>2, <3>3
  <2>7. CASE w \in Busy /\ w \notin Busy'
    <3>1. Busy' = Busy \ {w}
      BY <2>1, <2>7 DEF Busy
    <3>2. Promise!Finish(w)
      BY <1>4, <2>1, <2>2, <2>3, <2>5, <2>7, <3>1 DEF Promise!Finish
    <3> QED
      BY <3>2
  <2>8. CASE w \notin Busy /\ w \in Busy'
    <3>1. Busy' = Busy \cup {w}
      BY <2>1, <2>8 DEF Busy
    <3>2. answer' = answer
      BY <1>4, <2>1, <2>4, <2>8 DEF Busy
    <3>3. Promise!Begin(w)
      BY <1>4, <2>2, <2>3, <2>8, <3>1, <3>2 DEF Promise!Begin, Promise!Unblocked, Unblocked
    <3> QED
      BY <3>3
  <2>9. CASE w \notin Busy /\ w \notin Busy'
    <3>1. Busy' = Busy /\ seen' = seen /\ answer' = answer
      BY <2>1, <2>2, <2>3, <2>4, <2>5, <2>9 DEF Busy, SeenInv
    <3> QED
      BY <1>4, <3>1
  <2> QED
    BY <2>6, <2>7, <2>8, <2>9
<1> QED
  BY <1>2, <1>3, <1>4, StepEffects

(***************************************************************************)
(* Every statement of every operation is a step of BlockPromise under the  *)
(* refinement mapping of AvServing, or changes nothing it can see.         *)
(***************************************************************************)
THEOREM StoreKeepsPromise == ServingSpec => KeepsPromise
<1>1. ServingInit => Promise!Init
  <2> SUFFICES ASSUME ServingInit PROVE Promise!Init
    OBVIOUS
  <2>1. \A w \in Workers : proc[w] = Idle
    BY DEF ServingInit, Init, Procs
  <2>2. Busy = {} /\ \A w \in Workers : Answered(w) = {}
    BY <2>1, IdleWellFormed DEF Busy, At, Answered
  <2>3. BlockedResources = {}
    BY DEF ServingInit, Init, BlockedResources, Kinds
  <2> QED
    BY <2>2, <2>3 DEF ServingInit, Promise!Init
<1>2. ServingSpec => [](seen \in [Workers -> SUBSET Ids])
  <2>1. ServingInit => seen \in [Workers -> SUBSET Ids]
    BY DEF ServingInit
  <2>2. seen \in [Workers -> SUBSET Ids] /\ [ServingNext]_servingVars
            => (seen \in [Workers -> SUBSET Ids])'
    BY DEF ServingNext, Watch, servingVars, Unblocked
  <2> QED
    BY <2>1, <2>2, PTL DEF ServingSpec
<1> QED
  BY <1>1, <1>2, ServingInvariant, BlockedIsNotServed, PromiseStep, PTL
  DEF ServingSpec, KeepsPromise, Promise!Spec

-----------------------------------------------------------------------------
(* AvNames: any number of askers, moderators, records, resources and       *)
(* agents, and whichever reads fail.                                       *)

(***************************************************************************)
(* What an asker knows between two reads, whatever has happened since it   *)
(* began.  A list that has been applied to the claims keeps out what was   *)
(* blocked before, and is still; the list of resources, which is applied   *)
(* last, covers every resource that is blocked all along; and a claim that *)
(* has passed the three is open.                                           *)
(***************************************************************************)
\* The n-th list has been applied to the claims that are left to be checked.
Past(o, n) == o.at = "targets" \/ (o.at = "policy" /\ n < o.list)

Knows(o, since) ==
    /\ \A c \in o.kept : IsOpen(c, since)
    /\ Past(o, 1) => \A c \in o.hits : c.rec \notin since.name
    /\ Past(o, 2) => since.resource \subseteq o.resources
    /\ Past(o, 3) => \A c \in o.hits : c.origin \notin since.agent
    /\ o.at = "insert" =>
          \A c \in o.hits : c.rec \notin since.name /\ (o.blind \/ c.origin \notin since.agent)
    /\ o.at \in {"cache", "insert"} => o.blind \/ \A e \in o.heard : e[1] \notin since.agent
    /\ o.at \notin {"idle", "lists"} /\ ~o.blind => o.network \cap since.resource = {}
    /\ o.at = "accept" => o.network = {}
    /\ o.at = "idle" => o.kept = {}

\* One history covers no more than another.
Within(s, t) ==
    /\ s.name \subseteq t.name
    /\ s.resource \subseteq t.resource
    /\ s.agent \subseteq t.agent
    /\ s.target \subseteq t.target

Fields == {"at", "kind", "heard", "rec", "hits", "kept", "list", "resources", "network",
           "names", "gate", "blind"}

\* As much of the type of an operation as the proof needs.
Shaped(o) == DOMAIN o = Fields /\ o.list \in 1 .. 3

NamesInv ==
    /\ DOMAIN op = Askers
    /\ \A p \in Askers : /\ Shaped(op[p])
                         /\ Within(steady[p], Now)
                         /\ Knows(op[p], steady[p])

-----------------------------------------------------------------------------
(* The history                                                             *)

\* It covers only what is blocked now, and only shrinks during an operation.
LEMMA HistoryShrinks ==
    ASSUME Remember, NEW p \in Askers
    PROVE  /\ Within(steady[p], Now)'
           /\ op[p].at # "idle" /\ op'[p].at # "idle" => Within(steady'[p], steady[p])
BY DEF Remember, Within, Now

\* What is known of a history is known of one that covers less.
LEMMA KnowsOfLess ==
    ASSUME NEW o, NEW s, NEW t, Knows(o, s), Within(t, s)
    PROVE  Knows(o, t)
BY DEF Knows, Within, IsOpen

\* Before its first step an operation knows what any history allows.
LEMMA NothingToKnow ==
    /\ Shaped(NoOp)
    /\ \A s : Knows(NoOp, s)
BY DEF NoOp, Shaped, Fields, Knows, Past

\* Between two operations likewise.
LEMMA IdleKnows ==
    ASSUME NEW o, o.at = "idle", NEW s, Knows(o, s)
    PROVE  \A t : Knows(o, t)
BY DEF Knows, Past

-----------------------------------------------------------------------------
(* The steps of an asker                                                   *)

\* A step that begins an operation.
LEMMA StartKnows ==
    ASSUME NEW p \in Askers, DOMAIN op = Askers, op[p].at = "idle", Ask(p), NEW s
    PROVE  Shaped(op'[p]) /\ Knows(op'[p], s)
<1> USE DEF Set
<1>1. CASE RespondToName(p)
  BY <1>1 DEF RespondToName, Lookup, NoOp, Shaped, Fields, Knows, Past
<1>2. CASE Resolve(p)
  BY <1>2 DEF Resolve, NoOp, Shaped, Fields, Knows, Past
<1>3. CASE Search(p)
  BY <1>3 DEF Search, NoOp, Shaped, Fields, Knows, Past
<1>4. ASSUME NEW r \in Records, Rate(p, r)
      PROVE  Shaped(op'[p]) /\ Knows(op'[p], s)
  BY <1>4 DEF Rate, NoOp, Shaped, Fields, Knows, Past
<1>5. ASSUME NEW r \in Records, Prompt(p, r)
      PROVE  Shaped(op'[p]) /\ Knows(op'[p], s)
  BY <1>5 DEF Prompt, NoOp, Shaped, Fields, Knows, Past
<1> QED
  BY <1>1, <1>2, <1>3, <1>4, <1>5
  DEF Ask, Step, Truncate, Deliver, AcceptAnswers, CacheRecord, EndCache, CheckRecord,
      DropNetworkHits, ReadBlockedNames, ReadRecords, LoadPolicy, EndTargets,
      ResolveTarget, CheckRated, UpsertRelevance, Broadcast

\* An operation that ends, or a read that fails.
LEMMA MisreadKnows ==
    ASSUME NEW p \in Askers, DOMAIN op = Askers, Shaped(op[p]),
           NEW s, Knows(op[p], s), op[p].at \notin {"idle", "lists"},
           Finish(p) \/ Misread(p)
    PROVE  Shaped(op'[p]) /\ Knows(op'[p], s)
<1>1. CASE op'[p] = NoOp
  BY <1>1, NothingToKnow
<1>2. CASE op'[p] = [op[p] EXCEPT !.at = "show", !.hits = {}, !.kept = {}]
  BY <1>2 DEF Shaped, Fields, Knows, Past
<1> QED
  BY <1>1, <1>2 DEF Misread, Finish, Set

\* The lookup: the records, the three lists, the target of each record.
LEMMA LookupKnows ==
    ASSUME NEW p \in Askers, DOMAIN op = Askers, Shaped(op[p]),
           NEW s, Knows(op[p], s), Within(s, Now),
           \/ ReadRecords(p) \/ Truncate(p) \/ LoadPolicy(p) \/ EndTargets(p)
           \/ \E c \in op[p].hits : ResolveTarget(p, c)
    PROVE  Shaped(op'[p]) /\ Knows(op'[p], s)
<1> DEFINE o == op[p]
<1>o. ASSUME NEW new, Set(p, new)
      PROVE  op'[p] = new
  BY <1>o DEF Set
<1>1. CASE ReadRecords(p)
  <2>1. PICK found : \/ Set(p, [o EXCEPT !.at = "policy", !.list = 1, !.hits = found])
                     \/ Misread(p)
    BY <1>1 DEF ReadRecords
  <2>2. CASE Misread(p)
    BY <1>1, <2>2, MisreadKnows DEF ReadRecords, Step
  <2>3. CASE op'[p] = [o EXCEPT !.at = "policy", !.list = 1, !.hits = found]
    BY <1>1, <2>3 DEF ReadRecords, Step, Shaped, Fields, Knows, Past
  <2> QED
    BY <1>o, <2>1, <2>2, <2>3
<1>2. CASE Truncate(p)
  <2>1. PICK S \in SUBSET o.hits : op'[p] = [o EXCEPT !.hits = S]
    BY <1>2, <1>o DEF Truncate
  <2> QED
    BY <1>2, <2>1 DEF Truncate, Step, Shaped, Fields, Knows, Past
<1>3. CASE LoadPolicy(p)
  <2> DEFINE k == Lists[o.list]
             read == [o EXCEPT !.hits = Retained(@, k),
                               !.resources = IF k = "resource" THEN BlockedResources ELSE @]
  <2>1. CASE Misread(p)
    BY <1>3, <2>1, MisreadKnows DEF LoadPolicy, Step
  <2>2. CASE Set(p, IF o.list = 3 THEN [read EXCEPT !.at = "targets"]
                    ELSE [read EXCEPT !.list = @ + 1])
    <3>1. /\ o.at = "policy" /\ o.list \in {1, 2, 3}
          /\ Lists[1] = "name" /\ Lists[2] = "resource" /\ Lists[3] = "agent"
      BY <1>3 DEF LoadPolicy, Step, Lists, Shaped
    <3>2. /\ DOMAIN read = Fields
          /\ read.hits = Retained(o.hits, k)
          /\ read.resources = IF k = "resource" THEN BlockedResources ELSE o.resources
          /\ \A f \in Fields \ {"hits", "resources"} : read[f] = o[f]
      BY DEF Shaped, Fields
    <3> HIDE DEF read
    <3>3. /\ Shaped(read)
          /\ read.at = o.at /\ read.list = o.list /\ read.heard = o.heard
          /\ read.kept = o.kept /\ read.network = o.network /\ read.blind = o.blind
      BY <3>2 DEF Shaped, Fields
    \* What the list that was just read adds to what is known.
    <3>4. /\ o.list = 1 => \A c \in read.hits : c.rec \notin s.name
          /\ o.list > 1 => \A c \in read.hits : c \in o.hits
          /\ o.list = 2 => s.resource \subseteq read.resources
          /\ o.list = 3 => /\ read.resources = o.resources
                           /\ \A c \in read.hits : c.origin \notin s.agent
      BY <3>1, <3>2 DEF Retained, Within, Now, BlockedResources
    <3>5. CASE o.list = 3
      <4>1. op'[p] = [read EXCEPT !.at = "targets"]
        BY <1>o, <2>2, <3>5
      <4> QED
        BY <3>1, <3>3, <3>4, <3>5, <4>1 DEF Shaped, Fields, Knows, Past
    <3>6. CASE o.list \in {1, 2}
      <4>1. op'[p] = [read EXCEPT !.list = read.list + 1]
        BY <1>o, <2>2, <3>6
      <4>2. read.list + 1 \in 1 .. 3
        BY <3>3, <3>6
      <4> QED
        BY <3>1, <3>3, <3>4, <3>6, <4>1, <4>2 DEF Shaped, Fields, Knows, Past
    <3> QED
      BY <3>1, <3>5, <3>6
  <2> QED
    BY <1>3, <2>1, <2>2 DEF LoadPolicy
<1>4. CASE EndTargets(p)
  <2>1. op'[p] = Found(o) /\ o.at = "targets" /\ o.hits = {}
    BY <1>4, <1>o DEF EndTargets, Step
  <2>2. CASE o.kind = "respond" /\ ~o.gate
    <3>1. op'[p] = [o EXCEPT !.at = "policy", !.gate = TRUE, !.list = 1,
                             !.hits = o.kept, !.kept = {}, !.resources = {}]
      BY <2>1, <2>2 DEF Found
    <3> QED
      BY <2>1, <3>1 DEF Shaped, Fields, Knows, Past
  <2>3. CASE ~(o.kind = "respond" /\ ~o.gate)
    <3>1. op'[p] = [o EXCEPT !.at = IF o.kind = "respond" THEN "send" ELSE "show",
                             !.kept = {c \in @ : c.rec \notin o.names}]
      BY <2>1, <2>3 DEF Found
    <3> QED
      BY <2>1, <3>1 DEF Shaped, Fields, Knows, Past
  <2> QED
    BY <2>2, <2>3
<1>5. ASSUME NEW c \in o.hits, ResolveTarget(p, c)
      PROVE  Shaped(op'[p]) /\ Knows(op'[p], s)
  <2>1. CASE Misread(p)
    BY <1>5, <2>1, MisreadKnows DEF ResolveTarget, Step
  <2>2. ASSUME NEW id \in IF PointsAt(c.rec) = {} THEN {None} ELSE PointsAt(c.rec),
               Set(p, [o EXCEPT !.hits = @ \ {c},
                                !.kept = IF id \in o.resources THEN @ ELSE @ \cup {c}])
        PROVE  Shaped(op'[p]) /\ Knows(op'[p], s)
    <3> DEFINE kept == IF id \in o.resources THEN o.kept ELSE o.kept \cup {c}
    <3>1. op'[p] = [o EXCEPT !.hits = o.hits \ {c}, !.kept = kept]
      BY <1>o, <2>2 DEF Shaped, Fields
    <3>2. o.at = "targets"
      BY <1>5 DEF ResolveTarget, Step
    \* The resource that the claim has stood for all along is the one found.
    <3>3. \A i \in s.resource : <<c.rec, i>> \in s.target => i = id
      BY DEF Within, Now, StandsFor
    <3>4. id \notin o.resources => IsOpen(c, s)
      BY <3>2, <3>3 DEF Knows, Past, IsOpen
    <3>5. \A d \in kept : IsOpen(d, s)
      BY <3>4 DEF Knows
    <3> HIDE DEF kept
    <3> QED
      BY <3>1, <3>2, <3>5 DEF Shaped, Fields, Knows, Past
  <2> QED
    BY <1>5, <2>1, <2>2 DEF ResolveTarget
<1> QED
  BY <1>1, <1>2, <1>3, <1>4, <1>5

\* av resolve, up to the lookup on the cache.
LEMMA ResolveKnows ==
    ASSUME NEW p \in Askers, DOMAIN op = Askers, Shaped(op[p]),
           NEW s, Knows(op[p], s), Within(s, Now),
           \/ AcceptAnswers(p) \/ CacheRecord(p) \/ EndCache(p)
           \/ \E e \in op[p].heard : CheckRecord(p, e)
    PROVE  Shaped(op'[p]) /\ Knows(op'[p], s)
<1> DEFINE o == op[p]
<1>o. ASSUME NEW new, Set(p, new)
      PROVE  op'[p] = new
  BY <1>o DEF Set
<1>1. CASE AcceptAnswers(p)
  <2>1. PICK blind \in BOOLEAN, heard \in SUBSET Returns :
            /\ blind \/ \A e \in heard : e[1] \notin blocks["agent"]
            /\ op'[p] = [o EXCEPT !.at = "cache", !.heard = heard, !.blind = blind]
    BY <1>1, <1>o DEF AcceptAnswers
  <2>2. o.at = "accept" /\ o.network = {}
    BY <1>1 DEF AcceptAnswers, Step, Knows
  <2> QED
    BY <2>1, <2>2 DEF Shaped, Fields, Knows, Past, Within, Now
<1>2. CASE CacheRecord(p)
  <2>1. PICK heard \in SUBSET o.heard :
            op'[p] = [o EXCEPT !.at = "cache", !.hits = {}, !.heard = heard]
    BY <1>2, <1>o DEF CacheRecord, Shaped, Fields
  <2>2. o.at = "insert"
    BY <1>2 DEF CacheRecord, Step
  <2> QED
    BY <2>1, <2>2 DEF Shaped, Fields, Knows, Past
<1>3. CASE EndCache(p)
  <2>1. op'[p] = [o EXCEPT !.at = "records"] /\ o.at = "cache"
    BY <1>3, <1>o DEF EndCache, Lookup, Step
  <2> QED
    BY <2>1 DEF Shaped, Fields, Knows, Past
<1>4. ASSUME NEW e \in o.heard, CheckRecord(p, e)
      PROVE  Shaped(op'[p]) /\ Knows(op'[p], s)
  <2>1. o.at = "cache"
    BY <1>4 DEF CheckRecord, Step
  <2>2. CASE Misread(p)
    BY <2>1, <2>2, MisreadKnows
  <2>3. CASE op'[p] = [o EXCEPT !.heard = @ \ {e}]
    BY <2>1, <2>3 DEF Shaped, Fields, Knows, Past
  <2>4. CASE /\ e[2] \notin blocks["name"]
             /\ op'[p] = [o EXCEPT !.at = "insert",
                                   !.hits = {[rec |-> e[2], origin |-> e[1]]}]
    BY <2>1, <2>4 DEF Shaped, Fields, Knows, Past, Within, Now
  <2> QED
    BY <1>4, <1>o, <2>2, <2>3, <2>4 DEF CheckRecord
<1> QED
  BY <1>1, <1>2, <1>3, <1>4

\* The lists that a search reads itself, and a rating.
LEMMA SearchKnows ==
    ASSUME NEW p \in Askers, DOMAIN op = Askers, Shaped(op[p]),
           NEW s, Knows(op[p], s), Within(s, Now),
           \/ DropNetworkHits(p) \/ ReadBlockedNames(p) \/ Deliver(p)
           \/ CheckRated(p) \/ UpsertRelevance(p) \/ Broadcast(p)
    PROVE  Shaped(op'[p]) /\ Knows(op'[p], s)
<1> DEFINE o == op[p]
<1>o. ASSUME NEW new, Set(p, new)
      PROVE  op'[p] = new
  BY <1>o DEF Set
<1>1. CASE DropNetworkHits(p)
  <2>1. \/ op'[p] = [o EXCEPT !.at = "own_list", !.network = o.network \ BlockedResources]
        \/ op'[p] = [o EXCEPT !.at = "own_list", !.blind = TRUE]
    BY <1>1, <1>o DEF DropNetworkHits, Shaped, Fields
  <2>2. o.at = "lists" /\ s.resource \subseteq BlockedResources
    BY <1>1 DEF DropNetworkHits, Step, Within, Now, BlockedResources
  <2> QED
    BY <2>1, <2>2 DEF Shaped, Fields, Knows, Past
<1>2. CASE ReadBlockedNames(p)
  <2>1. \/ op'[p] = [[o EXCEPT !.names = blocks["name"]] EXCEPT !.at = "records"]
        \/ op'[p] = [o EXCEPT !.at = "records"]
    BY <1>2, <1>o DEF ReadBlockedNames, Lookup
  <2>2. o.at = "own_list"
    BY <1>2 DEF ReadBlockedNames, Step
  <2> QED
    BY <2>1, <2>2 DEF Shaped, Fields, Knows, Past
<1>3. CASE Deliver(p) \/ Broadcast(p)
  BY <1>3, MisreadKnows DEF Deliver, Broadcast, Step
<1>4. CASE CheckRated(p)
  <2>1. o.at = "check"
    BY <1>4 DEF CheckRated, Step
  <2>2. CASE Finish(p)
    BY <2>1, <2>2, MisreadKnows
  <2>3. CASE \/ op'[p] = [o EXCEPT !.at = "upsert"]
             \/ op'[p] = [o EXCEPT !.at = "upsert", !.blind = TRUE]
    BY <2>1, <2>3 DEF Shaped, Fields, Knows, Past
  <2> QED
    BY <1>4, <1>o, <2>2, <2>3 DEF CheckRated
<1>5. CASE UpsertRelevance(p)
  <2>1. o.at = "upsert"
    BY <1>5 DEF UpsertRelevance, Step
  <2>2. CASE Misread(p)
    BY <2>1, <2>2, MisreadKnows
  <2>3. CASE op'[p] = [o EXCEPT !.at = "claim"]
    BY <2>1, <2>3 DEF Shaped, Fields, Knows, Past
  <2> QED
    BY <1>5, <1>o, <2>2, <2>3 DEF UpsertRelevance
<1> QED
  BY <1>1, <1>2, <1>3, <1>4, <1>5

\* Any step of an asker in the middle of an operation.
LEMMA AskKnows ==
    ASSUME NEW p \in Askers, DOMAIN op = Askers, Shaped(op[p]), op[p].at # "idle",
           NEW s, Knows(op[p], s), Within(s, Now), Ask(p)
    PROVE  Shaped(op'[p]) /\ Knows(op'[p], s)
BY LookupKnows, ResolveKnows, SearchKnows
DEF Ask, RespondToName, Resolve, Search, Rate, Prompt, Step

\* It leaves the other askers, and what the history looks at, alone.
LEMMA AskKeepsOthers ==
    ASSUME NEW p \in Askers, DOMAIN op = Askers, Ask(p)
    PROVE  /\ DOMAIN op' = Askers
           /\ \A q \in Askers : q # p => op'[q] = op[q]
<1>1. \E new : op' = [op EXCEPT ![p] = new]
  BY DEF Ask, Set, Finish, Misread, RespondToName, Truncate, Deliver, Resolve,
         AcceptAnswers, CacheRecord, EndCache, CheckRecord, Search, DropNetworkHits,
         ReadBlockedNames, ReadRecords, LoadPolicy, EndTargets, ResolveTarget, Rate,
         Prompt, CheckRated, UpsertRelevance, Broadcast
<1> QED
  BY <1>1

-----------------------------------------------------------------------------
LEMMA NamesStep == NamesInv /\ [NamesNext]_<<vars, namesVars>> => NamesInv'
<1> SUFFICES ASSUME NamesInv, [NamesNext]_<<vars, namesVars>>
             PROVE  NamesInv'
  OBVIOUS
\* It suffices that each operation knows what it did of the old history.
<1>s. ASSUME Remember, DOMAIN op' = Askers,
             \A p \in Askers :
                /\ Shaped(op'[p])
                /\ IF op[p].at = "idle" THEN \A s : Knows(op'[p], s)
                   ELSE Knows(op'[p], steady[p])
      PROVE  NamesInv'
  <2> SUFFICES ASSUME NEW p \in Askers
               PROVE  Within(steady[p], Now)' /\ Knows(op'[p], steady'[p])
    BY <1>s DEF NamesInv
  <2>1. Within(steady[p], Now)'
    BY <1>s, HistoryShrinks
  <2>2. CASE op[p].at = "idle"
    BY <1>s, <2>1, <2>2
  <2>3. CASE op[p].at # "idle" /\ op'[p].at # "idle"
    BY <1>s, <2>1, <2>3, HistoryShrinks, KnowsOfLess
  <2>4. CASE op[p].at # "idle" /\ op'[p].at = "idle"
    BY <1>s, <2>1, <2>4 DEF Knows, Past
  <2> QED
    BY <2>1, <2>2, <2>3, <2>4
<1>1. ASSUME NEW p \in Askers, Ask(p), Remember
      PROVE  NamesInv'
  <2>1. \A q \in Askers \ {p} : op'[q] = op[q]
    BY <1>1, AskKeepsOthers DEF NamesInv
  <2>2. DOMAIN op' = Askers
    BY <1>1, AskKeepsOthers DEF NamesInv
  <2>3. CASE op[p].at = "idle"
    BY <1>1, <1>s, <2>1, <2>2, <2>3, StartKnows, IdleKnows DEF NamesInv
  <2>4. CASE op[p].at # "idle"
    BY <1>1, <1>s, <2>1, <2>2, <2>4, AskKnows, IdleKnows DEF NamesInv
  <2> QED
    BY <2>3, <2>4
<1>2. CASE UNCHANGED op /\ Remember
  BY <1>2, <1>s, IdleKnows DEF NamesInv
<1>3. CASE UNCHANGED <<vars, namesVars>>
  BY <1>3 DEF NamesInv, vars, tables, namesVars, Now, StandsFor, PointsAt, RowsAt, Held
<1> QED
  BY <1>1, <1>2, <1>3 DEF NamesNext, NameIt, CachedElsewhere

LEMMA NamesInitially == NamesInit => NamesInv
BY NothingToKnow DEF NamesInit, NamesInv, Within, Now

(***************************************************************************)
(* Names: no claim is served, shown or printed that has been blocked since *)
(* the operation began, by its id, its agent or the resource it stands     *)
(* for; nothing suppressed is cached again; and what only a peer knows is  *)
(* shown only if it is open.  For any number of askers and moderators,     *)
(* whatever is blocked, unblocked, cached or deleted between two reads,    *)
(* and whichever reads fail.                                               *)
(***************************************************************************)
THEOREM ServedNamesAreOpen == NamesSpec => []ServedIsOpen
<1>1. NamesInv => ServedIsOpen
  BY DEF NamesInv, Knows, ServedIsOpen
<1> QED
  BY <1>1, NamesInitially, NamesStep, PTL DEF NamesSpec

\* Resolving never brings back what is suppressed.
THEOREM CachedNamesAreOpen == NamesSpec => []CachedIsOpen
<1>1. NamesInv => CachedIsOpen
  BY DEF NamesInv, Knows, CachedIsOpen, Step
<1> QED
  BY <1>1, NamesInitially, NamesStep, PTL DEF NamesSpec

\* The one filter that network hits meet is enough.
THEOREM NetworkHitsStayOpen == NamesSpec => []NetworkHitsAreOpen
<1>1. NamesInv => NetworkHitsAreOpen
  BY DEF NamesInv, Knows, NetworkHitsAreOpen, Step
<1> QED
  BY <1>1, NamesInitially, NamesStep, PTL DEF NamesSpec
-----------------------------------------------------------------------------
(* Type correctness                                                        *)

\* The steps that are about one record.
Rating == {"check", "upsert", "claim"}

\* An operation of an asker between two reads: it is about one record exactly
\* while it rates one.
OpTyped(o) ==
    /\ o \in OpState
    /\ o.at \in Rating <=> o.rec # None

\* NamesTypeOK with the types of AvStore's own half, and what an operation copies
\* from it: a name is blocked by the id of a record.
NamesTyped ==
    /\ TypeOK
    /\ blocks["name"] \subseteq Records
    /\ origin \in [Records -> Agents \cup {None}]
    /\ op \in [Askers -> OpState]
    /\ \A p \in Askers : OpTyped(op[p])
    /\ \A p \in Askers : steady[p].target \subseteq Records \X Ids

\* The asker that goes on.
Sets(p) == \E o : Set(p, o) /\ OpTyped(o)

\* Between two operations.
LEMMA NoOpTyped ==
    /\ OpTyped(NoOp)
    /\ NoOp \in OpState
    /\ NoOp.at = "idle" /\ NoOp.rec = None
BY DEF OpTyped, NoOp, OpState, AskSteps, AskKinds, Rating

\* The steps and kinds by name.
LEMMA KnownSteps ==
    /\ "accept" \in AskSteps /\ "cache" \in AskSteps /\ "insert" \in AskSteps
    /\ "lists" \in AskSteps /\ "own_list" \in AskSteps /\ "records" \in AskSteps
    /\ "policy" \in AskSteps /\ "targets" \in AskSteps /\ "show" \in AskSteps
    /\ "send" \in AskSteps /\ "check" \in AskSteps /\ "upsert" \in AskSteps
    /\ "claim" \in AskSteps
    /\ "respond" \in AskKinds /\ "resolve" \in AskKinds /\ "search" \in AskKinds
    /\ "rate" \in AskKinds /\ "prompt" \in AskKinds
BY DEF AskSteps, AskKinds

\* A step that does not begin or end a rating.
LEMMA GoesOnUntilRated ==
    ASSUME NEW p \in Askers, OpTyped(op[p]), op[p].at \notin Rating,
           NEW new \in OpState, Set(p, new), new.at \notin Rating, new.rec = op[p].rec
    PROVE  Sets(p)
BY DEF OpTyped, Sets

\* What begins an operation.
LEMMA StartTyped ==
    ASSUME NEW p \in Askers,
           \/ RespondToName(p) \/ Resolve(p) \/ Search(p)
           \/ \E r \in Records : Rate(p, r) \/ Prompt(p, r)
    PROVE  Sets(p)
<1>n. None \notin Records
  BY NoneIsNoSubject
<1>1. CASE RespondToName(p)
  <2> DEFINE new == [NoOp EXCEPT !.kind = "respond", !.at = "records"]
  <2>1. new \in OpState /\ new.at = "records" /\ new.rec = None
    BY NoOpTyped, KnownSteps DEF OpState
  <2>2. Set(p, new)
    BY <1>1 DEF RespondToName, Lookup
  <2> HIDE DEF new
  <2> QED
    BY <2>1, <2>2 DEF OpTyped, Sets, Rating
<1>2. CASE Resolve(p)
  <2> DEFINE new == [NoOp EXCEPT !.at = "accept", !.kind = "resolve"]
  <2>1. new \in OpState /\ new.at = "accept" /\ new.rec = None
    BY NoOpTyped, KnownSteps DEF OpState
  <2>2. Set(p, new)
    BY <1>2 DEF Resolve
  <2> HIDE DEF new
  <2> QED
    BY <2>1, <2>2 DEF OpTyped, Sets, Rating
<1>3. CASE Search(p)
  <2>1. PICK found \in SUBSET Ids :
            Set(p, [NoOp EXCEPT !.at = "lists", !.kind = "search", !.network = found])
    BY <1>3 DEF Search
  <2> DEFINE new == [NoOp EXCEPT !.at = "lists", !.kind = "search", !.network = found]
  <2>2. new \in OpState /\ new.at = "lists" /\ new.rec = None
    BY NoOpTyped, KnownSteps DEF OpState
  <2>3. Set(p, new)
    BY <2>1
  <2> HIDE DEF new
  <2> QED
    BY <2>2, <2>3 DEF OpTyped, Sets, Rating
<1>4. ASSUME NEW r \in Records, Rate(p, r)
      PROVE  Sets(p)
  <2> DEFINE new == [NoOp EXCEPT !.at = "check", !.kind = "rate", !.rec = r]
  <2>1. new \in OpState /\ new.at = "check" /\ new.rec = r
    BY NoOpTyped, KnownSteps DEF OpState
  <2>2. Set(p, new)
    BY <1>4 DEF Rate
  <2> HIDE DEF new
  <2> QED
    BY <1>n, <2>1, <2>2 DEF OpTyped, Sets, Rating
<1>5. ASSUME NEW r \in Records, Prompt(p, r)
      PROVE  Sets(p)
  <2> DEFINE new == [NoOp EXCEPT !.at = "upsert", !.kind = "prompt", !.rec = r]
  <2>1. new \in OpState /\ new.at = "upsert" /\ new.rec = r
    BY NoOpTyped, KnownSteps DEF OpState
  <2>2. Set(p, new)
    BY <1>5 DEF Prompt
  <2> HIDE DEF new
  <2> QED
    BY <1>n, <2>1, <2>2 DEF OpTyped, Sets, Rating
<1> QED
  BY <1>1, <1>2, <1>3, <1>4, <1>5

\* A read that fails: a search, which is never about one record, goes on with
\* nothing.
LEMMA MisreadTyped ==
    ASSUME NEW p \in Askers, OpTyped(op[p]),
           Finish(p) \/ (Misread(p) /\ (op[p].kind = "search" => op[p].at \notin Rating))
    PROVE  Sets(p)
<1>1. CASE Finish(p)
  BY <1>1, NoOpTyped DEF Finish, Sets
<1>2. CASE /\ Set(p, [op[p] EXCEPT !.at = "show", !.hits = {}, !.kept = {}])
           /\ op[p].at \notin Rating
  <2> DEFINE new == [op[p] EXCEPT !.at = "show", !.hits = {}, !.kept = {}]
  <2>1. new \in OpState /\ new.at = "show" /\ new.rec = op[p].rec
    BY KnownSteps DEF OpTyped, OpState
  <2>2. Set(p, new)
    BY <1>2
  <2> HIDE DEF new
  <2> QED
    BY <1>2, <2>1, <2>2, GoesOnUntilRated DEF Rating
<1> QED
  BY <1>1, <1>2 DEF Misread

\* The lookup.
LEMMA LookupTyped ==
    ASSUME NamesTyped, NEW p \in Askers,
           \/ ReadRecords(p) \/ Truncate(p) \/ LoadPolicy(p) \/ EndTargets(p)
           \/ \E c \in op[p].hits : ResolveTarget(p, c)
    PROVE  Sets(p)
<1>o. op[p] \in OpState /\ OpTyped(op[p])
  BY DEF NamesTyped
<1>h. /\ op[p].hits \subseteq Claim /\ op[p].kept \subseteq Claim
      /\ op[p].resources \subseteq Ids /\ op[p].list \in 1 .. 3
  BY <1>o DEF OpState
<1>1. CASE ReadRecords(p)
  <2> DEFINE found == {[rec |-> r, origin |-> origin[r]] :
                          r \in {s \in Records : names[s] # {}}}
             new == [op[p] EXCEPT !.at = "policy", !.list = 1, !.hits = found]
  <2>1. found \in SUBSET Claim
    BY DEF NamesTyped, Claim
  <2>2. op[p].at \notin Rating
    BY <1>1 DEF ReadRecords, Step, Rating
  <2>3. Set(p, new) \/ Misread(p)
    BY <1>1 DEF ReadRecords
  <2> HIDE DEF found
  <2>4. new \in OpState /\ new.at = "policy" /\ new.rec = op[p].rec
    <3>1. 1 \in 1 .. 3 /\ "policy" \in AskSteps
      BY KnownSteps
    <3>2. new \in OpState
      BY <1>o, <2>1, <3>1 DEF OpState
    <3>3. new.at = "policy" /\ new.rec = op[p].rec
      BY <1>o DEF OpState
    <3> QED
      BY <3>2, <3>3
  <2> HIDE DEF new
  <2> QED
    BY <1>o, <2>2, <2>3, <2>4, GoesOnUntilRated, MisreadTyped DEF Rating
<1>2. CASE Truncate(p)
  <2>1. PICK S \in SUBSET op[p].hits : Set(p, [op[p] EXCEPT !.hits = S])
    BY <1>2 DEF Truncate
  <2> DEFINE new == [op[p] EXCEPT !.hits = S]
  <2>2. S \in SUBSET Claim
    BY <1>h
  <2>3. new \in OpState /\ new.at = op[p].at /\ new.rec = op[p].rec
    BY <1>o, <2>2 DEF OpState
  <2>4. op[p].at \notin Rating
    BY <1>2 DEF Truncate, Step, Rating
  <2>5. Set(p, new)
    BY <2>1
  <2> HIDE DEF new
  <2> QED
    BY <1>o, <2>3, <2>4, <2>5, GoesOnUntilRated
<1>3. CASE LoadPolicy(p)
  <2> DEFINE k == Lists[op[p].list]
             hits == Retained(op[p].hits, k)
             ids == IF k = "resource" THEN BlockedResources ELSE op[p].resources
             read == [op[p] EXCEPT !.hits = hits, !.resources = ids]
             last == [read EXCEPT !.at = "targets"]
             next == [read EXCEPT !.list = op[p].list + 1]
  <2>1. k \in {"name", "resource", "agent"}
    BY <1>h DEF Lists
  <2>2. op[p].at \notin Rating
    BY <1>3 DEF LoadPolicy, Step, Rating
  <2>3. \/ op[p].list = 3 /\ Set(p, last)
        \/ op[p].list # 3 /\ Set(p, next)
        \/ Misread(p)
    <3>1. next = [read EXCEPT !.list = @ + 1]
      BY <1>o DEF OpState
    <3> QED
      BY <1>3, <3>1 DEF LoadPolicy
  <2>4. ids \in SUBSET Ids
    BY <1>h DEF NamesTyped, TypeOK, TablesOK, BlockedResources
  <2> HIDE DEF k
  <2>5. hits \in SUBSET Claim
    BY <1>h, <2>1 DEF Retained
  <2> HIDE DEF hits, ids
  <2>6. read \in OpState /\ read.at = op[p].at /\ read.rec = op[p].rec
    BY <1>o, <2>4, <2>5 DEF OpState
  <2> HIDE DEF read
  <2>7. last \in OpState /\ last.at = "targets" /\ last.rec = op[p].rec
    BY <2>6, KnownSteps DEF OpState
  <2>8. op[p].list # 3 =>
            next \in OpState /\ next.at = op[p].at /\ next.rec = op[p].rec
    <3>1. op[p].list # 3 => op[p].list + 1 \in 1 .. 3
      BY <1>h
    <3> QED
      BY <2>6, <3>1 DEF OpState
  <2> HIDE DEF last, next
  <2> QED
    BY <1>o, <2>2, <2>3, <2>7, <2>8, GoesOnUntilRated, MisreadTyped DEF Rating
<1>4. CASE EndTargets(p)
  <2>1. op[p].at \notin Rating /\ Set(p, Found(op[p]))
    BY <1>4 DEF EndTargets, Step, Rating
  <2>2. CASE op[p].kind = "respond" /\ ~op[p].gate
    <3> DEFINE hits == op[p].kept
               mid == [op[p] EXCEPT !.at = "policy", !.gate = TRUE, !.list = 1]
               new == [mid EXCEPT !.hits = hits, !.kept = {}, !.resources = {}]
    <3>1. Set(p, new)
      BY <2>1, <2>2 DEF Found
    <3>2. hits \in SUBSET Claim /\ {} \in SUBSET Claim /\ {} \in SUBSET Ids
      BY <1>h
    <3> HIDE DEF hits
    <3>3. 1 \in 1 .. 3 /\ "policy" \in AskSteps
      BY KnownSteps
    <3>4. mid \in OpState
      BY <1>o, <3>3 DEF OpState
    <3>5. mid.at = "policy" /\ mid.rec = op[p].rec
      BY <1>o DEF OpState
    <3> HIDE DEF mid
    <3>6. new \in OpState
      BY <3>2, <3>4 DEF OpState
    <3>7. new.at = "policy" /\ new.rec = op[p].rec
      BY <3>4, <3>5 DEF OpState
    <3> HIDE DEF new
    <3> QED
      BY <1>o, <2>1, <3>1, <3>6, <3>7, GoesOnUntilRated DEF Rating
  <2>3. CASE ~(op[p].kind = "respond" /\ ~op[p].gate)
    <3> DEFINE at == IF op[p].kind = "respond" THEN "send" ELSE "show"
               kept == {c \in op[p].kept : c.rec \notin op[p].names}
               new == [op[p] EXCEPT !.at = at, !.kept = kept]
    <3>1. Set(p, new)
      <4>1. new = [op[p] EXCEPT !.at = at,
                                !.kept = {c \in @ : c.rec \notin op[p].names}]
        BY <1>o DEF OpState
      <4> QED
        BY <2>1, <2>3, <4>1 DEF Found
    <3>2. kept \in SUBSET Claim /\ at \in AskSteps /\ at \notin Rating
      BY <1>h, KnownSteps DEF Rating
    <3> HIDE DEF kept, at
    <3>3. new \in OpState /\ new.at = at /\ new.rec = op[p].rec
      BY <1>o, <3>2 DEF OpState
    <3> HIDE DEF new
    <3> QED
      BY <1>o, <2>1, <3>1, <3>2, <3>3, GoesOnUntilRated
  <2> QED
    BY <2>2, <2>3
<1>5. ASSUME NEW c \in op[p].hits, ResolveTarget(p, c)
      PROVE  Sets(p)
  <2> DEFINE hits == op[p].hits \ {c}
             New(kept) == [op[p] EXCEPT !.hits = hits, !.kept = kept]
  <2>1. op[p].at \notin Rating
    BY <1>5 DEF ResolveTarget, Step, Rating
  <2>2. \/ Set(p, New(op[p].kept))
        \/ Set(p, New(op[p].kept \cup {c}))
        \/ Misread(p)
    BY <1>5, <1>o DEF ResolveTarget, OpState
  <2>3. hits \in SUBSET Claim /\ op[p].kept \cup {c} \in SUBSET Claim
        /\ op[p].kept \in SUBSET Claim
    BY <1>h
  <2> HIDE DEF hits
  <2>4. ASSUME NEW kept \in SUBSET Claim, Set(p, New(kept))
        PROVE  Sets(p)
    <3> DEFINE new == New(kept)
    <3>1. new \in OpState /\ new.at = op[p].at /\ new.rec = op[p].rec
      BY <1>o, <2>3 DEF OpState
    <3>2. Set(p, new)
      BY <2>4
    <3> HIDE DEF new
    <3> QED
      BY <1>o, <2>1, <3>1, <3>2, GoesOnUntilRated
  <2> HIDE DEF New
  <2> QED
    BY <1>o, <2>1, <2>2, <2>3, <2>4, MisreadTyped
<1> QED
  BY <1>1, <1>2, <1>3, <1>4, <1>5

\* The answers of the peers, one record after the other.
LEMMA ResolveTyped ==
    ASSUME NamesTyped, NEW p \in Askers,
           \/ AcceptAnswers(p) \/ CacheRecord(p) \/ EndCache(p)
           \/ \E e \in op[p].heard : CheckRecord(p, e)
    PROVE  Sets(p)
<1>o. op[p] \in OpState /\ OpTyped(op[p])
  BY DEF NamesTyped
<1>h. op[p].heard \subseteq Agents \X Records /\ op[p].hits \subseteq Claim
  BY <1>o DEF OpState
<1>a. op[p].at \notin Rating
  BY DEF AcceptAnswers, CacheRecord, EndCache, CheckRecord, Step, Rating
<1>1. CASE AcceptAnswers(p)
  <2>1. PICK blind \in BOOLEAN, heard \in SUBSET Returns :
            Set(p, [op[p] EXCEPT !.at = "cache", !.heard = heard, !.blind = blind])
    BY <1>1 DEF AcceptAnswers
  <2> DEFINE new == [op[p] EXCEPT !.at = "cache", !.heard = heard, !.blind = blind]
  <2>2. heard \in SUBSET (Agents \X Records)
    BY ReturnsAssumption
  <2>3. new \in OpState
    BY <1>o, <2>2, KnownSteps DEF OpState
  <2>4. new.at = "cache" /\ new.rec = op[p].rec
    BY <1>o DEF OpState
  <2>5. Set(p, new)
    BY <2>1
  <2> HIDE DEF new
  <2> QED
    BY <1>o, <1>a, <2>3, <2>4, <2>5, GoesOnUntilRated DEF Rating
<1>2. CASE CacheRecord(p)
  <2>1. PICK c \in op[p].hits :
            Set(p, [op[p] EXCEPT !.at = "cache", !.hits = {},
                                 !.heard = @ \ {<<c.origin, c.rec>>}])
    BY <1>2 DEF CacheRecord
  <2> DEFINE heard == op[p].heard \ {<<c.origin, c.rec>>}
             new == [op[p] EXCEPT !.at = "cache", !.hits = {}, !.heard = heard]
  <2>2. Set(p, new)
    BY <1>o, <2>1 DEF OpState
  <2>3. heard \in SUBSET (Agents \X Records) /\ {} \in SUBSET Claim
    BY <1>h
  <2> HIDE DEF heard
  <2>4. new \in OpState
    BY <1>o, <2>3, KnownSteps DEF OpState
  <2>5. new.at = "cache" /\ new.rec = op[p].rec
    BY <1>o DEF OpState
  <2> HIDE DEF new
  <2> QED
    BY <1>o, <1>a, <2>2, <2>4, <2>5, GoesOnUntilRated DEF Rating
<1>3. CASE EndCache(p)
  <2> DEFINE new == [op[p] EXCEPT !.at = "records"]
  <2>1. Set(p, new)
    BY <1>3 DEF EndCache, Lookup
  <2>2. new \in OpState /\ new.at = "records" /\ new.rec = op[p].rec
    BY <1>o, KnownSteps DEF OpState
  <2> HIDE DEF new
  <2> QED
    BY <1>o, <1>a, <2>1, <2>2, GoesOnUntilRated DEF Rating
<1>4. ASSUME NEW e \in op[p].heard, CheckRecord(p, e)
      PROVE  Sets(p)
  <2> DEFINE heard == op[p].heard \ {e}
             hits == {[rec |-> e[2], origin |-> e[1]]}
             skip == [op[p] EXCEPT !.heard = heard]
             keep == [op[p] EXCEPT !.at = "insert", !.hits = hits]
  <2>1. Set(p, skip) \/ Set(p, keep) \/ Misread(p)
    BY <1>4, <1>o DEF CheckRecord, OpState
  <2>2. heard \in SUBSET (Agents \X Records) /\ hits \in SUBSET Claim
    BY <1>h DEF Claim
  <2> HIDE DEF heard, hits
  <2>3. skip \in OpState /\ skip.at = op[p].at /\ skip.rec = op[p].rec
    BY <1>o, <2>2 DEF OpState
  <2>4. keep \in OpState
    BY <1>o, <2>2, KnownSteps DEF OpState
  <2>5. keep.at = "insert" /\ keep.rec = op[p].rec
    BY <1>o DEF OpState
  <2> HIDE DEF skip, keep
  <2> QED
    BY <1>o, <1>a, <2>1, <2>3, <2>4, <2>5, GoesOnUntilRated, MisreadTyped DEF Rating
<1> QED
  BY <1>1, <1>2, <1>3, <1>4

\* The two lists of a search, a rating, and what leaves.
LEMMA OtherStepsTyped ==
    ASSUME NamesTyped, NEW p \in Askers,
           \/ DropNetworkHits(p) \/ ReadBlockedNames(p)
           \/ CheckRated(p) \/ UpsertRelevance(p) \/ Broadcast(p) \/ Deliver(p)
    PROVE  Sets(p)
<1>o. op[p] \in OpState /\ OpTyped(op[p])
  BY DEF NamesTyped
<1>1. CASE DropNetworkHits(p)
  <2> DEFINE network == op[p].network \ BlockedResources
             read == [op[p] EXCEPT !.at = "own_list", !.network = network]
             blind == [op[p] EXCEPT !.at = "own_list", !.blind = TRUE]
  <2>1. Set(p, read) \/ Set(p, blind)
    BY <1>1, <1>o DEF DropNetworkHits, OpState
  <2>2. network \in SUBSET Ids
    BY <1>o DEF OpState
  <2> HIDE DEF network
  <2>3. read \in OpState /\ read.at = "own_list" /\ read.rec = op[p].rec
    BY <1>o, <2>2, KnownSteps DEF OpState
  <2>4. blind \in OpState /\ blind.at = "own_list" /\ blind.rec = op[p].rec
    BY <1>o, KnownSteps DEF OpState
  <2>5. op[p].at \notin Rating
    BY <1>1 DEF DropNetworkHits, Step, Rating
  <2> HIDE DEF read, blind
  <2> QED
    BY <1>o, <2>1, <2>3, <2>4, <2>5, GoesOnUntilRated DEF Rating
<1>2. CASE ReadBlockedNames(p)
  <2> DEFINE list == blocks["name"]
             read == [op[p] EXCEPT !.names = list, !.at = "records"]
             blind == [op[p] EXCEPT !.at = "records"]
  <2>1. Set(p, read) \/ Set(p, blind)
    BY <1>2 DEF ReadBlockedNames, Lookup
  <2>2. list \in SUBSET Records
    BY DEF NamesTyped
  <2> HIDE DEF list
  <2>3. read \in OpState /\ read.at = "records" /\ read.rec = op[p].rec
    BY <1>o, <2>2, KnownSteps DEF OpState
  <2>4. blind \in OpState /\ blind.at = "records" /\ blind.rec = op[p].rec
    BY <1>o, KnownSteps DEF OpState
  <2>5. op[p].at \notin Rating
    BY <1>2 DEF ReadBlockedNames, Step, Rating
  <2> HIDE DEF read, blind
  <2> QED
    BY <1>o, <2>1, <2>3, <2>4, <2>5, GoesOnUntilRated DEF Rating
<1>3. CASE CheckRated(p)
  <2> DEFINE read == [op[p] EXCEPT !.at = "upsert"]
             blind == [op[p] EXCEPT !.at = "upsert", !.blind = TRUE]
  <2>1. Finish(p) \/ Set(p, read) \/ Set(p, blind)
    BY <1>3 DEF CheckRated
  <2>2. read \in OpState /\ read.at = "upsert" /\ read.rec = op[p].rec
    BY <1>o, KnownSteps DEF OpState
  <2>3. blind \in OpState /\ blind.at = "upsert" /\ blind.rec = op[p].rec
    BY <1>o, KnownSteps DEF OpState
  <2>4. op[p].rec # None
    BY <1>3, <1>o DEF CheckRated, Step, Rating, OpTyped
  <2> HIDE DEF read, blind
  <2>5. OpTyped(read) /\ OpTyped(blind)
    BY <2>2, <2>3, <2>4 DEF OpTyped, Rating
  <2> QED
    BY <1>o, <2>1, <2>5, MisreadTyped DEF Sets
<1>4. CASE UpsertRelevance(p)
  <2> DEFINE new == [op[p] EXCEPT !.at = "claim"]
  <2>1. Set(p, new) \/ (op[p].kind = "rate" /\ Misread(p))
    BY <1>4 DEF UpsertRelevance
  <2>2. new \in OpState /\ new.at = "claim" /\ new.rec = op[p].rec
    BY <1>o, KnownSteps DEF OpState
  <2>3. op[p].rec # None
    BY <1>4, <1>o DEF UpsertRelevance, Step, Rating, OpTyped
  <2> HIDE DEF new
  <2>4. OpTyped(new)
    BY <2>2, <2>3 DEF OpTyped, Rating
  <2> QED
    BY <1>o, <2>1, <2>4, MisreadTyped DEF Sets
<1>5. CASE Broadcast(p) \/ Deliver(p)
  BY <1>5, <1>o, MisreadTyped DEF Broadcast, Deliver
<1> QED
  BY <1>1, <1>2, <1>3, <1>4, <1>5

\* Every step of an asker leaves it typed.
LEMMA AskTyped ==
    ASSUME NamesTyped, NEW p \in Askers, Ask(p)
    PROVE  Sets(p)
BY StartTyped, LookupTyped, ResolveTyped, OtherStepsTyped DEF Ask

\* What it writes to the tables: at most the row of one record and its origin.
LEMMA InsertTyped ==
    ASSUME NamesTyped, NEW r \in Records, NEW from \in Agents \cup {None},
           InsertWithOrigin(r, from), UNCHANGED <<resources, embedded, blocks, blockedLocs, proc>>
    PROVE  /\ TypeOK' /\ blocks'["name"] \subseteq Records
           /\ origin' \in [Records -> Agents \cup {None}]
<1>1. Target[r] \in Locs /\ Canon[Target[r]] \in Locs
  BY TargetAssumption, CanonAssumption
<1>2. names' \in [Records -> SUBSET Locs]
  BY <1>1 DEF InsertWithOrigin, NamesTyped, TypeOK, TablesOK
<1>3. TablesTyped'
  BY <1>2, ResourceWritesTyped DEF NamesTyped, TypeOK, TablesTyped
<1>4. TypeOK'
  BY <1>3 DEF NamesTyped, TypeOK, TablesTyped
<1>5. origin' \in [Records -> Agents \cup {None}]
  BY DEF InsertWithOrigin, NamesTyped
<1> QED
  BY <1>4, <1>5 DEF NamesTyped

\* An asker leaves the database typed.
LEMMA AskTables ==
    ASSUME NamesTyped, NEW p \in Askers, Ask(p)
    PROVE  /\ TypeOK' /\ blocks'["name"] \subseteq Records
           /\ origin' \in [Records -> Agents \cup {None}]
<1>1. CASE UNCHANGED <<tables, proc, origin>>
  <2>1. TablesTyped'
    BY <1>1, TablesUnchanged DEF NamesTyped, TypeOK, TablesTyped
  <2> QED
    BY <1>1, <2>1 DEF NamesTyped, TypeOK, TablesTyped, tables
<1>2. CASE CacheRecord(p)
  <2>1. PICK c \in op[p].hits :
            InsertWithOrigin(c.rec, c.origin) \/ UNCHANGED <<names, origin>>
    BY <1>2 DEF CacheRecord
  <2>2. c.rec \in Records /\ c.origin \in Agents \cup {None}
    BY DEF NamesTyped, OpState, Claim
  <2>3. CASE UNCHANGED <<names, origin>>
    BY <1>1, <1>2, <2>3 DEF CacheRecord, tables
  <2> QED
    BY <1>2, <2>1, <2>2, <2>3, InsertTyped DEF CacheRecord
<1>3. ~CacheRecord(p) => UNCHANGED <<tables, proc, origin>>
  BY DEF Ask, RespondToName, Truncate, Deliver, Resolve, AcceptAnswers, EndCache, CheckRecord,
         Search, DropNetworkHits, ReadBlockedNames, ReadRecords, LoadPolicy, EndTargets,
         ResolveTarget, Rate, Prompt, CheckRated, UpsertRelevance, Broadcast
<1> QED
  BY <1>1, <1>2, <1>3

\* A moderator blocks a name by the id of a record.
LEMMA ModerateNames ==
    ASSUME TypeOK, blocks["name"] \subseteq Records, NEW m \in Moderators, Moderate(m)
    PROVE  blocks'["name"] \subseteq Records
<1>k. blocks \in [Kinds -> SUBSET (Ids \cup Records \cup Agents)] /\ "name" \in Kinds
  BY DEF TypeOK, TablesOK, Kinds
<1>1. CASE UNCHANGED blocks
  BY <1>1
<1>2. ASSUME NEW k \in Kinds, NEW s, k = "name" => s \in Records,
             AddBlock(k, s) \/ RemoveBlock(k, s)
      PROVE  blocks'["name"] \subseteq Records
  BY <1>2, <1>k DEF AddBlock, RemoveBlock
<1>3. ASSUME NEW ks \in SUBSET Kinds, ClearBlocks(ks)
      PROVE  blocks'["name"] \subseteq Records
  BY <1>3, <1>k DEF ClearBlocks
<1>4. CASE \E k \in Kinds \ {"resource"} :
              \/ ClearOther(m, k)
              \/ \E s \in SubjectsOf[k] : BlockOther(m, k, s) \/ UnblockOther(m, k, s)
  <2>1. PICK k \in Kinds \ {"resource"} :
              \/ ClearOther(m, k)
              \/ \E s \in SubjectsOf[k] : BlockOther(m, k, s) \/ UnblockOther(m, k, s)
    BY <1>4
  <2>2. CASE ClearOther(m, k)
    BY <1>3, <2>2 DEF ClearOther
  <2>3. ASSUME NEW s \in SubjectsOf[k], BlockOther(m, k, s) \/ UnblockOther(m, k, s)
        PROVE  blocks'["name"] \subseteq Records
    <3>1. k = "name" => s \in Records
      BY DEF SubjectsOf
    <3> QED
      BY <1>2, <2>3, <3>1 DEF BlockOther, UnblockOther
  <2> QED
    BY <2>1, <2>2, <2>3
<1>5. CASE \E i \in Ids, keep \in BOOLEAN : Block(m, i, keep)
  BY <1>2, <1>5 DEF Block, Kinds
<1>6. CASE Remove(m)
  BY <1>2, <1>6 DEF Remove, Kinds
<1>7. CASE ClearResourceBlocks(m) \/ ClearAllBlocks(m)
  BY <1>3, <1>7 DEF ClearResourceBlocks, ClearAllBlocks, Kinds
<1>8. CASE \/ ReadSpellings(m) \/ RecordSpelling(m) \/ DropLocalCopy(m) \/ KeepLocalCopy(m)
           \/ \E i \in Ids : Unblock(m, i)
           \/ ClearResources(m) \/ ForgetEach(m) \/ ForgetAll(m)
  BY <1>1, <1>8 DEF ReadSpellings, RecordSpelling, DropLocalCopy, KeepLocalCopy, Unblock,
     ClearResources, ForgetEach, ForgetAll, tables
<1> QED
  BY <1>4, <1>5, <1>6, <1>7, <1>8 DEF Moderate

\* Every step.
LEMMA NamesTypedStep == NamesTyped /\ [NamesNext]_<<vars, namesVars>> => NamesTyped'
<1> SUFFICES ASSUME NamesTyped, [NamesNext]_<<vars, namesVars>>
             PROVE  NamesTyped'
  OBVIOUS
<1>1. CASE UNCHANGED <<vars, namesVars>>
  <2>1. TypeOK'
    BY <1>1 DEF NamesTyped, vars, tables, TypeOK, TablesOK, Held
  <2> QED
    BY <1>1, <2>1 DEF NamesTyped, vars, tables, namesVars, OpTyped, OpState
<1>2. CASE NamesNext
  <2>1. \A p \in Askers : steady'[p].target \subseteq Records \X Ids
    BY <1>2 DEF NamesNext, Remember, StandsFor
  <2>2. TypeOK' /\ blocks'["name"] \subseteq Records
        /\ origin' \in [Records -> Agents \cup {None}]
    <3>1. CASE \E p \in Askers : Ask(p)
      BY <3>1, AskTables
    <3>2. CASE \E r \in Records : NameIt(r)
      BY <3>2, InsertTyped DEF NameIt
    <3>3. CASE \E a \in Agents, r \in Records : CachedElsewhere(a, r)
      BY <3>3, InsertTyped DEF CachedElsewhere
    <3>4. CASE \E m \in Moderators : Moderate(m) /\ UNCHANGED <<origin, op>>
      BY <3>4, ModerateTyped, ModerateNames DEF NamesTyped
    <3> QED
      BY <1>2, <3>1, <3>2, <3>3, <3>4 DEF NamesNext
  <2>3. op' \in [Askers -> OpState] /\ \A p \in Askers : OpTyped(op'[p])
    <3>1. ASSUME NEW p \in Askers, Ask(p)
          PROVE  op' \in [Askers -> OpState] /\ \A q \in Askers : OpTyped(op'[q])
      <4>1. PICK o : op' = [op EXCEPT ![p] = o] /\ OpTyped(o)
        BY <3>1, AskTyped DEF Sets, Set
      <4>2. o \in OpState
        BY <4>1 DEF OpTyped
      <4> QED
        BY <4>1, <4>2 DEF NamesTyped
    <3>2. CASE UNCHANGED op
      BY <3>2 DEF NamesTyped
    <3> QED
      BY <1>2, <3>1, <3>2 DEF NamesNext, NameIt, CachedElsewhere
  <2> QED
    BY <2>1, <2>2, <2>3 DEF NamesTyped, OpTyped
<1> QED
  BY <1>1, <1>2

\* Where it begins.
LEMMA NamesTypedInitially == NamesInit => NamesTyped
<1> SUFFICES ASSUME NamesInit PROVE NamesTyped
  OBVIOUS
<1>1. resources \in [Ids -> Row \cup {None}]
  BY CanonAssumption DEF NamesInit, Row
<1>2. TypeOK
  BY <1>1, IdleWellFormed DEF NamesInit, TypeOK, TablesOK, Held, Kinds
<1>3. op \in [Askers -> OpState] /\ \A p \in Askers : OpTyped(op[p])
  BY NoOpTyped DEF NamesInit
<1>4. \A p \in Askers : steady[p].target \subseteq Records \X Ids
  BY DEF NamesInit, Now, StandsFor
<1> QED
  BY <1>2, <1>3, <1>4 DEF NamesInit, NamesTyped, Kinds

(***************************************************************************)
(* Whatever is asked, blocked, cached and deleted, and whichever read      *)
(* fails: the tables keep their types, and every operation on names is at  *)
(* one of its steps, and about one record exactly while it rates one.      *)
(***************************************************************************)
THEOREM NamesTypeCorrect == NamesSpec => []NamesTypeOK
<1>1. NamesTyped => NamesTypeOK
  BY DEF NamesTyped, TypeOK, OpTyped, Rating, NamesTypeOK
<1> QED
  BY <1>1, NamesTypedInitially, NamesTypedStep, PTL DEF NamesSpec

=============================================================================
