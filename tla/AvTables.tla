------------------------------- MODULE AvTables -------------------------------
(***************************************************************************)
(* The tables of the Anta Vista database that decide what a node may serve *)
(* (crates/av-store): `resources` with its dependent `embeddings`,         *)
(* `name_records`, the block policy `blocks`, and `blocked_locations`, the *)
(* spellings a blocked resource was held under.                            *)
(*                                                                         *)
(* An operator of this module is one SQL statement or one transaction of   *)
(* the repository layer: it is atomic, whichever process runs it.  What    *)
(* runs between two of them is the business of AvStore.                    *)
(*                                                                         *)
(* A resource id is a content hash, a location is one spelling of an       *)
(* address; both are opaque here.  Canon is the canonical spelling that    *)
(* analyze_location computes, Aliases the two spellings target_variants    *)
(* compares a name's target with.                                          *)
(***************************************************************************)
EXTENDS Sequences

CONSTANTS
    Ids,        \* content hashes, the primary key of `resources`
    Records,    \* name record ids
    Agents,     \* x0x agent ids
    Locs,       \* spellings of locations
    Canon,      \* the canonical spelling of each location
    Aliases,    \* the spellings a name target is compared with
    None        \* SQL NULL, and "no such row"

ASSUME CanonAssumption == Canon \in [Locs -> Locs]
ASSUME AliasesAssumption == Aliases \in [Locs -> SUBSET Locs]
ASSUME NoneAssumption == None \notin Ids \cup Locs

Kinds == {"resource", "name", "agent"}

\* The ids a block of each kind is keyed by.
SubjectsOf == [k \in Kinds |->
                  IF k = "resource" THEN Ids ELSE IF k = "name" THEN Records ELSE Agents]

\* The columns of a resource row that a block or a fetch looks at.
Row == [location : Locs, canonical : Locs \cup {None}]

ASSUME NoneIsNoRow == None \notin Row

VARIABLES
    resources,    \* the row of each id, or None
    embedded,     \* the ids that have a row in `embeddings`
    names,        \* the target spellings of each name record, {} when absent
    blocks,       \* the blocked subjects of each kind
    blockedLocs   \* the <<resource id, location>> rows of `blocked_locations`

tables == <<resources, embedded, names, blocks, blockedLocs>>

TablesOK ==
    /\ resources \in [Ids -> Row \cup {None}]
    /\ embedded \subseteq Ids
    /\ names \in [Records -> SUBSET Locs]
    /\ blocks \in [Kinds -> SUBSET (Ids \cup Records \cup Agents)]
    /\ blocks["resource"] \subseteq Ids
    /\ blockedLocs \subseteq Ids \X Locs

-----------------------------------------------------------------------------
(* Reads.                                                                  *)

Held == {i \in Ids : resources[i] # None}

\* resources::get_by_location matches the stored spelling only.
RowsAt(l) == {i \in Held : resources[i].location = l}

BlockedResources == blocks["resource"]

\* Mutant: only the spelling the row was stored under is recorded.
LocationOnly(row) == IF row = None THEN << >> ELSE <<row.location>>

\* The distinct non-null spellings of a row, in the order they are recorded.
Spellings(row) ==
    IF row = None THEN << >>
    ELSE IF row.canonical \in {None, row.location} THEN <<row.location>>
    ELSE <<row.location, row.canonical>>

\* The two reads of is_location_blocked, each a statement of its own.
IsRecorded(l) == \E i \in Ids : <<i, l>> \in blockedLocs

IsJoined(l) ==
    \E i \in BlockedResources :
        /\ resources[i] # None
        /\ l \in {resources[i].location, resources[i].canonical}

Refused(l) == IsRecorded(l) \/ IsJoined(l)

IdsWithRecordedLocations == {i \in Ids : \E l \in Locs : <<i, l>> \in blockedLocs}

NamesPointingAt(l) == {r \in Records : names[r] \cap Aliases[l] # {}}

-----------------------------------------------------------------------------
(* Writes.  Each one names the tables it changes; the caller leaves the    *)
(* others alone.                                                           *)

\* INSERT OR IGNORE INTO blocks
AddBlock(k, s) == blocks' = [blocks EXCEPT ![k] = @ \cup {s}]

RemoveBlock(k, s) == blocks' = [blocks EXCEPT ![k] = @ \ {s}]

ClearBlocks(ks) == blocks' = [k \in Kinds |-> IF k \in ks THEN {} ELSE blocks[k]]

RecordLocation(i, l) == blockedLocs' = blockedLocs \cup {<<i, l>>}

ForgetLocations(i) == blockedLocs' = {e \in blockedLocs : e[1] # i}

\* INSERT OR REPLACE: a row that was there is deleted first, and its embedding
\* goes with it (ON DELETE CASCADE).
InsertResource(i, row) ==
    /\ resources' = [resources EXCEPT ![i] = row]
    /\ embedded' = embedded \ {i}

\* Mutant: the cascade to `embeddings` is missing.
DeleteRowsOnly(S) ==
    /\ resources' = [i \in Ids |-> IF i \in S THEN None ELSE resources[i]]
    /\ UNCHANGED embedded

DeleteResources(S) ==
    /\ resources' = [i \in Ids |-> IF i \in S THEN None ELSE resources[i]]
    /\ embedded' = embedded \ S

\* The foreign key refuses an embedding whose resource is gone; the caller
\* checks that the row is held.
InsertEmbedding(i) == embedded' = embedded \cup {i}

DeleteNames(R) == names' = [r \in Records |-> IF r \in R THEN {} ELSE names[r]]

\* delete_resource_cascade_with_names: one transaction.
DeleteResourceAndNames(i) ==
    /\ DeleteResources({i})
    /\ DeleteNames(IF resources[i] = None THEN {}
                   ELSE NamesPointingAt(resources[i].location))
=============================================================================
