------------------------------ MODULE AvListing ------------------------------
(***************************************************************************)
(* The two files that are lists of other files, and the descriptions       *)
(* search shows of them (av-ingest): Autonomi manifests (ant_manifest.rs)  *)
(* and W@tch bundles (watchlist.rs, series.rs), as much of either as a row *)
(* stores (metadata.rs), and as much of that as fits the embedding window  *)
(* (describe.rs).                                                          *)
(*                                                                         *)
(* Texts are what the code asks of them: how long they are, and whether a  *)
(* path is portable.                                                       *)
(***************************************************************************)
EXTENDS Integers, Sequences, FiniteSets, SequencesExt

CONSTANTS
    None,                      \* no value
    MaxManifestEntries,        \* MAX_MANIFEST_ENTRIES
    MaxStoredManifestEntries,  \* MAX_STORED_MANIFEST_ENTRIES
    EmbedWindowChars           \* EMBED_WINDOW_CHARS

ASSUME ListingAssumption ==
    /\ MaxManifestEntries \in Nat /\ MaxStoredManifestEntries \in Nat \ {0}
    /\ EmbedWindowChars \in Nat \ {0}

-----------------------------------------------------------------------------
\* What a filter keeps of a list: its members at some positions, in their order.
InOrder(s, positions) ==
    [k \in 1 .. Cardinality(positions) |->
        s[CHOOSE i \in positions : Cardinality({j \in positions : j <= i}) = k]]

Filter(s, Keeps(_)) == InOrder(s, {i \in DOMAIN s : Keeps(s[i])})

(***************************************************************************)
(* Manifests.  A msgpack value is a nil, a text [portable, chars], a uint, *)
(* a bin [len], an array [items], or a map [fields], which is a sequence   *)
(* of keys and values: a key may come twice.  Any other value is "other",  *)
(* and one that the bytes do not hold in full, that is nested too deep or  *)
(* that msgpack does not have is "broken".                                 *)
(***************************************************************************)
Under(v, key) == {i \in DOMAIN v.fields : v.fields[i].key = key}

\* A map, with the fields that are known read and the others skipped.
IsMap(v, known) ==
    /\ v.is = "map"
    /\ \A key \in known : Cardinality(Under(v, key)) <= 1
    /\ \A i \in DOMAIN v.fields : v.fields[i].key \notin known => v.fields[i].val.is # "broken"

Has(v, key, Reads(_)) == \E i \in Under(v, key) : Reads(v.fields[i].val)

MayHave(v, key, Reads(_)) == \A i \in Under(v, key) : Reads(v.fields[i].val)

IsPortable(v) == v.is = "nil" \/ (v.is = "text" /\ v.portable)
IsSize(v) == v.is \in {"nil", "uint"}
IsTorrent(v) == v.is = "nil" \/ IsMap(v, {})

ChunkRecordBytes == 68

IsChunks(v) == v.is = "bin" /\ v.len # 0 /\ v.len % ChunkRecordBytes = 0
IsDataMap(v) == IsMap(v, {"chunks"}) /\ Has(v, "chunks", IsChunks)
IsAddress(v) == v.is = "bin" /\ v.len = 32

IsEmbedded(v) == IsMap(v, {"data_map"}) /\ Has(v, "data_map", IsDataMap)
IsPublic(v) == IsMap(v, {"address"}) /\ Has(v, "address", IsAddress)

\* content_ref: of the two variants, and nothing beside it.
IsContentRef(v) ==
    /\ v.is = "map" /\ Len(v.fields) = 1
    /\ Has(v, "Embedded", IsEmbedded) \/ Has(v, "Public", IsPublic)

IsEntry(v) ==
    /\ IsMap(v, {"path", "size", "source"})
    /\ MayHave(v, "path", IsPortable)
    /\ MayHave(v, "size", IsSize)
    /\ Has(v, "source", IsContentRef)

IsEntries(v) ==
    /\ v.is = "array" /\ Len(v.items) <= MaxManifestEntries
    /\ \A i \in DOMAIN v.items : IsEntry(v.items[i])

\* summarize: a manifest that is read to its last byte, or nothing.
Accounted(m) ==
    /\ ~m.oversized /\ m.version = 1 /\ ~m.trailing
    /\ IsMap(m.body, {"name", "torrent", "entries"})
    /\ MayHave(m.body, "name", IsPortable)
    /\ MayHave(m.body, "torrent", IsTorrent)
    /\ Has(m.body, "entries", IsEntries)

\* A field that may be missing, or nil.
Text(v, key) ==
    IF \E i \in Under(v, key) : v.fields[i].val.is = "text"
    THEN v.fields[CHOOSE i \in Under(v, key) : TRUE].val.chars
    ELSE 0

Entries(m) == m.body.fields[CHOOSE i \in Under(m.body, "entries") : TRUE].val.items

NothingStored == [title |-> 0, count |-> 0, items |-> << >>]

Take(s, n) == SubSeq(s, 1, IF n < Len(s) THEN n ELSE Len(s))

\* An entry is the length of its path, 0 when it has none.
Paths(m) == [i \in DOMAIN Entries(m) |-> [chars |-> Text(Entries(m)[i], "path")]]

\* Mutant: the count is of the entries that are stored.
ExtractCapped(m) ==
    IF ~Accounted(m) THEN NothingStored
    ELSE LET items == Take(Paths(m), MaxStoredManifestEntries)
         IN [title |-> Text(m.body, "name"), count |-> Len(items), items |-> items]

\* extract_ant_manifest: what the row stores.
ExtractManifest(m) ==
    IF ~Accounted(m) THEN NothingStored
    ELSE [title |-> Text(m.body, "name"),
          count |-> Len(Entries(m)),
          items |-> Take(Paths(m), MaxStoredManifestEntries)]

\* manifest_stored_incomplete.
StoredIncomplete(meta) == meta.count > Len(meta.items)

\* manifest_paths.
ManifestPaths(meta) == Filter(meta.items, LAMBDA item : item.chars # 0)

-----------------------------------------------------------------------------
(***************************************************************************)
(* Bundles: a zip of datamaps, one for each media file, and perhaps a list *)
(* of them.  A media file is [title, season, episode, chars], of season 0  *)
(* when its name has no episode token, and without a title when nothing is *)
(* left of its name but an extension.                                      *)
(***************************************************************************)
\* The first of each.
Distinct(s, Key(_)) ==
    InOrder(s, {i \in DOMAIN s : \A j \in 1 .. i - 1 : Key(s[j]) # Key(s[i])})

Itself(x) == x

Datamaps(members) == Filter(members, LAMBDA m : m.datamap)

Media(members) == [i \in DOMAIN members |-> members[i].media]

\* items_from_members: those in datamaps/ first.
ItemsFromMembers(members) ==
    Distinct(Media(Filter(Datamaps(members), LAMBDA m : m.inside)
                   \o Filter(Datamaps(members), LAMBDA m : ~m.inside)), Itself)

\* items_from_list_txt: the lines that name a member.
ItemsFromList(lines, members) ==
    Distinct(Filter(lines, LAMBDA l :
               \E i \in DOMAIN members : members[i].datamap /\ members[i].media = l), Itself)

\* classify: a zip with a datamap, with a list, or with the name of a bundle.
IsBundle(b, named) == b.list # None \/ Datamaps(b.members) # << >> \/ named

Items(b) ==
    LET listed == IF b.list = None THEN << >> ELSE ItemsFromList(b.list, b.members)
    IN IF listed = << >> THEN ItemsFromMembers(b.members) ELSE listed

TitleOf(item) == item.title

\* collapse_runs.
Runs(episodes) ==
    {run \in episodes \X episodes :
        /\ \A e \in run[1] .. run[2] : e \in episodes
        /\ run[1] <= run[2] /\ run[1] - 1 \notin episodes /\ run[2] + 1 \notin episodes}

\* The episodes of the series an item is of.
EpisodesOf(items, item) ==
    {<<items[i].season, items[i].episode>> :
        i \in {j \in DOMAIN items : items[j].title = item.title /\ items[j].season # 0}}

\* render_title, whose clauses have one length here.
ClauseChars == 8

LineChars(item, episodes) ==
    IF item.season = 0 THEN item.chars
    ELSE item.chars + ClauseChars * Cardinality(
            UNION {{s} \X Runs({e[2] : e \in {x \in episodes : x[1] = s}}) :
                     s \in {x[1] : x \in episodes}})

\* compact_items: one line for each title, where it comes first.  What has no
\* stem has no title, and parse_item drops it.
CompactItems(items) ==
    LET firsts == Filter(Distinct(items, TitleOf), LAMBDA item : item.title # None)
    IN [i \in DOMAIN firsts |->
          LET episodes == IF firsts[i].season = 0 THEN {} ELSE EpisodesOf(items, firsts[i])
          IN [title |-> firsts[i].title, episodes |-> episodes,
              chars |-> LineChars(firsts[i], episodes)]]

-----------------------------------------------------------------------------
(***************************************************************************)
(* fill_into_window: the items that fit after a head, and how many do not. *)
(***************************************************************************)
Digits[n \in Nat] == IF n < 10 THEN 1 ELSE 1 + Digits[n \div 10]

\* tail_marker.
TailMarker(more, total) ==
    [more |-> more, chars |-> IF more = 0 THEN 0 ELSE 5 + Digits[more] + 9 + Digits[total]]

Containing == 13   \* " containing: "

\* The head, the word and the first k items.
Upto(head, chars, k) ==
    LET sum[i \in 0 .. k] == IF i = 0 THEN head + Containing
                             ELSE sum[i - 1] + chars[i] + (IF i = 1 THEN 0 ELSE 2)
    IN sum[k]

\* clamp_to_budget: a text that is too long is cut, and ends in dots.
IsCut(text) == ~(text <= EmbedWindowChars)

\* Mutant: an item is placed that leaves no room for the marker.
FillToTheBrim(head, chars) ==
    LET n == Len(chars)
        Fits(k) == Upto(head, chars, k) <= EmbedWindowChars
        placed == IF n = 0 \/ Fits(n) THEN n
                  ELSE CHOOSE k \in 0 .. n - 1 : (\A j \in 1 .. k : Fits(j)) /\ ~Fits(k + 1)
        tail == TailMarker(n - placed, n)
    IN [placed |-> placed, more |-> tail.more,
        cut |-> IsCut(IF n = 0 THEN head ELSE Upto(head, chars, placed) + tail.chars)]

\* All of them without a tail, or those in front that leave room for it.
FillIntoWindow(head, chars) ==
    LET n == Len(chars)
        Fits(k) == Upto(head, chars, k) + TailMarker(n - k, n).chars <= EmbedWindowChars
        placed == IF n = 0 \/ Fits(n) THEN n
                  ELSE CHOOSE k \in 0 .. n - 1 : (\A j \in 1 .. k : Fits(j)) /\ ~Fits(k + 1)
        tail == TailMarker(n - placed, n)
    IN [placed |-> placed, more |-> tail.more,
        cut |-> IsCut(IF n = 0 THEN head ELSE Upto(head, chars, placed) + tail.chars)]

=============================================================================
