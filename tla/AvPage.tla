------------------------------- MODULE AvPage -------------------------------
(***************************************************************************)
(* The one results area of the page (av-cli/assets/app.js) and everything  *)
(* that writes to it: searches, the indexing of links with its dialog and  *)
(* its installer, the blocks and removals of rows, and the scheme filter.  *)
(*                                                                         *)
(* An action is what the page runs between two awaits.  While a modal      *)
(* dialog is open the user reaches nothing else, but answers still come.   *)
(***************************************************************************)
EXTENDS Naturals, FiniteSets

CONSTANTS
    Hits,        \* what a search can find
    Foreign,     \* the hits supplied by the peer whose answers may be blocked
    Web,         \* the hits that are not on Autonomi
    Links,       \* the links the user indexes
    MaxSearches, \* bound: searches submitted
    MaxRuns,     \* bound: calls of runIndex
    MaxDrops     \* bound: rows removed or blocked, or peers blocked

ASSUME HitsAssumption == Foreign \subseteq Hits /\ Web \subseteq Hits
ASSUME LinksAssumption == Links \cap Hits = {}  \* so the filter leaves the row of an index
ASSUME BoundsAssumption == MaxSearches \in Nat /\ MaxRuns \in Nat /\ MaxDrops \in Nat

Searches == 1 .. MaxSearches

VARIABLES
    search,     \* each call of runSearch
    lastQuery,  \* the last one submitted
    epochs,     \* resultsEpoch and indexEpoch
    area,       \* the rows, and the count line above them
    only,       \* "Autonomi only" is checked
    drop,       \* the removal or block whose answer is to come, and how many were asked
    index,      \* each link's runIndex, and how many calls there were
    dialog,     \* the index dialog and pendingIndexedResult
    install,    \* the install dialog and its pendingUri
    history     \* indexes a search overtook, and those another one followed

resultsVars == <<search, lastQuery, epochs, area, only, drop, index, dialog, install, history>>

pageVars == <<search, lastQuery, epochs, area, only, drop>>
indexVars == <<index, dialog, install, history>>

NoLink == "no link"

Row == [hit : Hits \cup Links, by : Searches \cup Links]

PageTypeOK ==
    /\ search \in [Searches -> {"none", "ensuring", "asking", "done"}]
    /\ lastQuery \in 0 .. MaxSearches
    /\ epochs \in [results : Nat, index : Nat]
    /\ area.rows \subseteq Row /\ area.hidden \subseteq area.rows
    /\ area.count \in [says : {"", "waiting", "number", "indexed"}, n : Nat]
    /\ only \in BOOLEAN
    /\ drop \in [row : SUBSET Row, peer : BOOLEAN, count : 0 .. MaxDrops]
    /\ index \in [at : [Links -> {"none", "ensuring", "browser", "daemon", "ended"}],
                  runs : 0 .. MaxRuns]
    /\ dialog \in [open : BOOLEAN, closing : Nat, pending : Links \cup {NoLink}]
    /\ install \in [at : {"closed", "open", "done"}, link : Links \cup {NoLink}]

ResultsInit ==
    /\ search = [s \in Searches |-> "none"]
    /\ lastQuery = 0
    /\ epochs = [results |-> 0, index |-> 0]
    /\ area = [rows |-> {}, hidden |-> {}, count |-> [says |-> "", n |-> 0]]
    /\ only = FALSE
    /\ drop = [row |-> {}, peer |-> FALSE, count |-> 0]
    /\ index = [at |-> [l \in Links |-> "none"], runs |-> 0]
    /\ dialog = [open |-> FALSE, closing |-> 0, pending |-> NoLink]
    /\ install = [at |-> "closed", link |-> NoLink]
    /\ history = [overtaken |-> {}, followed |-> {}]

-----------------------------------------------------------------------------
(* The results area                                                        *)

Says(what) == [says |-> what, n |-> 0]

\* recountResults counts what the filter leaves visible.
Recount(a) ==
    [a EXCEPT !.count = [says |-> "number", n |-> Cardinality(a.rows \ a.hidden)]]

\* applySchemeFilter; the row of an index is exempt.
Filter(a, checked) ==
    [a EXCEPT !.hidden = {r \in a.rows : checked /\ r.hit \in Web}]

\* dropResult: a row that is on the page no longer is only counted.
DropRow(a, row) == Recount([a EXCEPT !.rows = @ \ {row}, !.hidden = @ \ {row}])

\* dropResultsFromAgent: rows that are local as well stay.
DropPeer(a) ==
    LET theirs == {r \in a.rows : r.hit \in Foreign}
    IN IF theirs = {} THEN a
       ELSE Recount([a EXCEPT !.rows = @ \ theirs, !.hidden = @ \ theirs])

IsModal == dialog.open \/ install.at # "closed"

-----------------------------------------------------------------------------
(* Searching                                                               *)

\* Mutant: a search leaves the epoch alone.
TakeNothing == epochs

\* A search takes the area over when it is submitted, and when it is answered.
TakeOver == [epochs EXCEPT !.results = @ + 1]

Overtake ==
    history' = [history EXCEPT !.overtaken =
                  @ \cup {l \in Links : index.at[l] # "none"}]

\* ensureServices is asked first, unless the last answer of the poll will do.
Submit(s) ==
    /\ ~IsModal
    /\ s = lastQuery + 1
    /\ lastQuery' = s
    /\ epochs' = TakeOver
    /\ Overtake
    /\ area' = [rows |-> {}, hidden |-> {}, count |-> Says("waiting")]
    /\ \E at \in {"ensuring", "asking"} : search' = [search EXCEPT ![s] = at]
    /\ UNCHANGED <<only, drop, index, dialog, install>>

\* ensureServices is best effort, and the count line waits again.
Ensured(s) ==
    /\ search[s] = "ensuring"
    /\ search' = [search EXCEPT ![s] = "asking"]
    /\ area' = [area EXCEPT !.count = Says("waiting")]
    /\ UNCHANGED <<lastQuery, epochs, only, drop, indexVars>>

\* renderResults.
Render(s) ==
    /\ search[s] = "asking"
    /\ search' = [search EXCEPT ![s] = "done"]
    /\ epochs' = TakeOver
    /\ Overtake
    /\ \E found \in {{}, Hits} :
         area' = Recount(Filter([rows |-> [hit : found, by : {s}], hidden |-> {},
                                 count |-> Says("")], only))
    /\ UNCHANGED <<lastQuery, only, drop, index, dialog, install>>

\* Nothing is left of a search that failed.
Failed == [rows |-> {}, hidden |-> {}, count |-> Says("")]

SearchFails(s) ==
    /\ search[s] = "asking"
    /\ search' = [search EXCEPT ![s] = "done"]
    /\ area' = Failed
    /\ UNCHANGED <<lastQuery, epochs, only, drop, indexVars>>

\* The checkbox: the rows are filtered where they stand, and counted again
\* unless the row is that of an index.
Toggle ==
    /\ ~IsModal
    /\ only' = ~only
    /\ area' = LET a == Filter(area, only')
               IN IF area.rows = {} \/ \E r \in area.rows : r.by \in Links THEN a
                  ELSE Recount(a)
    /\ UNCHANGED <<search, lastQuery, epochs, drop, indexVars>>

-----------------------------------------------------------------------------
(* Rows taken away                                                         *)

NothingAsked == drop.row = {} /\ ~drop.peer

AskDrop(d) ==
    /\ ~IsModal /\ NothingAsked
    /\ drop.count < MaxDrops
    /\ drop' = [d EXCEPT !.count = @ + 1]
    /\ UNCHANGED <<search, lastQuery, epochs, area, only, indexVars>>

\* Remove or Block of a row, once confirmed.
AskRowDrop ==
    \E r \in area.rows \ area.hidden : AskDrop([drop EXCEPT !.row = {r}])

\* Block of the peer behind a row.
AskPeerBlock ==
    /\ \E r \in area.rows \ area.hidden : r.hit \in Foreign
    /\ AskDrop([drop EXCEPT !.peer = TRUE])

\* The answer comes, or an error.
Dropped ==
    /\ ~NothingAsked
    /\ drop' = [drop EXCEPT !.row = {}, !.peer = FALSE]
    /\ \/ drop.peer /\ area' = DropPeer(area)
       \/ \E r \in drop.row : area' = DropRow(area, r)
       \/ UNCHANGED area
    /\ UNCHANGED <<search, lastQuery, epochs, only, indexVars>>

-----------------------------------------------------------------------------
(* Indexing                                                                *)

\* renderIndexedResult: the row takes the whole area.
IndexedArea(l) ==
    [rows |-> {[hit |-> l, by |-> l]}, hidden |-> {}, count |-> Says("indexed")]

\* flushPendingIndex: a row whose screen a search has taken is not shown.
Flush(d) ==
    /\ dialog' = [d EXCEPT !.pending = NoLink]
    /\ area' = IF d.pending = NoLink \/ epochs.results # epochs.index THEN area
               ELSE IndexedArea(d.pending)

\* Mutant: the row always waits for the dialog.
FinishWaits(l) ==
    dialog' = [dialog EXCEPT !.pending = l] /\ UNCHANGED area

\* finishIndex.
FinishIndex(l) ==
    LET d == [dialog EXCEPT !.pending = l]
    IN IF d.open THEN dialog' = d /\ UNCHANGED area ELSE Flush(d)

\* runIndex, up to its first await.
Begin(l) ==
    /\ index.runs < MaxRuns
    /\ \E at \in {"ensuring", "browser"} :
         index' = [at |-> [index.at EXCEPT ![l] = at], runs |-> index.runs + 1]
    /\ epochs' = [epochs EXCEPT !.index = epochs.results]
    /\ dialog' = [dialog EXCEPT !.open = TRUE]
    /\ history' = [overtaken |-> history.overtaken \ {l},
                   followed |-> {k \in Links \ {l} : index.at[k] # "none"}]

\* Add a Link is submitted.
Add(l) ==
    /\ ~IsModal
    /\ index.at[l] = "none"
    /\ Begin(l)
    /\ UNCHANGED <<search, lastQuery, area, only, drop, install>>

IndexEnsured(l) ==
    /\ index.at[l] = "ensuring"
    /\ index' = [index EXCEPT !.at[l] = "browser"]
    /\ UNCHANGED <<pageVars, dialog, install, history>>

\* indexAutonomiInBrowser: a location that is not an address, a browser that
\* cannot fetch and a file that is too large are the daemon's.
FallsBack(l) ==
    /\ index.at[l] = "browser"
    /\ index' = [index EXCEPT !.at[l] = "daemon"]
    /\ UNCHANGED <<pageVars, dialog, install, history>>

IndexEnds(l) == index' = [index EXCEPT !.at[l] = "ended"]

\* The server has indexed the bytes, or fetched and indexed the link.
Indexed(l) ==
    /\ index.at[l] \in {"browser", "daemon"}
    /\ IndexEnds(l)
    /\ FinishIndex(l)
    /\ UNCHANGED <<search, lastQuery, epochs, only, drop, install, history>>

\* A duplicate, a refusal or an error is a line in the dialog.
IndexFails(l) ==
    /\ index.at[l] \in {"browser", "daemon"}
    /\ IndexEnds(l)
    /\ UNCHANGED <<pageVars, dialog, install, history>>

\* The daemon route finds no backend: the dialog gives way to the installer,
\* which takes the link along.
NoBackend(l) ==
    /\ index.at[l] = "daemon"
    /\ IndexEnds(l)
    /\ dialog' = [dialog EXCEPT !.open = FALSE,
                                !.closing = IF dialog.open THEN @ + 1 ELSE @]
    /\ install' = [at |-> "open", link |-> l]
    /\ UNCHANGED <<pageVars, history>>

\* The user dismisses the index dialog; its close event comes later.
Dismiss ==
    /\ dialog.open /\ install.at = "closed"
    /\ dialog' = [dialog EXCEPT !.open = FALSE, !.closing = @ + 1]
    /\ UNCHANGED <<pageVars, index, install, history>>

CloseEvent ==
    /\ dialog.closing > 0
    /\ Flush([dialog EXCEPT !.closing = @ - 1])
    /\ UNCHANGED <<search, lastQuery, epochs, only, drop, index, install, history>>

\* The installer ran, and offers to finish the link that waited for it.
Installed ==
    /\ install.at = "open"
    /\ install' = [install EXCEPT !.at = "done"]
    /\ UNCHANGED <<pageVars, index, dialog, history>>

Resume ==
    /\ install.at = "done"
    /\ install' = [at |-> "closed", link |-> NoLink]
    /\ Begin(install.link)
    /\ UNCHANGED <<search, lastQuery, area, only, drop>>

\* Cancelled, or closed after the run.
CloseInstall ==
    /\ install.at # "closed"
    /\ install' = [at |-> "closed", link |-> NoLink]
    /\ UNCHANGED <<pageVars, index, dialog, history>>

-----------------------------------------------------------------------------
SearchStep(s) == Submit(s) \/ Ensured(s) \/ Render(s) \/ SearchFails(s)

IndexStep(l) ==
    Add(l) \/ IndexEnsured(l) \/ FallsBack(l) \/ Indexed(l) \/ IndexFails(l) \/ NoBackend(l)

ResultsNext ==
    \/ \E s \in Searches : SearchStep(s)
    \/ Toggle
    \/ AskRowDrop \/ AskPeerBlock \/ Dropped
    \/ \E l \in Links : IndexStep(l)
    \/ Dismiss \/ CloseEvent \/ Installed \/ Resume \/ CloseInstall

ResultsSpec == ResultsInit /\ [][ResultsNext]_resultsVars

-----------------------------------------------------------------------------
(* Properties                                                              *)

\* "The result must not depend on the user's patience" (finishIndex): a row that
\* waits is waiting for a dialog that is open, or whose close event is on its way.
PendingIsShown == dialog.pending # NoLink => dialog.open \/ dialog.closing > 0

\* An index takes the screen only if no search has taken it since the index
\* began.  (Left out are indexes that another one followed: runIndex moves the
\* one indexEpoch, and the earlier index then counts from there.)
IndexYields ==
    [][\A l \in Links \ history.followed :
         area' # area /\ area' = IndexedArea(l) => l \notin history.overtaken]_resultsVars

\* The same, of every index, as the comment on resultsEpoch has it.
EveryIndexYields ==
    [][\A l \in Links :
         area' # area /\ area' = IndexedArea(l) => l \notin history.overtaken]_resultsVars

\* "The query the current results belong to" (lastQuery), which a rating of a
\* row is sent with.
RowsMatchQuery == \A r \in area.rows : r.by \in Searches => r.by = lastQuery

=============================================================================
