------------------------------ MODULE AvPlayer ------------------------------
(***************************************************************************)
(* Opening a result of the page (av-cli/assets/app.js): the open of a row, *)
(* the one player dialog that several opens race for, the tabs a playing   *)
(* file is handed to, and the blocks and removals that must end its stream *)
(* wherever it plays.                                                      *)
(*                                                                         *)
(* Everything here happens between two awaits: an action of the page is    *)
(* what runs without one.  A play is one call of startPlayer; its number   *)
(* is the generation, and names its session and its reader.                *)
(***************************************************************************)
EXTENDS Naturals, FiniteSets

CONSTANTS
    Rows,     \* the results on the page, each with a location of its own
    Doomed,   \* bound: the rows the user may block or remove
    MaxPlays  \* bound: the calls of startPlayer; nothing is clicked after the last

ASSUME MaxPlaysAssumption == MaxPlays \in Nat \ {0}
ASSUME RowsAssumption == Rows # {} /\ Doomed \subseteq Rows

Plays == 1 .. MaxPlays

VARIABLES
    row,        \* runOpen of each row
    generation, \* playerGeneration
    player,     \* mediaSession, the dialog, handedSessions and what they hold
    media,      \* the worker: mediaTypes and retiredSessions
    tab,        \* the player tab of each play (the page of /media-view)
    goodbyes,   \* the `closed` messages on the channel
    block,      \* the Block button of each row, and the server's block list
    raced       \* history: rows blocked or removed beside a click that was on its way

vars == <<row, generation, player, media, tab, goodbyes, block, raced>>

others == <<generation, player, media, tab, goodbyes, block, raced>>

Steps == {"rest", "checking", "opening", "reading", "planning", "planned", "creating", "teaching",
          "fetching"}

RowState ==
    [at : Steps,
     play : 0 .. MaxPlays,  \* the play this open has started
     retried : BOOLEAN,     \* with a new client, after a failure
     shown : BOOLEAN]       \* the row is on the page

PlayerState ==
    [session : 0 .. MaxPlays,   \* mediaSession
     handedOff : BOOLEAN,
     element : 0 .. MaxPlays,   \* what the dialog's player streams
     open : BOOLEAN,            \* the dialog
     closing : Nat,             \* its close events that are still to come
     handed : SUBSET Plays,     \* handedSessions
     awake : BOOLEAN,           \* "media" is one of keepaliveReasons
     retiring : SUBSET Plays,   \* the av-media-drop messages on their way
     reader : [Plays -> {"none", "open", "closed"}],
     of : [Plays -> Rows]]      \* the row of each play

TabState == [at : {"none", "loading", "refused", "playing", "failed", "gone"},
             copies : 0 .. 2, asking : BOOLEAN]

\* A block of this page is asked for, recorded and answered; "listed" is one of
\* another page or of the command, "kept" what the page makes of that.
BlockStates == {"none", "asked", "committed", "done", "listed", "kept"}

PlayerTypeOK ==
    /\ row \in [Rows -> RowState]
    /\ generation \in 0 .. MaxPlays
    /\ player \in PlayerState
    /\ tab \in [Plays -> TabState]
    /\ goodbyes \subseteq Plays
    /\ block \in [Rows -> BlockStates]
    /\ media.taught \cap media.retired = {}

Init ==
    /\ row = [r \in Rows |-> [at |-> "rest", play |-> 0, retried |-> FALSE,
                              shown |-> TRUE]]
    /\ generation = 0
    /\ player = [session |-> 0, handedOff |-> FALSE, element |-> 0, open |-> FALSE,
                 closing |-> 0, handed |-> {}, awake |-> FALSE, retiring |-> {},
                 reader |-> [g \in Plays |-> "none"],
                 of |-> [g \in Plays |-> CHOOSE r \in Rows : TRUE]]
    /\ media = [taught |-> {}, retired |-> {}]
    /\ tab = [g \in Plays |-> [at |-> "none", copies |-> 0, asking |-> FALSE]]
    /\ goodbyes = {}
    /\ block = [r \in Rows |-> "none"]
    /\ raced = {}

-----------------------------------------------------------------------------
(* The player, as the functions of the page change it                      *)

CloseReader(p, g) == [p EXCEPT !.reader[g] = "closed"]

\* Mutant: the keepalive goes although a tab is still fed.
TeardownAsleep(p) ==
    LET bare == [p EXCEPT !.session = 0, !.handedOff = FALSE, !.element = 0]
    IN IF p.session # 0 /\ p.handedOff
       THEN [bare EXCEPT !.awake = FALSE]
       ELSE IF p.session = 0 THEN [bare EXCEPT !.awake = FALSE]
       ELSE CloseReader([bare EXCEPT !.awake = FALSE], p.session)

\* teardownPlayer: a session handed to a tab is spared.
Teardown(p) ==
    LET bare == [p EXCEPT !.session = 0, !.handedOff = FALSE, !.element = 0]
        quiet == [bare EXCEPT !.awake = p.awake /\ p.handed # {}]
    IN IF p.session # 0 /\ p.handedOff THEN bare
       ELSE IF p.session = 0 THEN quiet
       ELSE CloseReader(quiet, p.session)

\* dropHandoff.
DropHandoff(p, g) ==
    IF g \notin p.handed THEN p
    ELSE CloseReader([p EXCEPT !.handed = @ \ {g},
                               !.retiring = @ \cup {g},
                               !.awake = @ /\ (p.session # 0 \/ p.handed # {g})], g)

\* dialog.close(), whose event comes later.
CloseDialog(p) == IF p.open THEN [p EXCEPT !.open = FALSE, !.closing = @ + 1] ELSE p

DropHandoffsOf(p, r) ==
    LET theirs == {g \in p.handed : p.of[g] = r}
        left == p.handed \ theirs
    IN IF theirs = {} THEN p
       ELSE [p EXCEPT !.handed = left,
                      !.retiring = @ \cup theirs,
                      !.awake = @ /\ (p.session # 0 \/ left # {}),
                      !.reader = [g \in Plays |-> IF g \in theirs THEN "closed" ELSE @[g]]]

\* Mutant: only the dialog is looked at.
CloseDialogIf(p, r) ==
    IF p.session = 0 \/ p.of[p.session] # r THEN p
    ELSE IF p.open THEN CloseDialog(p) ELSE Teardown(p)

\* closePlayerIf: the tabs first, then the dialog.
ClosePlayerIf(p, r) ==
    LET q == DropHandoffsOf(p, r)
    IN IF q.session = 0 \/ q.of[q.session] # r THEN q
       ELSE IF q.open THEN CloseDialog(q) ELSE Teardown(q)

\* The end of startPlayer.
Lands(p, g) ==
    [Teardown(p) EXCEPT !.session = g, !.element = g, !.awake = TRUE, !.open = TRUE]

-----------------------------------------------------------------------------
(* runOpen                                                                 *)

WithoutPlay(r, at) ==
    [row EXCEPT ![r] = [at |-> at, play |-> 0, retried |-> FALSE, shown |-> @.shown]]

\* An open ends, and its progress tab (not modelled) is closed, shows the file or
\* says what went wrong.
Rests(r) == WithoutPlay(r, "rest")

\* The server refuses this location, as it does when it cannot read the list.
IsBlocked(r) == block[r] \in {"committed", "done", "listed", "kept"}

Goes(r, at) == row' = [row EXCEPT ![r].at = at]

\* The location of a resting row is clicked.
Click(r) ==
    /\ row[r].at = "rest" /\ row[r].shown
    /\ generation < MaxPlays
    /\ Goes(r, "checking")
    /\ UNCHANGED others

\* checkBlocked, which refuses as well when the list cannot be read.
Checked(r) ==
    /\ row[r].at = "checking"
    /\ \/ row' = Rests(r)
       \/ ~IsBlocked(r) /\ Goes(r, "opening")
    /\ UNCHANGED others

\* A failure is retried once, on a client that getSharedClient connects anew.
Retried(r) == ~row[r].retried /\ row' = [row EXCEPT ![r].retried = TRUE]

Done(r, at) == row' = [row EXCEPT ![r].at = at, ![r].retried = FALSE]

\* openAutonomi; a record the browser cannot open is the daemon's.
Opened(r) ==
    /\ row[r].at = "opening"
    /\ \/ Done(r, "reading")
       \/ Retried(r)
       \/ row[r].retried /\ Done(r, "fetching")
    /\ UNCHANGED others

\* The leading bytes; a transfer that fails is the daemon's.
Read(r) ==
    /\ row[r].at = "reading"
    /\ Goes(r, "planning") \/ Goes(r, "fetching")
    /\ UNCHANGED others

\* Stop is on the row while bytes may move.
Stop(r) ==
    /\ row[r].at \in {"opening", "reading"}
    /\ row' = Rests(r)
    /\ UNCHANGED others

\* postPlan reaches the server, which looks at the block list again.
PlanAnswered(r) ==
    /\ row[r].at = "planning"
    /\ \/ row' = Rests(r) /\ IsBlocked(r)
       \/ Goes(r, "planned") /\ ~IsBlocked(r)
       \/ Goes(r, "fetching")
    /\ UNCHANGED others

\* The rest of the file is shown, or saved (AvSave).
ShowOrSave(r) ==
    row' = WithoutPlay(r, "fetching") \/ row' = Rests(r)

\* The plan: played here, shown in the tab, or saved.
PlanHeard(r) ==
    /\ row[r].at = "planned"
    /\ \/ /\ generation < MaxPlays
          /\ generation' = generation + 1
          /\ row' = [row EXCEPT ![r].at = "creating", ![r].play = generation']
          /\ player' = [player EXCEPT !.of[generation'] = r]
       \/ ShowOrSave(r) /\ UNCHANGED <<generation, player>>
    /\ UNCHANGED <<media, tab, goodbyes, block, raced>>

\* createMediaSource, and once more through a new client when it fails.
Created(r) ==
    /\ row[r].at = "creating"
    /\ \/ /\ Done(r, "teaching")
          /\ player' = [player EXCEPT !.reader[row[r].play] = "open"]
       \/ Retried(r) /\ UNCHANGED player
       \/ /\ row[r].retried
          /\ ShowOrSave(r)
          /\ UNCHANGED player
    /\ UNCHANGED <<generation, media, tab, goodbyes, block, raced>>

\* av-media-type reaches the worker.
WorkerTaught(r) ==
    /\ row[r].at = "teaching" /\ row[r].play \notin media.taught
    /\ media' = [media EXCEPT !.taught = @ \cup {row[r].play}]
    /\ UNCHANGED <<row, generation, player, tab, goodbyes, block, raced>>

\* The worker did not take the type, or did not say so within five seconds.
TeachFails(r) ==
    /\ row[r].at = "teaching"
    /\ player' = CloseReader(player, row[r].play)
    /\ ShowOrSave(r)
    /\ UNCHANGED <<generation, media, tab, goodbyes, block, raced>>

\* Mutant: the loser of the race keeps its reader.
SupersededLeaks(r) ==
    /\ row[r].play # generation
    /\ row' = Rests(r)
    /\ UNCHANGED player

\* SupersededOpen: a newer click is ahead, and this one closes its own reader.
Superseded(r) ==
    /\ row[r].play # generation
    /\ player' = CloseReader(player, row[r].play)
    /\ row' = Rests(r)

\* startPlayer after its last await.
Taught(r) ==
    /\ row[r].at = "teaching" /\ row[r].play \in media.taught
    /\ \/ Superseded(r)
       \/ /\ row[r].play = generation
          /\ player' = Lands(player, row[r].play)
          /\ row' = Rests(r)
    /\ UNCHANGED <<generation, media, tab, goodbyes, block, raced>>

\* The rest goes to the server's viewer (POST /api/view/blob), and what fails is
\* the daemon's (FetchJob): shown, saved, refused, or failed with a word in the
\* tab.  Nothing of the page changes in between.
Fetched(r) ==
    /\ row[r].at = "fetching"
    /\ row' = Rests(r)
    /\ UNCHANGED others

-----------------------------------------------------------------------------
(* The dialog                                                              *)

\* Its close button, or Escape.
UserCloses ==
    /\ player.open
    /\ player' = CloseDialog(player)
    /\ UNCHANGED <<row, generation, media, tab, goodbyes, block, raced>>

CloseEvent ==
    /\ player.closing > 0
    /\ player' = Teardown([player EXCEPT !.closing = @ - 1])
    /\ UNCHANGED <<row, generation, media, tab, goodbyes, block, raced>>

\* Mutant: a second click hands the same session again.
HandAgain ==
    /\ player.session # 0
    /\ tab[player.session].copies < 2
    /\ tab' = [tab EXCEPT ![player.session].at = "loading",
                          ![player.session].copies = @ + 1]
    /\ player' = CloseDialog([player EXCEPT !.handed = @ \cup {player.session},
                                            !.handedOff = TRUE, !.element = 0])
    /\ UNCHANGED <<row, generation, media, goodbyes, block, raced>>

\* "Open in another tab"; the click may have been queued before the dialog was
\* closed.  A tab the browser refuses changes nothing.
OpenInTab ==
    /\ player.session # 0 /\ ~player.handedOff
    /\ tab' = [tab EXCEPT ![player.session].at = "loading",
                          ![player.session].copies = @ + 1]
    /\ player' = CloseDialog([player EXCEPT !.handed = @ \cup {player.session},
                                            !.handedOff = TRUE, !.element = 0])
    /\ LET r == player.of[player.session]
       IN raced' = IF row[r].shown THEN raced ELSE raced \cup {r}
    /\ UNCHANGED <<row, generation, media, goodbyes, block>>

\* The goodbye of a tab is heard.
HearGoodbye(g) ==
    /\ g \in goodbyes
    /\ goodbyes' = goodbyes \ {g}
    /\ player' = DropHandoff(player, g)
    /\ UNCHANGED <<row, generation, media, tab, block, raced>>

-----------------------------------------------------------------------------
(* Blocking and removing a row                                             *)

\* The dialog of the Block button is answered, and the request is sent.
AskBlock(r) ==
    /\ r \in Doomed /\ row[r].shown /\ block[r] = "none"
    /\ block' = [block EXCEPT ![r] = "asked"]
    /\ UNCHANGED <<row, generation, player, media, tab, goodbyes, raced>>

ServerBlocks(r) ==
    /\ block[r] = "asked"
    /\ block' = [block EXCEPT ![r] = "committed"]
    /\ UNCHANGED <<row, generation, player, media, tab, goodbyes, raced>>

\* Somebody else's block of the same file comes first: another page's, or `av block`.
BlockedElsewhere(r) ==
    /\ r \in Doomed /\ block[r] \in {"none", "asked"}
    /\ block' = [block EXCEPT ![r] = "listed"]
    /\ UNCHANGED <<row, generation, player, media, tab, goodbyes, raced>>

\* "Already blocked - nothing changed", which is also what the page does.
AlreadyBlocked(r) ==
    /\ block[r] = "listed" /\ row[r].shown
    /\ block' = [block EXCEPT ![r] = "kept"]
    /\ UNCHANGED <<row, generation, player, media, tab, goodbyes, raced>>

\* A row goes: closePlayerIf, then dropResult.  An open past its last look at the
\* block list, or past none when nothing is blocked, is not told.
Drops(r, unaware) ==
    /\ player' = ClosePlayerIf(player, r)
    /\ row' = [row EXCEPT ![r].shown = FALSE]
    /\ raced' = IF row[r].at \in unaware THEN raced \cup {r} ELSE raced

\* The answer to a block.
Blocked(r) ==
    /\ block[r] = "committed"
    /\ block' = [block EXCEPT ![r] = "done"]
    /\ Drops(r, {"planned", "creating", "teaching"})
    /\ UNCHANGED <<generation, media, tab, goodbyes>>

\* Remove: the answer to /api/purge.
Removed(r) ==
    /\ r \in Doomed /\ row[r].shown
    /\ Drops(r, Steps \ {"rest", "fetching"})
    /\ UNCHANGED <<generation, media, tab, goodbyes, block>>

-----------------------------------------------------------------------------
(* The worker and the player tabs                                          *)

TabEnds(g, at) == tab' = [tab EXCEPT ![g] = [at |-> at, copies |-> 0, asking |-> FALSE]]

TabFails(g) == TabEnds(g, "failed")

\* av-media-drop: the session is forgotten, and what waits for it fails.
WorkerDrops(g) ==
    /\ g \in player.retiring
    /\ player' = [player EXCEPT !.retiring = @ \ {g}]
    /\ media' = [taught |-> media.taught \ {g}, retired |-> media.retired \cup {g}]
    /\ IF tab[g].asking THEN TabFails(g) ELSE UNCHANGED tab
    /\ UNCHANGED <<row, generation, goodbyes, block, raced>>

\* The tab asks about the block list itself, and starts its player.  (The
\* `dropped` message it can hear from then on changes what it says, not what it
\* plays.)
TabStarts(g) ==
    /\ tab[g].at = "loading"
    /\ \/ TabEnds(g, "refused")
       \/ ~IsBlocked(player.of[g]) /\ tab' = [tab EXCEPT ![g].at = "playing"]
    /\ UNCHANGED <<row, generation, player, media, goodbyes, block, raced>>

\* The tab's player wants a range, which it may never do again once the rest of
\* the file is buffered.  handleStreamRequest: 404 for a retired session, or the
\* page is asked.
TabAsks(g) ==
    /\ tab[g].at = "playing" /\ ~tab[g].asking
    /\ \/ g \in media.retired /\ TabFails(g)
       \/ g \notin media.retired /\ tab' = [tab EXCEPT ![g].asking = TRUE]
    /\ UNCHANGED <<row, generation, player, media, goodbyes, block, raced>>

\* requestRangeFromPage: the page answers from its reader, if that is open;
\* 45 seconds of silence end the request.
RangeAnswered(g) ==
    /\ tab[g].asking
    /\ player.reader[g] = "open"
    /\ tab' = [tab EXCEPT ![g].asking = FALSE]
    /\ UNCHANGED <<row, generation, player, media, goodbyes, block, raced>>

RangeTimeout(g) ==
    /\ tab[g].asking
    /\ TabFails(g)
    /\ UNCHANGED <<row, generation, player, media, goodbyes, block, raced>>

\* The tab goes away, with a goodbye if it came as far as to start its player: a
\* tab that was refused, or closed while it loaded, has not armed its own yet.
\* A goodbye nobody listens for is left out.
TabGoes(g) ==
    /\ tab[g].at \in {"loading", "refused", "playing", "failed"}
    /\ TabEnds(g, "gone")
    /\ goodbyes' = goodbyes \cup ({g} \cap player.handed \cap
                     {h \in Plays : tab[h].at \in {"playing", "failed"}})
    /\ UNCHANGED <<row, generation, player, media, block, raced>>

-----------------------------------------------------------------------------

OpenStep(r) ==
    \/ Checked(r) \/ Opened(r) \/ Read(r) \/ PlanAnswered(r) \/ PlanHeard(r) \/ Created(r)
    \/ Taught(r) \/ TeachFails(r) \/ Fetched(r)

\* What the browser has queued for the page and for the worker.
Delivery == CloseEvent \/ \E g \in Plays : WorkerDrops(g)

TabStep(g) == TabAsks(g) \/ RangeAnswered(g) \/ RangeTimeout(g) \/ TabStarts(g)

Next ==
    \/ \E r \in Rows : \/ Click(r) \/ OpenStep(r) \/ Stop(r) \/ WorkerTaught(r)
                       \/ AskBlock(r) \/ ServerBlocks(r) \/ Blocked(r) \/ Removed(r)
                       \/ BlockedElsewhere(r) \/ AlreadyBlocked(r)
    \/ UserCloses \/ CloseEvent \/ OpenInTab
    \/ \E g \in Plays : HearGoodbye(g) \/ WorkerDrops(g) \/ TabStep(g) \/ TabGoes(g)

\* The browser delivers what it has queued for the page and for the worker.
\* Nothing is asked of a tab, of the network or of the server.
Spec == Init /\ [][Next]_vars /\ WF_vars(Delivery)

-----------------------------------------------------------------------------
(* Properties                                                              *)

\* The page keeps track of every reader that is open: it is that of the open that
\* waits for the worker, of the dialog's session, or of a session it remembers to
\* have handed to a tab, so that a block or a removal can still close it.
ReadersAreOwned ==
    \A g \in Plays :
      player.reader[g] = "open" =>
        \/ g = player.session \/ g \in player.handed
        \/ \E r \in Rows : row[r].at = "teaching" /\ row[r].play = g

\* "Two consumers on one reader interleave badly" (the handoff of app.js).
OneConsumer ==
    \A g \in Plays : (IF player.element = g THEN 1 ELSE 0) + tab[g].copies <= 1

\* The worker is pinged as long as the dialog or a tab plays.
PlayingIsAwake == player.session # 0 \/ player.handed # {} => player.awake

\* Nothing of the row's file comes any more: the dialog does not play it, none of its
\* readers is open, and no tab waits for a range of it.
Cut(r) ==
    \A g \in {h \in Plays : player.of[h] = r} :
      player.element # g /\ player.reader[g] # "open" /\ ~tab[g].asking

(***************************************************************************)
(* Blocking or removing a file that is streamed "would otherwise keep the  *)
(* bytes arriving after the row is gone" (closePlayerIf): once the row is  *)
(* gone the bytes end, and for good, in the dialog, in a tab that plays    *)
(* and in one that is still loading.  Left out are the rows whose open was *)
(* past its last look at the block list, at a removal any open on its way, *)
(* and a click on "Open in another tab" that arrives as the dialog closes. *)
(* A tab may play on what it has buffered.                                 *)
(***************************************************************************)
BytesStop == \A r \in Doomed : ~row[r].shown ~> [](Cut(r) \/ r \in raced)

IsPlaying(r) ==
    \/ player.element # 0 /\ player.of[player.element] = r
    \/ \E g \in Plays : player.of[g] = r /\ tab[g].at = "playing"

\* Known not to hold: "the block is the user saying this file stops now, wherever it
\* is playing" (closePlayerIf).  A tab that has buffered the file asks for nothing,
\* and its `dropped` handler pauses nothing (render.rs); a block that was recorded
\* by somebody else before does not even close the dialog; an open past the plan
\* begins to play.
BlockStops == \A r \in Doomed : block[r] \in {"done", "kept"} ~> [](~IsPlaying(r))

\* Known not to hold: "A block that lands during the fetch is caught there, and
\* nothing is served either way" (runOpen): once the page has blocked a row, its
\* file does not begin to play.
NothingPlaysBlocked ==
    [][\A r \in Rows : block[r] = "done" /\ ~IsPlaying(r) => ~IsPlaying(r)']_vars

\* Known not to hold: the page closes the reader of a tab that was refused, or went
\* away while it loaded.  Such a tab has not yet armed its goodbye.
HandedReadersEnd ==
    \A g \in Plays : tab[g].at = "gone" ~> player.reader[g] # "open"

=============================================================================
