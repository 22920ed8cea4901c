--------------------------- MODULE AvPlayerProofs ---------------------------
(***************************************************************************)
(* Theorems about AvPlayer, for any number of rows and of plays.           *)
(***************************************************************************)
EXTENDS AvPlayer, TLAPS

(***************************************************************************)
(* What holds of the player alone: the dialog streams its own session and  *)
(* only until that is handed to a tab, whoever plays keeps the worker      *)
(* awake, and a session that was handed over is in the list of the tabs,   *)
(* unless its tab has gone and its reader is closed.                       *)
(***************************************************************************)
Sound(p) ==
    /\ p \in PlayerState
    /\ p.element # 0 => p.element = p.session /\ ~p.handedOff
    /\ p.session # 0 \/ p.handed # {} => p.awake
    /\ p.session # 0 /\ p.handedOff =>
          p.session \in p.handed \/ p.reader[p.session] # "open"

\* A play whose reader nobody has got yet.
Unused(g) ==
    /\ g # player.session
    /\ g \notin player.handed \cup player.retiring \cup media.retired
    /\ tab[g].copies = 0

Pending(r) == row[r].at \in {"creating", "teaching"}

\* A pending open has a play of its own, not used, as are those to come.
PlaysAreFresh ==
    /\ \A r \in Rows : Pending(r) => row[r].play \in 1 .. generation /\ Unused(row[r].play)
    /\ \A r, s \in Rows : Pending(r) /\ Pending(s) /\ row[r].play = row[s].play => r = s
    /\ \A g \in Plays : g > generation => Unused(g)

\* A play has one tab at most, and none while the dialog has it.
TabsAreSingle ==
    /\ \A g \in Plays : tab[g].copies <= 1
    /\ player.session # 0 /\ ~player.handedOff => tab[player.session].copies = 0

MediaShaped == media \in [taught : SUBSET Plays, retired : SUBSET Plays]

PlayerInv ==
    /\ PlayerTypeOK
    /\ MediaShaped
    /\ Sound(player)
    /\ PlaysAreFresh
    /\ TabsAreSingle
    /\ ReadersAreOwned

-----------------------------------------------------------------------------
(* Letting go                                                              *)

\* What closing anything does to the player: nothing is gained, and a reader that
\* stays open keeps the owner it had.
LetsGo(p, q) ==
    /\ Sound(q)
    /\ q.session \in {0, p.session}
    /\ q.handed \subseteq p.handed
    /\ q.retiring \subseteq p.retiring \cup p.handed
    /\ q.session # 0 => q.handedOff = p.handedOff
    /\ \A g \in Plays :
          q.reader[g] = "open" =>
             /\ p.reader[g] = "open"
             /\ g = p.session \/ g \in p.handed => g = q.session \/ g \in q.handed

LEMMA LettingGoInTurn ==
    ASSUME NEW p, NEW q, NEW t, LetsGo(p, q), LetsGo(q, t), Sound(p)
    PROVE  LetsGo(p, t)
BY DEF LetsGo, Sound, PlayerState

LEMMA NothingLetGo ==
    ASSUME NEW p, Sound(p)
    PROVE  LetsGo(p, p)
BY DEF LetsGo

\* teardownPlayer.
LEMMA TeardownLetsGo ==
    ASSUME NEW p, Sound(p)
    PROVE  /\ LetsGo(p, Teardown(p))
           /\ Teardown(p).session = 0
<1>1. CASE p.session # 0 /\ p.handedOff
  BY <1>1 DEF Teardown, LetsGo, Sound, PlayerState
<1>2. CASE p.session = 0
  BY <1>2 DEF Teardown, LetsGo, Sound, PlayerState
<1>3. CASE p.session # 0 /\ ~p.handedOff
  <2> DEFINE q == Teardown(p)
  <2>1. q = [[p EXCEPT !.session = 0, !.handedOff = FALSE, !.element = 0]
                EXCEPT !.awake = p.awake /\ p.handed # {},
                       !.reader = [p.reader EXCEPT ![p.session] = "closed"]]
    BY <1>3 DEF Teardown, CloseReader, Sound, PlayerState
  <2> HIDE DEF q
  <2>2. q \in PlayerState
    <3> DEFINE a == p.awake /\ p.handed # {}
               c == [p.reader EXCEPT ![p.session] = "closed"]
    <3>0. a \in BOOLEAN
      OBVIOUS
    <3>b. 0 \in 0 .. MaxPlays
      BY MaxPlaysAssumption
    <3>1. c \in [Plays -> {"none", "open", "closed"}]
      BY DEF Sound, PlayerState
    <3>2. q = [[p EXCEPT !.session = 0, !.handedOff = FALSE, !.element = 0]
                  EXCEPT !.awake = a, !.reader = c]
      BY <2>1
    <3> HIDE DEF a, c
    <3> QED
      BY <3>0, <3>b, <3>1, <3>2 DEF Sound, PlayerState
  <2>3. /\ q.session = 0 /\ q.element = 0 /\ q.handed = p.handed /\ q.retiring = p.retiring
        /\ q.reader = [p.reader EXCEPT ![p.session] = "closed"]
        /\ p.handed # {} => q.awake
    BY <2>1 DEF Sound, PlayerState
  <2>4. LetsGo(p, q) /\ q.session = 0
    BY <1>3, <2>2, <2>3 DEF LetsGo, Sound, PlayerState
  <2> QED
    BY <2>4 DEF q
<1> QED
  BY <1>1, <1>2, <1>3 DEF Sound, PlayerState

\* dialog.close().
LEMMA CloseDialogLetsGo ==
    ASSUME NEW p, Sound(p)
    PROVE  LetsGo(p, CloseDialog(p))
<1>1. CASE ~p.open
  BY <1>1, NothingLetGo DEF CloseDialog
<1>2. CASE p.open
  <2> DEFINE n == p.closing + 1
             q == [p EXCEPT !.open = FALSE, !.closing = n]
  <2>1. n \in Nat
    BY DEF Sound, PlayerState
  <2> HIDE DEF n
  <2>2. q \in PlayerState
    BY <2>1 DEF Sound, PlayerState
  <2>3. LetsGo(p, q)
    BY <2>2 DEF LetsGo, Sound, PlayerState
  <2> QED
    BY <1>2, <2>3 DEF n, CloseDialog
<1> QED
  BY <1>1, <1>2

\* dropHandoff.
LEMMA DropHandoffLetsGo ==
    ASSUME NEW p, Sound(p), NEW g \in Plays
    PROVE  LetsGo(p, DropHandoff(p, g))
<1>1. CASE g \notin p.handed
  BY <1>1, NothingLetGo DEF DropHandoff
<1>2. CASE g \in p.handed
  <2> DEFINE q == DropHandoff(p, g)
  <2>1. q = [p EXCEPT !.handed = @ \ {g}, !.retiring = @ \cup {g},
                      !.awake = @ /\ (p.session # 0 \/ p.handed # {g}),
                      !.reader = [p.reader EXCEPT ![g] = "closed"]]
    BY <1>2 DEF DropHandoff, CloseReader, Sound, PlayerState
  <2> HIDE DEF q
  <2>2. q \in PlayerState
    BY <2>1 DEF Sound, PlayerState
  <2>3. /\ q.session = p.session /\ q.element = p.element /\ q.handedOff = p.handedOff
        /\ q.handed = p.handed \ {g} /\ q.retiring = p.retiring \cup {g}
        /\ q.reader = [p.reader EXCEPT ![g] = "closed"]
        /\ q.session # 0 \/ q.handed # {} => q.awake
    BY <1>2, <2>1 DEF Sound, PlayerState
  <2>4. LetsGo(p, q)
    BY <1>2, <2>2, <2>3 DEF LetsGo, Sound, PlayerState
  <2> QED
    BY <2>4 DEF q
<1> QED
  BY <1>1, <1>2

\* closePlayerIf.
LEMMA DropHandoffsLetsGo ==
    ASSUME NEW p, Sound(p), NEW r
    PROVE  LetsGo(p, DropHandoffsOf(p, r))
<1> DEFINE q == DropHandoffsOf(p, r)
           theirs == {g \in p.handed : p.of[g] = r}
<1>1. CASE theirs = {}
  BY <1>1, NothingLetGo DEF DropHandoffsOf
<1>2. CASE theirs # {}
  <2>1. q = [p EXCEPT !.handed = p.handed \ theirs,
                      !.retiring = p.retiring \cup theirs,
                      !.awake = p.awake /\ (p.session # 0 \/ p.handed \ theirs # {}),
                      !.reader = [g \in Plays |-> IF g \in theirs THEN "closed"
                                                 ELSE p.reader[g]]]
    BY <1>2 DEF DropHandoffsOf, Sound, PlayerState
  <2>t. theirs \subseteq p.handed
    OBVIOUS
  <2> HIDE DEF q, theirs
  <2>2. q \in PlayerState
    BY <2>1, <2>t DEF Sound, PlayerState
  <2>3. /\ q.session = p.session /\ q.element = p.element /\ q.handedOff = p.handedOff
        /\ q.handed = p.handed \ theirs /\ q.retiring = p.retiring \cup theirs
        /\ \A g \in Plays : q.reader[g] = "open" => g \notin theirs /\ p.reader[g] = "open"
        /\ q.session # 0 \/ q.handed # {} => q.awake
    BY <2>1 DEF Sound, PlayerState
  <2>4. LetsGo(p, q)
    <3>1. Sound(q)
      BY <2>2, <2>3, <2>t DEF Sound, PlayerState, Plays
    <3> QED
      BY <3>1, <2>3, <2>t DEF LetsGo
  <2> QED
    BY <2>4 DEF q
<1> QED
  BY <1>1, <1>2

LEMMA ClosePlayerLetsGo ==
    ASSUME NEW p, Sound(p), NEW r
    PROVE  LetsGo(p, ClosePlayerIf(p, r))
<1> DEFINE q == DropHandoffsOf(p, r)
<1>1. LetsGo(p, q) /\ Sound(q)
  BY DropHandoffsLetsGo DEF LetsGo
<1>2. LetsGo(q, q) /\ LetsGo(q, CloseDialog(q)) /\ LetsGo(q, Teardown(q))
  BY <1>1, NothingLetGo, CloseDialogLetsGo, TeardownLetsGo
<1>3. ClosePlayerIf(p, r) \in {q, CloseDialog(q), Teardown(q)}
  BY DEF ClosePlayerIf
<1> HIDE DEF q
<1> QED
  BY <1>1, <1>2, <1>3, LettingGoInTurn

-----------------------------------------------------------------------------
(* The steps                                                               *)

\* The parts of the invariant that a step of one row may disturb.
RowParts == PlaysAreFresh /\ TabsAreSingle /\ ReadersAreOwned

\* An open lets go of its play.
LEMMA RowWithoutPlay ==
    ASSUME row \in [Rows -> RowState], NEW r \in Rows, ShowOrSave(r) \/ row' = Rests(r)
    PROVE  /\ row' \in [Rows -> RowState] /\ ~Pending(r)'
           /\ \A s \in Rows \ {r} : row'[s] = row[s]
<1>1. PICK at \in {"rest", "fetching"} :
         row' = [row EXCEPT ![r] = [at |-> at, play |-> 0, retried |-> FALSE,
                                    shown |-> row[r].shown]]
  BY DEF ShowOrSave, Rests, WithoutPlay
<1> DEFINE new == [at |-> at, play |-> 0, retried |-> FALSE, shown |-> row[r].shown]
<1>2. new \in RowState /\ new.at = at
  <2>1. 0 \in 0 .. MaxPlays /\ row[r].shown \in BOOLEAN
    BY MaxPlaysAssumption DEF RowState
  <2> QED
    BY <2>1 DEF RowState, Steps
<1> HIDE DEF new
<1> QED
  BY <1>1, <1>2 DEF Pending, new

\* A row moves and nothing else does: it was not waiting for the worker, and it
\* is pending only if it was.
LEMMA RowMoves ==
    ASSUME PlayerInv, NEW r \in Rows, row[r].at # "teaching",
           \A s \in Rows \ {r} : row'[s] = row[s],
           Pending(r)' => Pending(r) /\ row'[r].play = row[r].play,
           UNCHANGED <<generation, player, media, tab>>
    PROVE  RowParts'
<1>1. \A g : Unused(g) => Unused(g)'
  BY DEF Unused
<1>2. \A s \in Rows : Pending(s)' => Pending(s) /\ row'[s].play = row[s].play
  BY DEF Pending
<1>3. PlaysAreFresh'
  BY <1>1, <1>2 DEF PlayerInv, PlaysAreFresh
<1>4. TabsAreSingle'
  BY DEF PlayerInv, TabsAreSingle
<1>5. ReadersAreOwned'
  BY DEF PlayerInv, ReadersAreOwned
<1> QED
  BY <1>3, <1>4, <1>5 DEF RowParts

\* A step that only lets go, whatever it changes of the rows but their opens.
LEMMA LettingGoKeeps ==
    ASSUME PlayerInv, LetsGo(player, player'),
           \A r \in Rows : row'[r].at = row[r].at /\ row'[r].play = row[r].play,
           UNCHANGED <<generation, media, tab>>
    PROVE  RowParts'
<1>0. generation \in Nat
  BY MaxPlaysAssumption DEF PlayerInv, PlayerTypeOK
<1>1. \A g \in Plays : g # 0
  BY DEF Plays
<1>2. \A g \in Plays : Unused(g) => Unused(g)'
  BY <1>1 DEF LetsGo, Unused
<1>3. \A r \in Rows : Pending(r)' <=> Pending(r)
  BY DEF Pending
<1>4. 1 .. generation \subseteq Plays
  BY MaxPlaysAssumption DEF PlayerInv, PlayerTypeOK, Plays
<1>5. PlaysAreFresh'
  BY <1>2, <1>3, <1>4 DEF PlaysAreFresh, PlayerInv
<1>6. TabsAreSingle'
  BY DEF LetsGo, TabsAreSingle, PlayerInv
<1>7. ReadersAreOwned'
  BY DEF LetsGo, ReadersAreOwned, PlayerInv
<1> QED
  BY <1>5, <1>6, <1>7 DEF RowParts

\* No tab is added, and what the worker retires is on its way there.
LEMMA TabsKeep ==
    ASSUME PlayerInv, \A g \in Plays : tab'[g].copies <= tab[g].copies,
           tab' \in [Plays -> TabState],
           player'.retiring \cup media'.retired \subseteq player.retiring \cup media.retired,
           player' = [player EXCEPT !.retiring = player'.retiring],
           UNCHANGED <<row, generation>>
    PROVE  RowParts'
<1>0. player \in PlayerState /\ tab \in [Plays -> TabState]
  BY DEF PlayerInv, PlayerTypeOK
<1>p. /\ player'.session = player.session /\ player'.handedOff = player.handedOff
      /\ player'.handed = player.handed /\ player'.reader = player.reader
  BY <1>0 DEF PlayerState
<1>1. \A g \in Plays : /\ tab[g].copies \in 0 .. 2 /\ tab'[g].copies \in 0 .. 2
                       /\ tab[g].copies = 0 => tab'[g].copies = 0
  BY <1>0 DEF TabState
<1>2. \A g \in Plays : Unused(g) => Unused(g)'
  BY <1>1, <1>p DEF Unused
<1>4. 1 .. generation \subseteq Plays
  BY MaxPlaysAssumption DEF PlayerInv, PlayerTypeOK, Plays
<1>5. PlaysAreFresh'
  BY <1>2, <1>4 DEF PlaysAreFresh, PlayerInv, Pending
<1>6. TabsAreSingle'
  <2>1. player.session # 0 => player.session \in Plays
    BY <1>0, MaxPlaysAssumption DEF PlayerState, Plays
  <2>2. \A g \in Plays : tab'[g].copies <= 1
    BY <1>1 DEF TabsAreSingle, PlayerInv
  <2> QED
    BY <1>1, <1>p, <2>1, <2>2 DEF TabsAreSingle, PlayerInv
<1>7. ReadersAreOwned'
  BY <1>p DEF ReadersAreOwned, PlayerInv
<1> QED
  BY <1>5, <1>6, <1>7 DEF RowParts

\* The plan is to play: a play is numbered for it.
LEMMA PlanHeardKeeps ==
    ASSUME PlayerInv, NEW r \in Rows, PlanHeard(r)
    PROVE  PlayerInv'
<1>0. /\ player \in PlayerState /\ row \in [Rows -> RowState] /\ generation \in 0 .. MaxPlays
      /\ MaxPlays \in Nat
  BY MaxPlaysAssumption DEF PlayerInv, PlayerTypeOK
<1>1. CASE ShowOrSave(r) /\ UNCHANGED <<generation, player>>
  <2>1. row' \in [Rows -> RowState] /\ ~Pending(r)' /\ \A s \in Rows \ {r} : row'[s] = row[s]
    BY <1>0, <1>1, RowWithoutPlay
  <2>2. RowParts'
    BY <1>1, <2>1, RowMoves DEF PlanHeard
  <2> QED
    BY <1>1, <2>1, <2>2 DEF PlanHeard, RowParts, PlayerInv, PlayerTypeOK, MediaShaped, Sound
<1>2. CASE /\ generation < MaxPlays
           /\ generation' = generation + 1
           /\ row' = [row EXCEPT ![r].at = "creating", ![r].play = generation']
           /\ player' = [player EXCEPT !.of[generation'] = r]
  <2> DEFINE g == generation'
  <2>1. g \in Plays /\ g = generation + 1 /\ generation' \in 0 .. MaxPlays
    BY <1>0, <1>2 DEF Plays
  <2>2. /\ row' \in [Rows -> RowState] /\ row'[r].at = "creating" /\ row'[r].play = g
        /\ \A s \in Rows \ {r} : row'[s] = row[s]
    BY <1>0, <1>2, <2>1 DEF RowState, Steps
  <2>3. /\ player' \in PlayerState /\ Sound(player')
        /\ player'.session = player.session /\ player'.handed = player.handed
        /\ player'.retiring = player.retiring /\ player'.reader = player.reader
        /\ player'.handedOff = player.handedOff
    <3>1. [player.of EXCEPT ![g] = r] \in [Plays -> Rows]
      BY <1>0 DEF PlayerState
    <3>2. player' = [player EXCEPT !.of = [player.of EXCEPT ![g] = r]]
      BY <1>0, <1>2 DEF PlayerState
    <3>3. player' \in PlayerState
      BY <1>0, <3>1, <3>2 DEF PlayerState
    <3>4. /\ player'.session = player.session /\ player'.handed = player.handed
          /\ player'.retiring = player.retiring /\ player'.reader = player.reader
          /\ player'.handedOff = player.handedOff /\ player'.element = player.element
          /\ player'.awake = player.awake
      BY <1>0, <3>2 DEF PlayerState
    <3> QED
      BY <3>3, <3>4 DEF Sound, PlayerInv
  <2>4. \A h : Unused(h) => Unused(h)'
    BY <1>2, <2>3 DEF Unused, PlanHeard
  <2>5. PlaysAreFresh'
    <3>1. \A h : h = g => Unused(h)'
      BY <1>0, <2>1, <2>4 DEF PlayerInv, PlaysAreFresh
    <3>2. \A s \in Rows \ {r} : Pending(s)' => Pending(s) /\ row'[s].play = row[s].play
      BY <2>2 DEF Pending
    <3>3. \A s \in Rows \ {r} : Pending(s)' => row'[s].play \in 1 .. generation
      BY <3>2 DEF PlayerInv, PlaysAreFresh
    <3>4. \A s \in Rows : Pending(s)' => row'[s].play \in 1 .. generation' /\ Unused(row[s].play)'
      BY <1>0, <2>1, <2>2, <2>4, <3>1, <3>2, <3>3 DEF PlayerInv, PlaysAreFresh
    <3>5. \A s, t \in Rows : Pending(s)' /\ Pending(t)' /\ row'[s].play = row'[t].play => s = t
      BY <1>0, <2>1, <2>2, <3>2, <3>3 DEF PlayerInv, PlaysAreFresh
    <3>6. \A h \in Plays : h > generation' => Unused(h)'
      BY <1>0, <2>1, <2>4 DEF PlayerInv, PlaysAreFresh, Plays
    <3> QED
      BY <3>4, <3>5, <3>6 DEF PlaysAreFresh
  <2>6. TabsAreSingle'
    BY <2>3 DEF PlanHeard, PlayerInv, TabsAreSingle
  <2>7. ReadersAreOwned'
    <3>1. \A s \in Rows : row[s].at = "teaching" => row'[s] = row[s]
      BY <2>2 DEF PlanHeard
    <3> QED
      BY <2>3, <3>1 DEF PlayerInv, ReadersAreOwned
  <2> QED
    BY <2>1, <2>2, <2>3, <2>5, <2>6, <2>7
    DEF PlanHeard, PlayerInv, PlayerTypeOK, MediaShaped
<1> QED
  BY <1>1, <1>2 DEF PlanHeard

\* A reader is opened, or not.
LEMMA CreatedKeeps ==
    ASSUME PlayerInv, NEW r \in Rows, Created(r)
    PROVE  PlayerInv'
<1>0. player \in PlayerState /\ row \in [Rows -> RowState]
  BY DEF PlayerInv, PlayerTypeOK
<1>g. row[r].play \in 1 .. generation /\ Unused(row[r].play) /\ row[r].play \in Plays
  BY MaxPlaysAssumption
  DEF Created, Pending, PlayerInv, PlayerTypeOK, PlaysAreFresh, Plays
<1>1. CASE (Retried(r) \/ ShowOrSave(r)) /\ UNCHANGED player
  <2>1. /\ row' \in [Rows -> RowState] /\ (\A s \in Rows \ {r} : row'[s] = row[s])
        /\ (Pending(r)' => row'[r].play = row[r].play)
    <3>1. CASE Retried(r)
      BY <1>0, <3>1 DEF Retried, RowState
    <3>2. CASE ShowOrSave(r)
      BY <1>0, <3>2, RowWithoutPlay
    <3> QED
      BY <1>1, <3>1, <3>2
  <2>2. RowParts'
    BY <1>1, <2>1, RowMoves DEF Created, Pending
  <2> QED
    BY <1>1, <2>1, <2>2 DEF Created, RowParts, PlayerInv, PlayerTypeOK, MediaShaped, Sound
<1>2. CASE Done(r, "teaching") /\ player' = [player EXCEPT !.reader[row[r].play] = "open"]
  <2> DEFINE g == row[r].play
  <2>2. /\ row' \in [Rows -> RowState] /\ row'[r].at = "teaching" /\ row'[r].play = g
        /\ \A s \in Rows \ {r} : row'[s] = row[s]
    BY <1>0, <1>2 DEF Done, RowState, Steps
  <2>3. /\ player' \in PlayerState
        /\ player'.session = player.session /\ player'.handed = player.handed
        /\ player'.retiring = player.retiring /\ player'.element = player.element
        /\ player'.handedOff = player.handedOff /\ player'.awake = player.awake
        /\ \A h \in Plays \ {g} : player'.reader[h] = player.reader[h]
    <3>1. [player.reader EXCEPT ![g] = "open"] \in [Plays -> {"none", "open", "closed"}]
      BY <1>0 DEF PlayerState
    <3>2. player' = [player EXCEPT !.reader = [player.reader EXCEPT ![g] = "open"]]
      BY <1>0, <1>2 DEF PlayerState
    <3> QED
      BY <1>0, <1>g, <3>1, <3>2 DEF PlayerState
  <2>4. Sound(player')
    <3>1. player.session # 0 => player.session \in Plays \ {g}
      BY <1>0, <1>g, MaxPlaysAssumption DEF Unused, PlayerState, Plays
    <3> QED
      BY <2>3, <3>1 DEF Sound, PlayerInv
  <2>5. \A h : Unused(h) => Unused(h)'
    BY <2>3 DEF Unused, Created
  <2>6. \A s \in Rows : (Pending(s)' <=> Pending(s)) /\ row'[s].play = row[s].play
    BY <2>2 DEF Pending, Created
  <2>7. PlaysAreFresh'
    BY <2>5, <2>6 DEF PlaysAreFresh, PlayerInv, Created
  <2>8. TabsAreSingle'
    BY <2>3 DEF Created, PlayerInv, TabsAreSingle
  <2>9. ReadersAreOwned'
    <3>1. \A s \in Rows : row[s].at = "teaching" => row'[s] = row[s]
      BY <2>2 DEF Created
    <3> QED
      BY <2>2, <2>3, <3>1 DEF PlayerInv, ReadersAreOwned
  <2> QED
    BY <2>2, <2>3, <2>4, <2>7, <2>8, <2>9 DEF Created, PlayerInv, PlayerTypeOK, MediaShaped
<1> QED
  BY <1>1, <1>2 DEF Created

\* The open of a row ends, and its reader is closed or goes to the dialog.
LEMMA PlayEnds ==
    ASSUME PlayerInv, NEW r \in Rows, row[r].at = "teaching",
           \/ player' = CloseReader(player, row[r].play)
           \/ player' = Lands(player, row[r].play),
           row' \in [Rows -> RowState], ~Pending(r)',
           \A s \in Rows \ {r} : row'[s] = row[s],
           UNCHANGED <<generation, media, tab>>
    PROVE  RowParts' /\ Sound(player')
<1> DEFINE g == row[r].play
<1>0. player \in PlayerState /\ row \in [Rows -> RowState]
  BY DEF PlayerInv, PlayerTypeOK
<1>1. g \in 1 .. generation /\ Unused(g) /\ g \in Plays
  BY MaxPlaysAssumption DEF Pending, PlayerInv, PlayerTypeOK, PlaysAreFresh, Plays
<1>2. \A s \in Rows : Pending(s)' => s # r /\ Pending(s) /\ row'[s] = row[s]
  BY DEF Pending
<1>3. \A s \in Rows : Pending(s)' => row[s].play # g
  BY <1>2 DEF PlayerInv, PlaysAreFresh, Pending
<1>4. \A s \in Rows : row[s].at = "teaching" /\ row[s].play # g => row'[s] = row[s]
  OBVIOUS
<1>5. \A s, t \in Rows : Pending(s)' /\ Pending(t)' /\ row'[s].play = row'[t].play => s = t
  BY <1>2 DEF PlayerInv, PlaysAreFresh
<1>6. CASE player' = CloseReader(player, g)
  <2>1. [player.reader EXCEPT ![g] = "closed"] \in [Plays -> {"none", "open", "closed"}]
    BY <1>0 DEF PlayerState
  <2>2. player' = [player EXCEPT !.reader = [player.reader EXCEPT ![g] = "closed"]]
    BY <1>0, <1>6 DEF PlayerState, CloseReader
  <2>3. /\ player' \in PlayerState
        /\ player'.session = player.session /\ player'.handed = player.handed
        /\ player'.retiring = player.retiring /\ player'.element = player.element
        /\ player'.handedOff = player.handedOff /\ player'.awake = player.awake
        /\ \A h \in Plays : player'.reader[h] = "open" => h # g /\ player.reader[h] = "open"
    BY <1>0, <1>1, <2>1, <2>2 DEF PlayerState
  <2>4. Sound(player')
    <3>1. player.session # 0 => player.session \in Plays
      BY <1>0, MaxPlaysAssumption DEF PlayerState, Plays
    <3> QED
      BY <2>3, <3>1 DEF Sound, PlayerInv
  <2>5. \A h : Unused(h) => Unused(h)'
    BY <2>3 DEF Unused
  <2>6. PlaysAreFresh'
    BY <1>2, <1>5, <2>5 DEF PlaysAreFresh, PlayerInv
  <2>7. TabsAreSingle'
    BY <2>3 DEF PlayerInv, TabsAreSingle
  <2>8. ReadersAreOwned'
    BY <1>4, <2>3 DEF PlayerInv, ReadersAreOwned
  <2> QED
    BY <2>4, <2>6, <2>7, <2>8 DEF RowParts
<1>7. CASE player' = Lands(player, g)
  <2> DEFINE t == Teardown(player)
  <2>1. LetsGo(player, t) /\ Sound(t) /\ t \in PlayerState /\ t.session = 0
    BY TeardownLetsGo DEF PlayerInv, LetsGo, Sound
  <2>2. t.handedOff = FALSE
    BY <1>0 DEF Teardown, CloseReader, PlayerState
  <2>3. player' = [t EXCEPT !.session = g, !.element = g, !.awake = TRUE, !.open = TRUE]
    BY <1>7 DEF Lands
  <2> HIDE DEF t
  <2>4. g \in 0 .. MaxPlays
    BY <1>1, MaxPlaysAssumption DEF Plays
  <2>5. /\ player' \in PlayerState
        /\ player'.session = g /\ player'.element = g /\ player'.awake
        /\ ~player'.handedOff /\ player'.handed = t.handed
        /\ player'.retiring = t.retiring /\ player'.reader = t.reader
    BY <2>1, <2>2, <2>3, <2>4 DEF PlayerState
  <2>6. Sound(player')
    BY <2>5 DEF Sound
  <2>7. \A h \in Plays : h # g /\ Unused(h) => Unused(h)'
    BY <2>1, <2>5 DEF Unused, LetsGo
  <2>8. 1 .. generation \subseteq Plays /\ generation \in Nat
    BY MaxPlaysAssumption DEF PlayerInv, PlayerTypeOK, Plays
  <2>9. PlaysAreFresh'
    <3>1. \A s \in Rows : Pending(s)' => row'[s].play \in 1 .. generation /\ Unused(row[s].play)'
      <4> SUFFICES ASSUME NEW s \in Rows, Pending(s)'
                   PROVE  row'[s].play \in 1 .. generation /\ Unused(row[s].play)'
        OBVIOUS
      <4>1. /\ row'[s] = row[s] /\ row[s].play # g
            /\ row[s].play \in 1 .. generation /\ Unused(row[s].play)
        BY <1>2, <1>3 DEF PlaysAreFresh, PlayerInv
      <4>2. \A h : h = row[s].play => Unused(h)'
        BY <2>7, <2>8, <4>1
      <4> QED
        BY <4>1, <4>2
    <3>2. \A h \in Plays : h > generation => Unused(h)'
      <4>1. \A h \in Plays : h > generation => h # g
        BY <1>1, <2>8
      <4> QED
        BY <4>1, <2>7 DEF PlaysAreFresh, PlayerInv
    <3> QED
      BY <1>5, <3>1, <3>2 DEF PlaysAreFresh
  <2>10. TabsAreSingle'
    BY <1>1, <2>5 DEF PlayerInv, TabsAreSingle, Unused
  <2>11. ReadersAreOwned'
    <3>1. ASSUME NEW h \in Plays, player'.reader[h] = "open", h # g
          PROVE  \/ h \in player'.handed
                 \/ \E s \in Rows : row'[s].at = "teaching" /\ row'[s].play = h
      <4>1. /\ player.reader[h] = "open" /\ h # 0
            /\ h = player.session \/ h \in player.handed => h \in player'.handed
        BY <2>1, <2>5, <3>1 DEF LetsGo, Plays
      <4> QED
        BY <1>4, <3>1, <4>1 DEF PlayerInv, ReadersAreOwned
    <3> QED
      BY <2>5, <3>1 DEF ReadersAreOwned
  <2> QED
    BY <2>6, <2>9, <2>10, <2>11 DEF RowParts
<1> QED
  BY <1>6, <1>7

-----------------------------------------------------------------------------
(* The invariant                                                           *)

LEMMA InitInv == Init => PlayerInv
<1> SUFFICES ASSUME Init PROVE PlayerInv
  OBVIOUS
<1>0. MaxPlays \in Nat /\ 0 \in 0 .. MaxPlays /\ (CHOOSE r \in Rows : TRUE) \in Rows
  BY MaxPlaysAssumption, RowsAssumption
<1>1. player \in PlayerState
  BY <1>0 DEF Init, PlayerState
<1>2. row \in [Rows -> RowState] /\ tab \in [Plays -> TabState]
  BY <1>0 DEF Init, RowState, Steps, TabState
<1>3. PlayerTypeOK /\ MediaShaped
  BY <1>0, <1>1, <1>2 DEF Init, PlayerTypeOK, MediaShaped, BlockStates
<1>4. Sound(player) /\ TabsAreSingle /\ ReadersAreOwned
  BY <1>1 DEF Init, Sound, TabsAreSingle, ReadersAreOwned
<1>5. PlaysAreFresh
  BY DEF Init, PlaysAreFresh, Unused, Pending, Plays
<1> QED
  BY <1>3, <1>4, <1>5 DEF PlayerInv

LEMMA OpenStepKeeps ==
    ASSUME PlayerInv, NEW r \in Rows, Click(r) \/ OpenStep(r) \/ Stop(r)
    PROVE  PlayerInv'
<1>0. player \in PlayerState /\ row \in [Rows -> RowState]
  BY DEF PlayerInv, PlayerTypeOK
<1>1. CASE Click(r) \/ Checked(r) \/ Opened(r) \/ Read(r) \/ Stop(r) \/ PlanAnswered(r)
           \/ Fetched(r)
  <2>1. /\ row[r].at \in Steps \ {"creating", "teaching"}
        /\ UNCHANGED <<generation, player, media, tab, goodbyes, block>>
    BY <1>1 DEF Click, Checked, Opened, Read, Stop, PlanAnswered, Fetched, others, Steps
  <2>2. \/ \E at \in Steps \ {"creating", "teaching"} :
             row' = [row EXCEPT ![r].at = at] \/ row' = [row EXCEPT ![r].at = at, ![r].retried = FALSE]
        \/ row' = [row EXCEPT ![r].retried = TRUE]
        \/ row' = Rests(r)
    BY <1>1 DEF Click, Checked, Opened, Read, Stop, PlanAnswered, Fetched, Goes, Done, Retried,
                Steps
  <2>3. /\ row' \in [Rows -> RowState] /\ ~Pending(r)'
        /\ \A s \in Rows \ {r} : row'[s] = row[s]
    <3>1. CASE \E at \in Steps \ {"creating", "teaching"} : row' = [row EXCEPT ![r].at = at]
      BY <1>0, <3>1 DEF RowState, Pending
    <3>2. CASE \E at \in Steps \ {"creating", "teaching"} :
                 row' = [row EXCEPT ![r].at = at, ![r].retried = FALSE]
      <4>1. PICK at \in Steps \ {"creating", "teaching"} :
                   row' = [row EXCEPT ![r].at = at, ![r].retried = FALSE]
        BY <3>2
      <4>2. row' = [row EXCEPT ![r] = [row[r] EXCEPT !.at = at, !.retried = FALSE]]
        BY <1>0, <4>1
      <4>3. [row[r] EXCEPT !.at = at, !.retried = FALSE] \in RowState
        BY <1>0 DEF RowState
      <4> QED
        BY <1>0, <4>1, <4>2, <4>3 DEF Pending, RowState
    <3>3. CASE row' = [row EXCEPT ![r].retried = TRUE]
      BY <1>0, <2>1, <3>3 DEF RowState, Pending
    <3>4. CASE row' = Rests(r)
      BY <1>0, <3>4, RowWithoutPlay
    <3> QED
      BY <2>2, <3>1, <3>2, <3>3, <3>4
  <2>4. RowParts'
    BY <2>1, <2>3, RowMoves
  <2> QED
    BY <2>1, <2>3, <2>4 DEF RowParts, PlayerInv, PlayerTypeOK, MediaShaped, Sound
<1>2. CASE PlanHeard(r)
  BY <1>2, PlanHeardKeeps
<1>3. CASE Created(r)
  BY <1>3, CreatedKeeps
<1>4. CASE Taught(r) \/ TeachFails(r)
  <2>1. /\ row[r].at = "teaching"
        /\ UNCHANGED <<generation, media, tab, goodbyes, block>>
        /\ row' = Rests(r) \/ ShowOrSave(r)
        /\ \/ player' = CloseReader(player, row[r].play)
           \/ player' = Lands(player, row[r].play)
    BY <1>4 DEF Taught, TeachFails, Superseded
  <2>2. /\ row' \in [Rows -> RowState] /\ ~Pending(r)'
        /\ \A s \in Rows \ {r} : row'[s] = row[s]
    BY <1>0, <2>1, RowWithoutPlay
  <2>3. RowParts' /\ Sound(player')
    BY <2>1, <2>2, PlayEnds
  <2> QED
    BY <2>1, <2>2, <2>3 DEF RowParts, PlayerInv, PlayerTypeOK, MediaShaped, Sound
<1> QED
  BY <1>1, <1>2, <1>3, <1>4 DEF OpenStep

\* The dialog is closed, a goodbye is heard, a row goes.
LEMMA ClosingKeeps ==
    ASSUME PlayerInv,
           \/ UserCloses \/ CloseEvent
           \/ \E g \in Plays : HearGoodbye(g)
           \/ \E r \in Rows : Blocked(r) \/ Removed(r)
    PROVE  PlayerInv'
<1>0. player \in PlayerState /\ row \in [Rows -> RowState] /\ Sound(player)
  BY DEF PlayerInv, PlayerTypeOK
<1>1. LetsGo(player, player')
  <2>1. CASE UserCloses
    BY <1>0, <2>1, CloseDialogLetsGo DEF UserCloses
  <2>2. CASE CloseEvent
    <3> DEFINE n == player.closing - 1
               p == [player EXCEPT !.closing = n]
    <3>1. n \in Nat
      BY <1>0, <2>2 DEF CloseEvent, PlayerState
    <3> HIDE DEF n
    <3>2. p \in PlayerState
      BY <1>0, <3>1 DEF PlayerState
    <3>3. LetsGo(player, p) /\ Sound(p)
      BY <1>0, <3>2 DEF LetsGo, Sound, PlayerState
    <3>4. player' = Teardown(p)
      BY <2>2 DEF CloseEvent, n
    <3> HIDE DEF p
    <3> QED
      BY <1>0, <3>3, <3>4, TeardownLetsGo, LettingGoInTurn
  <2>3. ASSUME NEW g \in Plays, HearGoodbye(g)
        PROVE  LetsGo(player, player')
    BY <1>0, <2>3, DropHandoffLetsGo DEF HearGoodbye
  <2>4. ASSUME NEW r \in Rows, Blocked(r) \/ Removed(r)
        PROVE  LetsGo(player, player')
    BY <1>0, <2>4, ClosePlayerLetsGo DEF Blocked, Removed, Drops
  <2> QED
    BY <2>1, <2>2, <2>3, <2>4
<1>2. /\ row' \in [Rows -> RowState]
      /\ \A r \in Rows : row'[r].at = row[r].at /\ row'[r].play = row[r].play
  <2>1. row' = row \/ \E r \in Rows : row' = [row EXCEPT ![r].shown = FALSE]
    BY DEF UserCloses, CloseEvent, HearGoodbye, Blocked, Removed, Drops
  <2>2. CASE row' = row
    BY <1>0, <2>2
  <2>3. ASSUME NEW r \in Rows, row' = [row EXCEPT ![r].shown = FALSE]
        PROVE  /\ row' \in [Rows -> RowState]
               /\ \A s \in Rows : row'[s].at = row[s].at /\ row'[s].play = row[s].play
    BY <1>0, <2>3 DEF RowState
  <2> QED
    BY <2>1, <2>2, <2>3
<1>3. /\ UNCHANGED <<generation, media, tab>> /\ goodbyes' \subseteq goodbyes
      /\ block' = block \/ \E r \in Rows : block' = [block EXCEPT ![r] = "done"]
  BY DEF UserCloses, CloseEvent, HearGoodbye, Blocked, Removed
<1>4. RowParts'
  BY <1>1, <1>2, <1>3, LettingGoKeeps
<1>5. block' \in [Rows -> BlockStates] /\ goodbyes' \subseteq Plays
  BY <1>3 DEF PlayerInv, PlayerTypeOK, BlockStates
<1> QED
  BY <1>1, <1>2, <1>3, <1>4, <1>5
  DEF RowParts, PlayerInv, PlayerTypeOK, MediaShaped, LetsGo, Sound

\* The session goes from the dialog to a tab.
LEMMA OpenInTabKeeps ==
    ASSUME PlayerInv, OpenInTab
    PROVE  PlayerInv'
<1> DEFINE g == player.session
           p == [player EXCEPT !.handed = @ \cup {g}, !.handedOff = TRUE, !.element = 0]
<1>0. /\ player \in PlayerState /\ tab \in [Plays -> TabState] /\ Sound(player)
      /\ g \in Plays /\ g # 0 /\ 0 \in 0 .. MaxPlays
  BY MaxPlaysAssumption DEF PlayerInv, PlayerTypeOK, OpenInTab, PlayerState, Plays
<1>1. /\ p \in PlayerState /\ p.session = g /\ p.handed = player.handed \cup {g}
      /\ p.handedOff /\ p.element = 0 /\ p.retiring = player.retiring
      /\ p.reader = player.reader /\ p.awake = player.awake
  BY <1>0 DEF PlayerState
<1>2. Sound(p)
  BY <1>0, <1>1 DEF Sound
<1>3. player' = CloseDialog(p)
  BY DEF OpenInTab
<1> HIDE DEF p
<1>4. LetsGo(p, player') /\ Sound(player') /\ player' \in PlayerState
  BY <1>2, <1>3, CloseDialogLetsGo DEF LetsGo, Sound
<1>s. player'.session = g /\ player'.handedOff /\ player'.handed = p.handed
  BY <1>1, <1>3 DEF CloseDialog, PlayerState
<1>5. /\ tab' \in [Plays -> TabState]
      /\ tab'[g].copies = 1 /\ \A h \in Plays \ {g} : tab'[h] = tab[h]
  <2>1. tab[g].copies = 0
    BY <1>0 DEF OpenInTab, PlayerInv, TabsAreSingle
  <2> QED
    BY <1>0, <2>1 DEF OpenInTab, TabState
<1>6. 1 .. generation \subseteq Plays
  BY MaxPlaysAssumption DEF PlayerInv, PlayerTypeOK, Plays
<1>7. \A h \in Plays : Unused(h) => Unused(h)'
  <2> SUFFICES ASSUME NEW h \in Plays, Unused(h)
               PROVE  Unused(h)'
    OBVIOUS
  <2>1. /\ h # g /\ h \notin player.handed \cup player.retiring \cup media.retired
        /\ tab[h].copies = 0
    BY DEF Unused
  <2>2. h \notin player'.handed \cup player'.retiring
    BY <1>1, <1>4, <2>1 DEF LetsGo
  <2> QED
    BY <1>s, <1>5, <2>1, <2>2 DEF Unused, OpenInTab
<1>8. PlaysAreFresh'
  BY <1>6, <1>7 DEF PlayerInv, PlaysAreFresh, OpenInTab, Pending
<1>9. TabsAreSingle'
  BY <1>s, <1>5 DEF PlayerInv, TabsAreSingle
<1>10. ReadersAreOwned'
  BY <1>1, <1>4, <1>s DEF PlayerInv, ReadersAreOwned, OpenInTab, LetsGo
<1> QED
  BY <1>4, <1>5, <1>8, <1>9, <1>10 DEF OpenInTab, PlayerInv, PlayerTypeOK, MediaShaped

\* The worker and the tabs.
LEMMA TabStepKeeps ==
    ASSUME PlayerInv, NEW g \in Plays, WorkerDrops(g) \/ TabStep(g) \/ TabGoes(g)
    PROVE  PlayerInv'
<1>0. player \in PlayerState /\ tab \in [Plays -> TabState]
  BY DEF PlayerInv, PlayerTypeOK
<1>1. /\ tab' \in [Plays -> TabState]
      /\ \A h \in Plays : tab'[h].copies <= tab[h].copies
  <2>1. \/ \E at \in {"failed", "refused", "gone"} :
              tab' = [tab EXCEPT ![g] = [at |-> at, copies |-> 0, asking |-> FALSE]]
        \/ tab' = [tab EXCEPT ![g].at = "playing"]
        \/ \E b \in BOOLEAN : tab' = [tab EXCEPT ![g].asking = b]
        \/ tab' = tab
    <3>1. CASE WorkerDrops(g)
      BY <3>1 DEF WorkerDrops, TabFails, TabEnds
    <3>2. CASE TabStep(g) \/ TabGoes(g)
      BY <3>2 DEF TabStep, TabAsks, RangeAnswered, RangeTimeout, TabStarts, TabGoes,
                  TabFails, TabEnds
    <3> QED
      BY <3>1, <3>2
  <2>2. \A h \in Plays : tab[h].copies \in 0 .. 2
    BY <1>0 DEF TabState
  <2>3. tab' \in [Plays -> TabState]
    <3>1. \A at \in {"failed", "refused", "gone"} :
             [at |-> at, copies |-> 0, asking |-> FALSE] \in TabState
      BY DEF TabState
    <3>2. \A b \in BOOLEAN : [tab[g] EXCEPT !.asking = b] \in TabState
      BY <1>0 DEF TabState
    <3>3. [tab[g] EXCEPT !.at = "playing"] \in TabState
      BY <1>0 DEF TabState
    <3>5. tab' = tab \/ \E t \in TabState : tab' = [tab EXCEPT ![g] = t]
      BY <1>0, <2>1, <3>1, <3>2, <3>3
    <3> QED
      BY <1>0, <3>5
  <2> QED
    BY <1>0, <2>1, <2>2, <2>3 DEF TabState
<1>2. /\ player' \in PlayerState
      /\ player' = [player EXCEPT !.retiring = player'.retiring]
      /\ player'.retiring \cup media'.retired \subseteq player.retiring \cup media.retired
      /\ MediaShaped' /\ (media.taught \cap media.retired = {})'
  <2>1. CASE WorkerDrops(g)
    BY <1>0, <2>1 DEF WorkerDrops, PlayerState, MediaShaped, PlayerInv, PlayerTypeOK
  <2>2. CASE TabStep(g) \/ TabGoes(g)
    <3>1. UNCHANGED <<player, media>>
      BY <2>2 DEF TabStep, TabAsks, RangeAnswered, RangeTimeout, TabStarts, TabGoes
    <3> QED
      BY <1>0, <3>1 DEF PlayerState, MediaShaped, PlayerInv, PlayerTypeOK
  <2> QED
    BY <2>1, <2>2
<1>3. Sound(player')
  <2>1. /\ player'.session = player.session /\ player'.handed = player.handed
        /\ player'.element = player.element /\ player'.handedOff = player.handedOff
        /\ player'.awake = player.awake /\ player'.reader = player.reader
    BY <1>0, <1>2 DEF PlayerState
  <2> QED
    BY <1>2, <2>1 DEF Sound, PlayerInv
<1>4. UNCHANGED <<row, generation, block>> /\ goodbyes' \subseteq Plays
  BY DEF WorkerDrops, TabStep, TabAsks, RangeAnswered, RangeTimeout, TabStarts, TabGoes,
         PlayerInv, PlayerTypeOK
<1>5. RowParts'
  BY <1>1, <1>2, <1>4, TabsKeep
<1> QED
  BY <1>1, <1>2, <1>3, <1>4, <1>5 DEF RowParts, PlayerInv, PlayerTypeOK

LEMMA NextKeepsInv == PlayerInv /\ [Next]_vars => PlayerInv'
<1> SUFFICES ASSUME PlayerInv, [Next]_vars PROVE PlayerInv'
  OBVIOUS
<1>1. ASSUME NEW r \in Rows, Click(r) \/ OpenStep(r) \/ Stop(r)
      PROVE  PlayerInv'
  BY <1>1, OpenStepKeeps
<1>2. ASSUME NEW r \in Rows, WorkerTaught(r)
      PROVE  PlayerInv'
  <2>1. row[r].play \notin media.retired /\ row[r].play \in Plays
    BY <1>2, MaxPlaysAssumption
    DEF WorkerTaught, PlayerInv, PlayerTypeOK, PlaysAreFresh, Unused, Pending, Plays
  <2>2. media' = [media EXCEPT !.taught = @ \cup {row[r].play}]
        /\ UNCHANGED <<row, generation, player, tab, goodbyes, block>>
    BY <1>2 DEF WorkerTaught
  <2>3. /\ MediaShaped' /\ (media.taught \cap media.retired = {})'
        /\ media'.retired = media.retired
    BY <2>1, <2>2 DEF MediaShaped, PlayerInv, PlayerTypeOK
  <2>4. \A h : Unused(h) => Unused(h)'
    BY <2>2, <2>3 DEF Unused
  <2>5. PlaysAreFresh'
    BY <2>2, <2>4 DEF PlaysAreFresh, PlayerInv, Pending
  <2> QED
    BY <2>2, <2>3, <2>5
    DEF PlayerInv, PlayerTypeOK, TabsAreSingle, ReadersAreOwned, Sound
<1>3. ASSUME NEW r \in Rows,
             AskBlock(r) \/ ServerBlocks(r) \/ BlockedElsewhere(r) \/ AlreadyBlocked(r)
      PROVE  PlayerInv'
  <2>1. /\ UNCHANGED <<row, generation, player, media, tab, goodbyes>>
        /\ \E b \in BlockStates : block' = [block EXCEPT ![r] = b]
    BY <1>3 DEF AskBlock, ServerBlocks, BlockedElsewhere, AlreadyBlocked, BlockStates
  <2>2. block' \in [Rows -> BlockStates]
    BY <2>1 DEF PlayerInv, PlayerTypeOK
  <2> QED
    BY <2>1, <2>2 DEF PlayerInv, PlayerTypeOK, MediaShaped, TabsAreSingle, ReadersAreOwned,
                      Sound, PlaysAreFresh, Unused, Pending
<1>4. CASE \/ UserCloses \/ CloseEvent
           \/ \E g \in Plays : HearGoodbye(g)
           \/ \E r \in Rows : Blocked(r) \/ Removed(r)
  BY <1>4, ClosingKeeps
<1>5. CASE OpenInTab
  BY <1>5, OpenInTabKeeps
<1>6. ASSUME NEW g \in Plays, WorkerDrops(g) \/ TabStep(g) \/ TabGoes(g)
      PROVE  PlayerInv'
  BY <1>6, TabStepKeeps
<1>7. CASE UNCHANGED vars
  BY <1>7 DEF vars, PlayerInv, PlayerTypeOK, MediaShaped, TabsAreSingle, ReadersAreOwned, Sound,
              PlaysAreFresh, Unused, Pending
<1> QED
  BY <1>1, <1>2, <1>3, <1>4, <1>5, <1>6, <1>7 DEF Next

LEMMA PlayerIsSound == Spec => []PlayerInv
BY InitInv, NextKeepsInv, PTL DEF Spec

(***************************************************************************)
(* What it is for                                                          *)
(***************************************************************************)

\* The page loses track of no reader that is open, whoever wins the race for the dialog,
\* however often a row is retried, and whatever is blocked, removed or refused in
\* between: it is that of an open which waits for the worker, of the dialog, or of a
\* session in handedSessions.  That a tab such a session was handed to closes it one
\* day is not said, and not so: a tab refused while it loads never says goodbye.
THEOREM OpenReadersAreOwned == Spec => []ReadersAreOwned
<1>1. PlayerInv => ReadersAreOwned
  BY DEF PlayerInv
<1> QED
  BY <1>1, PlayerIsSound, PTL

\* Two players never read one reader: not the dialog and a tab, and not two tabs.
THEOREM ReadersHaveOneConsumer == Spec => []OneConsumer
<1>1. PlayerInv => OneConsumer
  <2> SUFFICES ASSUME PlayerInv, NEW g \in Plays
               PROVE  (IF player.element = g THEN 1 ELSE 0) + tab[g].copies <= 1
    BY DEF OneConsumer
  <2>1. tab[g].copies \in 0 .. 2 /\ tab[g].copies <= 1 /\ g # 0
    BY DEF PlayerInv, PlayerTypeOK, TabState, TabsAreSingle, Plays
  <2>2. player.element = g => tab[g].copies = 0
    BY <2>1 DEF PlayerInv, Sound, TabsAreSingle
  <2> QED
    BY <2>1, <2>2
<1> QED
  BY <1>1, PlayerIsSound, PTL

\* The worker is kept awake for as long as anything plays from the page.
THEOREM PlayersStayAwake == Spec => []PlayingIsAwake
<1>1. PlayerInv => PlayingIsAwake
  BY DEF PlayerInv, Sound, PlayingIsAwake
<1> QED
  BY <1>1, PlayerIsSound, PTL

\* Whatever the rows, the dialog, the tabs and the worker do, every open, play and
\* tab of the page is in a state of its life, and no session is both taught and
\* retired.
THEOREM PlayerTypeCorrect == Spec => []PlayerTypeOK
<1>1. PlayerInv => PlayerTypeOK
  BY DEF PlayerInv
<1> QED
  BY <1>1, PlayerIsSound, PTL

=============================================================================
