-------------------------- MODULE AvDownloadProofs --------------------------
(***************************************************************************)
(* Detection and use agree, for any callers, any number of changes to the  *)
(* machine, and wherever the ant CLI may be: a fetch let through with a    *)
(* working ant CLI that goes on working is never told that there is none.  *)
(* And the progress a caller is told is what the diagnostics file says:    *)
(* what the tailer holds is always the file up to its offset, whole lines  *)
(* it has told of and the halves pending, and the pass after the exit      *)
(* finds a file that no longer grows.                                      *)
(*                                                                         *)
(* What is made of a content agrees (AvIngest), for any links and any      *)
(* bytes behind them: each paper is of the content in hand, so that the    *)
(* rest is about the tables of types and names, and about lists.  Where    *)
(* the lists are of any length the argument is of the least position at    *)
(* which something is the case (LeastOne).                                 *)
(***************************************************************************)
EXTENDS AvIngest, FiniteSetTheorems, SequenceTheorems, TLAPS

\* What is held is there to be found.
HeldIsThere == fetch.held => ant \in {"path", "home"}

\* The two fields the proof is about, whatever the others hold.
Shaped == {"at", "held"} \subseteq DOMAIN fetch /\ fetch.held \in BOOLEAN

DownloadInv == Shaped /\ HeldIsThere /\ DetectionAgrees

\* Where a step that does not look for ant leads.
Onward == {"check", "verify", "data", "stream", "body", "spawn", "stat", "read", "drain",
           "wait", "return", "ok", "ok_cli", "failed"}

\* A step of the fetch forward, with ant where it was.
LEMMA OnwardKeeps ==
  ASSUME DownloadInv, NEW s \in Onward, Goto(s), UNCHANGED ant
  PROVE  DownloadInv'
  BY DEF DownloadInv, Shaped, HeldIsThere, DetectionAgrees, At, Goto, Onward

\* A step that leaves the thread and ant alone.
LEMMA OthersKeep ==
  ASSUME DownloadInv, UNCHANGED <<fetch, ant>>
  PROVE  DownloadInv'
  BY DEF DownloadInv, Shaped, HeldIsThere, DetectionAgrees, At

\* The check, which is what sets `held`.
LEMMA CheckKeeps == DownloadInv /\ CheckBackend => DownloadInv'
  BY DEF DownloadInv, HeldIsThere, DetectionAgrees, At, CheckBackend, Shaped, machine,
         Available, Resolved, Admitted

\* The offers of av index, which may install ant.
LEMMA AskKeeps == DownloadInv /\ (StartAntd \/ InstallAnt) => DownloadInv'
  <1>1. DownloadInv /\ StartAntd => DownloadInv'
    BY DEF DownloadInv, Shaped, HeldIsThere, DetectionAgrees, At, Goto, StartAntd
  <1>2. DownloadInv /\ InstallAnt => DownloadInv'
    <2>1. SUFFICES ASSUME DownloadInv, InstallAnt PROVE DownloadInv'
      OBVIOUS
    <2>2. PICK s \in {"verify", "refused"} :
             fetch' = [fetch EXCEPT !.held = ant' \in {"path", "home"}, !.at = s]
      BY <2>1 DEF InstallAnt
    <2>3. fetch'.at = s /\ fetch'.held = (ant' \in {"path", "home"}) /\ Shaped'
      BY <2>1, <2>2 DEF DownloadInv, Shaped
    <2>4. QED BY <2>3 DEF DownloadInv, HeldIsThere, DetectionAgrees, At
  <1>3. QED BY <1>1, <1>2

\* The spawn, which looks for ant the way the check did: where it is not found,
\* nothing was held.
LEMMA SpawnKeeps == DownloadInv /\ Spawn => DownloadInv'
  <1>1. SUFFICES ASSUME DownloadInv, Spawn PROVE DownloadInv'
    OBVIOUS
  <1>2. CASE Resolved /\ fetch' = Spawned
    BY <1>1, <1>2 DEF DownloadInv, Shaped, HeldIsThere, DetectionAgrees, At, Spawn, Spawned,
       machine
  <1>3. CASE Goto("failed")
    BY <1>1, <1>3, OnwardKeeps DEF Spawn, machine, Onward
  <1>4. CASE ~Resolved /\ Goto("missing")
    BY <1>1, <1>4 DEF DownloadInv, Shaped, HeldIsThere, DetectionAgrees, At, Spawn, Goto, Resolved,
       machine
  <1>5. QED BY <1>1, <1>2, <1>3, <1>4 DEF Spawn

\* The reads of the diagnostics file.
LEMMA TailKeeps ==
  DownloadInv /\ (Stat \/ ReadAppended \/ Drain \/ Drained \/ Wait) => DownloadInv'
  <1>1. DownloadInv /\ Stat => DownloadInv'
    BY DEF DownloadInv, Shaped, HeldIsThere, DetectionAgrees, At, Goto, Stat, machine
  <1>2. DownloadInv /\ ReadAppended => DownloadInv'
    BY DEF DownloadInv, Shaped, HeldIsThere, DetectionAgrees, At, ReadAppended, machine
  <1>3. DownloadInv /\ Drain => DownloadInv'
    BY OthersKeep DEF Drain, machine
  <1>4. DownloadInv /\ Drained => DownloadInv'
    BY OnwardKeeps DEF Drained, Onward, machine
  <1>5. DownloadInv /\ Wait => DownloadInv'
    BY DEF DownloadInv, Shaped, HeldIsThere, DetectionAgrees, At, Goto, Wait, machine
  <1>6. QED BY <1>1, <1>2, <1>3, <1>4, <1>5

\* The machine changes under the fetch.
LEMMA MachineKeeps == DownloadInv /\ (Change \/ InstallFromPage) => DownloadInv'
  <1>1. DownloadInv /\ Change => DownloadInv'
    BY DEF DownloadInv, Shaped, HeldIsThere, DetectionAgrees, At, Change, Choosing
  <1>2. DownloadInv /\ InstallFromPage => DownloadInv'
    <2>1. SUFFICES ASSUME DownloadInv, InstallFromPage PROVE DownloadInv'
      OBVIOUS
    <2>2. ~fetch.held
      BY <2>1 DEF DownloadInv, Shaped, HeldIsThere, InstallFromPage, Available, Resolved
    <2>3. QED
      BY <2>1, <2>2 DEF DownloadInv, Shaped, HeldIsThere, DetectionAgrees, At, InstallFromPage
  <1>3. QED BY <1>1, <1>2

\* Every step keeps the invariant.
LEMMA DownloadStep == DownloadInv /\ [Next]_vars => DownloadInv'
  <1>1. SUFFICES ASSUME DownloadInv, [Next]_vars PROVE DownloadInv'
    OBVIOUS
  <1>2. CASE Begin
    BY <1>1, <1>2, OnwardKeeps DEF Begin, Onward
  <1>3. CASE CheckBackend
    BY <1>1, <1>3, CheckKeeps
  <1>4. CASE StartAntd \/ InstallAnt
    BY <1>1, <1>4, AskKeeps
  <1>5. CASE VerifyUri
    BY <1>1, <1>5, OnwardKeeps DEF VerifyUri, Onward, machine
  <1>6. CASE FetchDirectly \/ GetData \/ OpenStream \/ ReadBody \/ ReturnFromCli
    BY <1>1, <1>6, OnwardKeeps DEF FetchDirectly, GetData, OpenStream, ReadBody, ReturnFromCli,
       Onward, machine
  <1>7. CASE Spawn
    BY <1>1, <1>7, SpawnKeeps
  <1>8. CASE Stat \/ ReadAppended \/ Drain \/ Drained \/ Wait
    BY <1>1, <1>8, TailKeeps
  <1>9. CASE Write \/ Exit
    BY <1>1, <1>9, OthersKeep DEF Write, Exit, machine
  <1>10. CASE Change \/ InstallFromPage
    BY <1>1, <1>10, MachineKeeps
  <1>11. CASE UNCHANGED vars
    BY <1>1, <1>11, OthersKeep DEF vars, machine
  <1>12. QED
    BY <1>1, <1>2, <1>3, <1>4, <1>5, <1>6, <1>7, <1>8, <1>9, <1>10, <1>11 DEF Next, Fetch

\* At first nothing is held.
LEMMA DownloadInit == Init => DownloadInv
  BY CallersAssumption DEF Init, DownloadInv, HeldIsThere, DetectionAgrees, At, Shaped

(***************************************************************************)
(* A fetch that was let through with a working ant CLI, which has been     *)
(* working ever since, does not end with ant not found (download.rs,       *)
(* ant_resolve_path: the one search that both detection and use go by).    *)
(***************************************************************************)
THEOREM DetectionAndUseAgree == Spec => []DetectionAgrees
  <1>1. DownloadInv => DetectionAgrees
    BY DEF DownloadInv
  <1>2. QED BY <1>1, DownloadInit, DownloadStep, PTL DEF Spec

-----------------------------------------------------------------------------
(* What the feed says, and what has been told of it.                       *)

\* A line that tells of a chunk found, and of an attempt at it that failed.
Found(c) == [outcome |-> "found", chunk |-> c]
Missed(c) == [outcome |-> "failed", chunk |-> c]

\* The first finds among the first m lines.
FirstBy(lines, m) == {j \in FirstFound(lines) : j <= m}

\* What has been told is what the first m lines say.
Told(lines, m, t) ==
    /\ IsFiniteSet(t.done) /\ Cardinality(t.done) = Cardinality(FirstBy(lines, m))
    /\ \A c \in Chunks : c \in t.done <=> \E k \in 1 .. m : lines[k] = Found(c)
    /\ \A c \in Chunks \ t.done : c \in t.failed <=> \E k \in 1 .. m : lines[k] = Missed(c)
    /\ Len(t.log) = Cardinality(t.done)
    /\ \A n \in DOMAIN t.log : t.log[n].chunks = n /\ t.log[n] \in Reports(lines)
    /\ \A c \in Chunks : c \in t.done <=> \E n \in DOMAIN t.log : t.log[n].index = c

\* A line that is a record is one of the two.
LEMMA LineIs ==
    ASSUME NEW line \in Line, line # Junk
    PROVE  /\ line.chunk \in Chunks
           /\ line.outcome = "failed" => line = Missed(line.chunk)
           /\ line.outcome # "failed" => line.outcome = "found" /\ line = Found(line.chunk)
BY DEF Line, Found, Missed

\* Lines that tell different things differ.
LEMMA LinesDiffer ==
    /\ \A c, d : Found(c) = Found(d) => c = d
    /\ \A c, d : Missed(c) = Missed(d) => c = d
    /\ \A c, d : Found(c) # Missed(d)
    /\ \A c : Found(c) # Junk /\ Missed(c) # Junk
    /\ \A c : Found(c).outcome = "found" /\ Missed(c).outcome = "failed" /\ Found(c).chunk = c
    /\ \A c : Missed(c).chunk = c
    /\ Junk.outcome = "junk"
<1>1. /\ \A c : Found(c).outcome = "found" /\ Missed(c).outcome = "failed" /\ Found(c).chunk = c
      /\ \A c : Missed(c).chunk = c
      /\ Junk.outcome = "junk"
  BY DEF Found, Missed, Junk
<1>2. QED BY <1>1

\* The first finds can be counted.
LEMMA FirstByFinite ==
    ASSUME NEW lines \in Seq(Line), NEW m \in 0 .. Len(lines)
    PROVE  /\ IsFiniteSet(FirstBy(lines, m)) /\ Cardinality(FirstBy(lines, m)) \in Nat
           /\ FirstBy(lines, m) \subseteq 1 .. m
<1>1. FirstBy(lines, m) \subseteq 1 .. m BY DEF FirstBy, FirstFound
<1>2. IsFiniteSet(1 .. m) BY FS_Interval
<1>3. QED BY <1>1, <1>2, FS_Subset, FS_CardinalityType

\* The feed grows by a line, and what it said before it still says.
LEMMA ToldGrows ==
    ASSUME NEW lines \in Seq(Line), NEW line \in Line, NEW m \in 0 .. Len(lines), NEW t,
           Told(lines, m, t)
    PROVE  Told(Append(lines, line), m, t)
<1> DEFINE more == Append(lines, line)
<1>1. /\ more \in Seq(Line) /\ Len(more) = Len(lines) + 1
      /\ \A k \in 1 .. Len(lines) : more[k] = lines[k]
      /\ DOMAIN more = 1 .. Len(lines) + 1 /\ DOMAIN lines = 1 .. Len(lines)
      /\ Len(lines) \in Nat
  OBVIOUS
<1> HIDE DEF more
<1>2. \A j \in 1 .. Len(lines) : j \in FirstFound(more) <=> j \in FirstFound(lines)
  BY <1>1 DEF FirstFound
<1>3. \A j \in FirstFound(lines) : j \in 1 .. Len(lines)
  BY <1>1 DEF FirstFound
<1>4. \A k \in 1 .. Len(lines) : FirstBy(more, k) = FirstBy(lines, k)
  BY <1>1, <1>2 DEF FirstBy, FirstFound
<1>5. FirstBy(more, m) = FirstBy(lines, m)
  BY <1>1, <1>2 DEF FirstBy, FirstFound
<1>6. \A k \in 1 .. Len(lines) : Expected(more, k) = Expected(lines, k)
  <2> SUFFICES ASSUME NEW k \in 1 .. Len(lines) PROVE Expected(more, k) = Expected(lines, k)
    OBVIOUS
  <2>1. more[k].chunk = lines[k].chunk BY <1>1
  <2>2. {j \in FirstFound(more) : j <= k} = {j \in FirstFound(lines) : j <= k}
    BY <1>4 DEF FirstBy
  <2>3. \A j \in 1 .. k - 1 : more[j] = lines[j] BY <1>1
  <2>4. (\E j \in 1 .. k - 1 : more[j] = [outcome |-> "failed", chunk |-> lines[k].chunk]) =
        (\E j \in 1 .. k - 1 : lines[j] = [outcome |-> "failed", chunk |-> lines[k].chunk])
    BY <2>3, Zenon
  <2>5. QED BY <2>1, <2>2, <2>4, Zenon DEF Expected
<1>7. Reports(lines) \subseteq Reports(more)
  BY <1>2, <1>3, <1>6 DEF Reports
<1>8. \A k \in 1 .. m : more[k] = lines[k] BY <1>1
<1>9. QED BY <1>5, <1>7, <1>8 DEF Told, more

\* The next line is taken.
LEMMA ToldNext ==
    ASSUME NEW lines \in Seq(Line), NEW m \in 0 .. Len(lines), m < Len(lines),
           NEW t \in TailerState, Told(lines, m, t)
    PROVE  LET u == ChunkEvent(lines[m + 1], t)
           IN  u \in TailerState /\ Told(lines, m + 1, u)
                 /\ u.pending = t.pending /\ u.offset = t.offset
<1> DEFINE line == lines[m + 1]
<1>1. /\ m \in Nat /\ m + 1 \in 1 .. Len(lines) /\ m + 1 \in DOMAIN lines /\ line \in Line
      /\ m + 1 \in 0 .. Len(lines)
  OBVIOUS
<1>2. \A P : (\E k \in 1 .. m + 1 : lines[k] = P) <=> (\E k \in 1 .. m : lines[k] = P) \/ line = P
  BY <1>1
<1>3. \A j : j \in FirstBy(lines, m + 1) <=>
               j \in FirstBy(lines, m) \/ (j = m + 1 /\ m + 1 \in FirstFound(lines))
  BY <1>1 DEF FirstBy, FirstFound
<1>4. m + 1 \in FirstFound(lines) <=>
        line.outcome = "found" /\ ~\E k \in 1 .. m : lines[k] = line
  BY <1>1 DEF FirstFound
<1>5. m + 1 \notin FirstFound(lines) => FirstBy(lines, m + 1) = FirstBy(lines, m)
  BY <1>3
<1> HIDE DEF line
<1>6. CASE line = Junk
  <2>1. ChunkEvent(line, t) = t BY <1>6 DEF ChunkEvent
  <2>2. m + 1 \notin FirstFound(lines) BY <1>4, <1>6, LinesDiffer
  <2>3. Told(lines, m + 1, t) BY <1>2, <1>5, <1>6, <2>2, LinesDiffer DEF Told
  <2>4. QED BY <2>1, <2>3 DEF line
<1>7. CASE line # Junk /\ line.outcome = "failed"
  <2> DEFINE f == t.failed \cup {line.chunk}
             u == [t EXCEPT !.failed = f]
  <2>1. ChunkEvent(line, t) = u BY <1>7 DEF ChunkEvent
  <2>2. line.chunk \in Chunks /\ line = Missed(line.chunk) BY <1>1, <1>7, LineIs
  <2>3. t.failed \in SUBSET Chunks BY DEF TailerState
  <2>4. f \in SUBSET Chunks BY <2>2, <2>3
  <2> HIDE DEF f
  <2>5. /\ u \in TailerState /\ u.failed = f /\ u.done = t.done /\ u.log = t.log
        /\ u.pending = t.pending /\ u.offset = t.offset
    BY <2>4 DEF TailerState
  <2> HIDE DEF u
  <2>6. m + 1 \notin FirstFound(lines) BY <1>4, <1>7
  <2>7. \A c \in Chunks \ t.done : c \in f <=> \E k \in 1 .. m + 1 : lines[k] = Missed(c)
    <3>1. \A c : line = Missed(c) <=> c = line.chunk
      <4>1. \A c : line = Missed(c) => c = line.chunk BY LinesDiffer
      <4>2. QED BY <2>2, <4>1
    <3>2. \A c : c \in f <=> c \in t.failed \/ c = line.chunk BY DEF f
    <3>3. \A c \in Chunks \ t.done : c \in t.failed <=> \E k \in 1 .. m : lines[k] = Missed(c)
      BY DEF Told
    <3>4. \A c : (\E k \in 1 .. m + 1 : lines[k] = Missed(c)) <=>
                   (\E k \in 1 .. m : lines[k] = Missed(c)) \/ line = Missed(c)
      BY <1>2
    <3>5. QED BY <3>1, <3>2, <3>3, <3>4
  <2>8. \A c : line # Found(c)
    <3>1. \A c : Found(c).outcome = "found" BY LinesDiffer
    <3>2. QED BY <1>7, <3>1
  <2>9. \A c : (\E k \in 1 .. m + 1 : lines[k] = Found(c)) <=> \E k \in 1 .. m : lines[k] = Found(c)
    BY <1>2, <2>8
  <2>91. Told(lines, m + 1, u) BY <1>5, <2>5, <2>6, <2>7, <2>9 DEF Told
  <2>10. QED BY <2>1, <2>5, <2>91 DEF line
<1>8. CASE line # Junk /\ line.outcome # "failed" /\ line.chunk \in t.done
  <2>1. ChunkEvent(line, t) = t BY <1>8 DEF ChunkEvent
  <2>2. line.chunk \in Chunks /\ line = Found(line.chunk) BY <1>1, <1>8, LineIs
  <2>3. \E k \in 1 .. m : lines[k] = line BY <1>8, <2>2 DEF Told
  <2>4. m + 1 \notin FirstFound(lines) BY <1>4, <2>3
  <2>5. \A c : line # Missed(c)
    <3>1. \A c : Missed(c).outcome = "failed" BY LinesDiffer
    <3>2. QED BY <1>8, <3>1
  <2>6. \A c : (\E k \in 1 .. m + 1 : lines[k] = Missed(c)) <=> \E k \in 1 .. m : lines[k] = Missed(c)
    BY <1>2, <2>5
  <2>7. \A c : (\E k \in 1 .. m + 1 : lines[k] = Found(c)) <=> \E k \in 1 .. m : lines[k] = Found(c)
    BY <1>2, <2>3
  <2>8. Told(lines, m + 1, t) BY <1>5, <2>4, <2>6, <2>7 DEF Told
  <2>9. QED BY <2>1, <2>8 DEF line
<1>9. CASE line # Junk /\ line.outcome # "failed" /\ line.chunk \notin t.done
  <2> DEFINE c == line.chunk
             d == t.done \cup {c}
             f == t.failed \ {c}
             e == [index |-> c, chunks |-> Cardinality(t.done) + 1, retried |-> c \in t.failed]
             g == Append(t.log, e)
             u == [t EXCEPT !.done = d, !.failed = f, !.log = g]
  <2>1. ChunkEvent(line, t) = u BY <1>9 DEF ChunkEvent
  <2>2. c \in Chunks /\ line.outcome = "found" /\ line = Found(c) BY <1>1, <1>9, LineIs
  <2>3. t.failed \in SUBSET Chunks /\ t.done \in SUBSET Chunks /\ t.log \in Seq(Report)
    BY DEF TailerState
  <2>4. IsFiniteSet(t.done) /\ Cardinality(t.done) \in Nat BY FS_CardinalityType DEF Told
  <2>5. e \in Report /\ e.chunks = Cardinality(t.done) + 1 /\ e.index = c
    BY <2>2, <2>4 DEF Report
  <2>6. ~\E k \in 1 .. m : lines[k] = line BY <1>9, <2>2 DEF Told
  <2>7. m + 1 \in FirstFound(lines) BY <1>4, <2>2, <2>6
  <2>8. FirstBy(lines, m + 1) = FirstBy(lines, m) \cup {m + 1} BY <1>3, <2>7
  <2>9. m + 1 \notin FirstBy(lines, m) BY <1>1 DEF FirstBy
  <2>10. Cardinality(FirstBy(lines, m + 1)) = Cardinality(t.done) + 1
    BY <2>8, <2>9, FirstByFinite, FS_AddElement DEF Told
  <2>11. IsFiniteSet(d) /\ Cardinality(d) = Cardinality(t.done) + 1
    BY <1>9, <2>4, FS_AddElement
  <2>12. e = Expected(lines, m + 1)
    <3>1. lines[m + 1].chunk = c BY DEF line
    <3>2. Cardinality({j \in FirstFound(lines) : j <= m + 1}) = Cardinality(t.done) + 1
      BY <2>10 DEF FirstBy
    <3>3. c \in t.failed <=> \E j \in 1 .. m : lines[j] = Missed(c)
      BY <1>9, <2>2 DEF Told
    <3>4. m + 1 - 1 = m BY <1>1
    <3> DEFINE b == lines[m + 1].chunk
               w == \E j \in 1 .. m + 1 - 1 : lines[j] = [outcome |-> "failed", chunk |-> b]
    <3>5. (c \in t.failed) <=> w
      BY <3>1, <3>3, <3>4 DEF Missed
    <3>6. c = b BY <3>1
    <3>7. e = [index |-> c, chunks |-> Cardinality(t.done) + 1, retried |-> c \in t.failed]
      OBVIOUS
    <3>8. Expected(lines, m + 1) = [index |-> b, chunks |-> Cardinality(t.done) + 1, retried |-> w]
      <4>1. Expected(lines, m + 1) =
              [index |-> b, chunks |-> Cardinality({j \in FirstFound(lines) : j <= m + 1}),
               retried |-> w]
        BY DEF Expected
      <4> HIDE DEF w, b
      <4>2. QED BY <3>2, <4>1
    <3>9. (c \in t.failed) \in BOOLEAN /\ w \in BOOLEAN OBVIOUS
    <3>10. (c \in t.failed) = w
      <4> DEFINE p == c \in t.failed
      <4>1. p \in BOOLEAN /\ w \in BOOLEAN /\ (p <=> w) BY <3>5, <3>9
      <4> HIDE DEF p, w
      <4>2. p = w BY <4>1
      <4>3. QED BY <4>2 DEF p
    <3> HIDE DEF c, e, w, b
    <3>11. QED BY <3>6, <3>7, <3>8, <3>10, Zenon
  <2>13. e \in Reports(lines) BY <2>7, <2>12 DEF Reports
  <2> HIDE DEF e
  <2>14. /\ g \in Seq(Report) /\ Len(g) = Len(t.log) + 1 /\ g[Len(t.log) + 1] = e
         /\ \A n \in 1 .. Len(t.log) : g[n] = t.log[n]
         /\ DOMAIN g = 1 .. Len(t.log) + 1 /\ DOMAIN t.log = 1 .. Len(t.log)
         /\ Len(t.log) \in Nat
    BY <2>3, <2>5
  <2>15. d \in SUBSET Chunks /\ f \in SUBSET Chunks BY <2>2, <2>3
  <2> HIDE DEF g
  <2>16. \A b \in Chunks : b \in d <=> b \in t.done \/ b = c OBVIOUS
  <2>17. \A b \in Chunks \ d : b \in f <=> b \in t.failed OBVIOUS
  <2> HIDE DEF d, f
  <2>18. /\ u \in TailerState /\ u.failed = f /\ u.done = d /\ u.log = g
         /\ u.pending = t.pending /\ u.offset = t.offset
    BY <2>14, <2>15 DEF TailerState
  <2> HIDE DEF u
  <2>19. \A n \in DOMAIN g : g[n].chunks = n /\ g[n] \in Reports(lines)
    BY <2>5, <2>13, <2>14 DEF Told
  <2>20. \A b \in Chunks : b \in d <=> \E n \in DOMAIN g : g[n].index = b
    <3>1. \A b \in Chunks : (\E n \in DOMAIN g : g[n].index = b) <=>
                            (\E n \in DOMAIN t.log : t.log[n].index = b) \/ b = c
      BY <2>5, <2>14
    <3>2. QED BY <2>16, <3>1 DEF Told
  <2>21. \A b \in Chunks : b \in d <=> \E k \in 1 .. m + 1 : lines[k] = Found(b)
    <3>1. \A b \in Chunks : line = Found(b) <=> b = c BY <2>2, LinesDiffer
    <3>2. QED BY <1>2, <2>16, <3>1 DEF Told
  <2> HIDE DEF c
  <2>22. \A b \in Chunks \ d : b \in f <=> \E k \in 1 .. m + 1 : lines[k] = Missed(b)
    <3>1. \A b \in Chunks : line # Missed(b) BY <2>2, LinesDiffer
    <3>2. QED BY <1>2, <2>16, <2>17, <3>1 DEF Told
  <2>23. Len(g) = Cardinality(d) BY <2>11, <2>14 DEF Told
  <2>24. Cardinality(d) = Cardinality(FirstBy(lines, m + 1)) BY <2>10, <2>11
  <2>25. Told(lines, m + 1, u)
    BY <2>11, <2>18, <2>19, <2>20, <2>21, <2>22, <2>23, <2>24 DEF Told
  <2>26. QED BY <2>1, <2>18, <2>25 DEF line
<1>10. QED BY <1>6, <1>7, <1>8, <1>9
-----------------------------------------------------------------------------
\* The whole lines of a file in half lines.
LinesOf(f) == [k \in 1 .. Len(f) \div 2 |-> f[2 * k].line]

\* The child starts a line and ends it before it starts another.
Alternate(f) ==
    /\ \A k \in 1 .. Len(f) : 2 * k <= Len(f) => f[2 * k].end /\ f[2 * k].line = f[2 * k - 1].line
    /\ \A k \in 1 .. Len(f) : 2 * k - 1 <= Len(f) => ~f[2 * k - 1].end

\* What is pending is what follows the first m lines, up to the offset.
Follows(f, m, t) ==
    /\ 2 * m <= t.offset /\ t.offset <= Len(f)
    /\ Len(t.pending) = t.offset - 2 * m
    /\ \A i \in 1 .. Len(t.pending) : t.pending[i] = f[2 * m + i]

\* A number is twice its half, or one more.
LEMMA Halves == \A n \in Nat : /\ n \div 2 \in Nat
                                /\ \/ n % 2 = 0 /\ n = 2 * (n \div 2)
                                   \/ n % 2 = 1 /\ n = 2 * (n \div 2) + 1
<1> TAKE n \in Nat
<1>1. n % 2 = 0 \/ n % 2 = 1 OBVIOUS
<1>2. n \div 2 \in Nat OBVIOUS
<1>3. n % 2 = 0 => n = 2 * (n \div 2) OBVIOUS
<1>4. n % 2 = 1 => n = 2 * (n \div 2) + 1 OBVIOUS
<1>5. QED BY <1>1, <1>2, <1>3, <1>4

\* The whole lines are half as many as the half lines.
LEMMA LinesOfType ==
    ASSUME NEW f \in Seq(Half)
    PROVE  /\ LinesOf(f) \in Seq(Line) /\ Len(LinesOf(f)) = Len(f) \div 2
           /\ Len(f) \div 2 \in Nat /\ Len(f) \in Nat
           /\ \A k \in 1 .. Len(f) \div 2 : LinesOf(f)[k] = f[2 * k].line
<1>1. Len(f) \in Nat OBVIOUS
<1>2. /\ Len(f) \div 2 \in Nat
      /\ Len(f) = 2 * (Len(f) \div 2) \/ Len(f) = 2 * (Len(f) \div 2) + 1
  BY <1>1, Halves
<1> DEFINE w == Len(f) \div 2
<1>3. \A k \in 1 .. w : 2 * k \in 1 .. Len(f) BY <1>1, <1>2
<1>4. \A k \in 1 .. w : f[2 * k] \in Half BY <1>3
<1>5. \A k \in 1 .. w : f[2 * k].line \in Line BY <1>4 DEF Half
<1> HIDE DEF w
<1>6. LinesOf(f) = [k \in 1 .. w |-> f[2 * k].line] BY DEF LinesOf, w
<1>7. w \in Nat BY <1>2 DEF w
<1>8. LinesOf(f) \in Seq(Line) /\ Len(LinesOf(f)) = w BY <1>5, <1>6, <1>7
<1>9. QED BY <1>1, <1>6, <1>7, <1>8 DEF w

\* A line is started: the whole lines stay as they are.
LEMMA StartsLine ==
    ASSUME NEW f \in Seq(Half), NEW h \in Half, Alternate(f), Len(f) % 2 = 0, ~h.end
    PROVE  Alternate(Append(f, h)) /\ LinesOf(Append(f, h)) = LinesOf(f)
<1> DEFINE g == Append(f, h)
           w == Len(f) \div 2
<1>1. /\ Len(f) \in Nat /\ Len(g) = Len(f) + 1 /\ g[Len(f) + 1] = h /\ g \in Seq(Half)
      /\ \A i \in 1 .. Len(f) : g[i] = f[i]
  OBVIOUS
<1>2. w \in Nat /\ Len(f) = 2 * w BY <1>1, Halves
<1>3. Len(g) \div 2 = w BY <1>1, <1>2, Halves
<1>4. \A k \in 1 .. w : 2 * k \in 1 .. Len(f) BY <1>2
<1> HIDE DEF g, w
<1>5. \A k \in 1 .. w : g[2 * k].line = f[2 * k].line BY <1>1, <1>4
<1>6. LinesOf(g) = LinesOf(f)
  <2>1. LinesOf(g) = [k \in 1 .. w |-> g[2 * k].line] BY <1>3 DEF LinesOf
  <2>2. LinesOf(f) = [k \in 1 .. w |-> f[2 * k].line] BY DEF LinesOf, w
  <2>3. QED BY <1>5, <2>1, <2>2
<1>7. \A k \in 1 .. Len(g) : 2 * k <= Len(g) => g[2 * k].end /\ g[2 * k].line = g[2 * k - 1].line
  <2> SUFFICES ASSUME NEW k \in 1 .. Len(g), 2 * k <= Len(g)
               PROVE  g[2 * k].end /\ g[2 * k].line = g[2 * k - 1].line
    OBVIOUS
  <2>1. /\ k \in 1 .. Len(f) /\ 2 * k <= Len(f) /\ 2 * k \in 1 .. Len(f)
        /\ 2 * k - 1 \in 1 .. Len(f)
    BY <1>1, <1>2
  <2>2. g[2 * k] = f[2 * k] /\ g[2 * k - 1] = f[2 * k - 1] BY <1>1, <2>1
  <2>3. QED BY <2>1, <2>2 DEF Alternate
<1>8. \A k \in 1 .. Len(g) : 2 * k - 1 <= Len(g) => ~g[2 * k - 1].end
  <2> SUFFICES ASSUME NEW k \in 1 .. Len(g), 2 * k - 1 <= Len(g) PROVE ~g[2 * k - 1].end
    OBVIOUS
  <2>1. CASE 2 * k - 1 = Len(f) + 1 BY <1>1, <2>1
  <2>2. CASE 2 * k - 1 # Len(f) + 1
    <3>1. 2 * k - 1 \in 1 .. Len(f) /\ k \in 1 .. Len(f) /\ 2 * k - 1 <= Len(f) BY <1>1, <2>2
    <3>2. g[2 * k - 1] = f[2 * k - 1] BY <1>1, <3>1
    <3>3. QED BY <3>1, <3>2 DEF Alternate
  <2>3. QED BY <2>1, <2>2
<1>9. QED BY <1>6, <1>7, <1>8 DEF Alternate, g

\* A line is ended: there is one whole line more.
LEMMA EndsLine ==
    ASSUME NEW f \in Seq(Half), NEW h \in Half, Alternate(f), Len(f) % 2 = 1,
           h.end, h.line = f[Len(f)].line
    PROVE  Alternate(Append(f, h)) /\ LinesOf(Append(f, h)) = Append(LinesOf(f), h.line)
<1> DEFINE g == Append(f, h)
           w == Len(f) \div 2
<1>1. /\ Len(f) \in Nat /\ Len(g) = Len(f) + 1 /\ g[Len(f) + 1] = h /\ g \in Seq(Half)
      /\ \A i \in 1 .. Len(f) : g[i] = f[i]
  OBVIOUS
<1>2. w \in Nat /\ Len(f) = 2 * w + 1 BY <1>1, Halves
<1>3. Len(g) \div 2 = w + 1 BY <1>1, <1>2, Halves
<1>4. \A k \in 1 .. w : 2 * k \in 1 .. Len(f) BY <1>2
<1> HIDE DEF g
<1>5. \A k \in 1 .. w : g[2 * k].line = f[2 * k].line BY <1>1, <1>4
<1>6. LinesOf(g) = Append(LinesOf(f), h.line)
  <2> DEFINE more == Append(LinesOf(f), h.line)
  <2>1. LinesOf(g) = [k \in 1 .. w + 1 |-> g[2 * k].line] BY <1>3 DEF LinesOf
  <2>2. LinesOf(f) \in Seq(Line) /\ Len(LinesOf(f)) = w BY LinesOfType
  <2>3. h.line \in Line BY DEF Half
  <2>4. /\ more \in Seq(Line) /\ Len(more) = w + 1 /\ more[w + 1] = h.line
        /\ \A k \in 1 .. w : more[k] = LinesOf(f)[k]
    BY <2>2, <2>3
  <2>5. \A k \in 1 .. w : LinesOf(f)[k] = f[2 * k].line BY LinesOfType
  <2> HIDE DEF more, w
  <2>6. g[2 * (w + 1)] = h BY <1>1, <1>2
  <2>7. ASSUME NEW k \in 1 .. w + 1 PROVE g[2 * k].line = more[k]
    <3>1. CASE k \in 1 .. w BY <1>5, <2>4, <2>5, <3>1
    <3>2. CASE k = w + 1 BY <2>4, <2>6, <3>2
    <3>3. QED BY <1>2, <3>1, <3>2
  <2>8. LinesOf(g) \in Seq(Line) /\ Len(LinesOf(g)) = w + 1 BY <1>1, <1>3, LinesOfType
  <2>9. \A k \in 1 .. w + 1 : LinesOf(g)[k] = more[k] BY <2>1, <2>7
  <2>10. LinesOf(g) = more BY <1>2, <2>4, <2>8, <2>9, SeqEqual
  <2>11. QED BY <2>10 DEF more
<1> HIDE DEF w
<1>7. \A k \in 1 .. Len(g) : 2 * k <= Len(g) => g[2 * k].end /\ g[2 * k].line = g[2 * k - 1].line
  <2> SUFFICES ASSUME NEW k \in 1 .. Len(g), 2 * k <= Len(g)
               PROVE  g[2 * k].end /\ g[2 * k].line = g[2 * k - 1].line
    OBVIOUS
  <2>1. CASE 2 * k = Len(f) + 1
    <3>1. 2 * k - 1 = Len(f) /\ Len(f) \in 1 .. Len(f) BY <1>1, <1>2, <2>1
    <3>2. g[2 * k - 1] = f[Len(f)] /\ g[2 * k] = h BY <1>1, <2>1, <3>1
    <3>3. QED BY <3>2
  <2>2. CASE 2 * k # Len(f) + 1
    <3>1. /\ k \in 1 .. Len(f) /\ 2 * k <= Len(f) /\ 2 * k \in 1 .. Len(f)
          /\ 2 * k - 1 \in 1 .. Len(f)
      BY <1>1, <2>2
    <3>2. g[2 * k] = f[2 * k] /\ g[2 * k - 1] = f[2 * k - 1] BY <1>1, <3>1
    <3>3. QED BY <3>1, <3>2 DEF Alternate
  <2>3. QED BY <2>1, <2>2
<1>8. \A k \in 1 .. Len(g) : 2 * k - 1 <= Len(g) => ~g[2 * k - 1].end
  <2> SUFFICES ASSUME NEW k \in 1 .. Len(g), 2 * k - 1 <= Len(g) PROVE ~g[2 * k - 1].end
    OBVIOUS
  <2>1. 2 * k - 1 \in 1 .. Len(f) /\ k \in 1 .. Len(f) /\ 2 * k - 1 <= Len(f) BY <1>1, <1>2
  <2>2. g[2 * k - 1] = f[2 * k - 1] BY <1>1, <2>1
  <2>3. QED BY <2>1, <2>2 DEF Alternate
<1>9. QED BY <1>6, <1>7, <1>8 DEF Alternate, g

\* What was read still follows when the file has grown.
LEMMA FollowsGrown ==
    ASSUME NEW f \in Seq(Half), NEW h \in Half, NEW m \in Nat, NEW t \in TailerState,
           Follows(f, m, t)
    PROVE  Follows(Append(f, h), m, t)
<1> DEFINE g == Append(f, h)
<1>1. /\ Len(f) \in Nat /\ Len(g) = Len(f) + 1
      /\ \A i \in 1 .. Len(f) : g[i] = f[i]
  OBVIOUS
<1>2. t.offset \in Nat /\ t.pending \in Seq(Half) BY DEF TailerState
<1>3. Len(t.pending) \in Nat BY <1>2
<1>4. \A i \in 1 .. Len(t.pending) : 2 * m + i \in 1 .. Len(f) BY <1>1, <1>2, <1>3 DEF Follows
<1> HIDE DEF g
<1>5. \A i \in 1 .. Len(t.pending) : t.pending[i] = g[2 * m + i] BY <1>1, <1>4 DEF Follows
<1>6. QED BY <1>1, <1>2, <1>5 DEF Follows, g

\* The tailer reads up to the end of the file.
LEMMA ReadFollows ==
    ASSUME NEW f \in Seq(Half), NEW m \in Nat, NEW t \in TailerState, Follows(f, m, t)
    PROVE  LET u == [t EXCEPT !.pending = @ \o SubSeq(f, t.offset + 1, Len(f)), !.offset = Len(f)]
           IN  /\ u \in TailerState /\ Follows(f, m, u) /\ u.offset = Len(f)
               /\ u.done = t.done /\ u.failed = t.failed /\ u.log = t.log
<1> DEFINE q == t.pending
           r == SubSeq(f, t.offset + 1, Len(f))
           p == q \o r
           u == [t EXCEPT !.pending = p, !.offset = Len(f)]
<1>1. t.offset \in Nat /\ q \in Seq(Half) BY DEF TailerState
<1>2. /\ t.offset <= Len(f) /\ Len(f) \in Nat /\ 2 * m <= t.offset /\ Len(q) = t.offset - 2 * m
      /\ \A i \in 1 .. Len(q) : q[i] = f[2 * m + i]
  BY DEF Follows
<1>3. /\ r \in Seq(Half) /\ Len(r) = Len(f) - t.offset
      /\ \A i \in 1 .. Len(f) - t.offset : r[i] = f[t.offset + i]
  <2>1. \A i \in t.offset + 1 .. Len(f) : f[i] \in Half BY <1>1
  <2>2. QED BY <1>1, <1>2, <2>1
<1> HIDE DEF q, r
<1>4. /\ p \in Seq(Half) /\ Len(p) = Len(q) + Len(r)
      /\ \A i \in 1 .. Len(q) + Len(r) : p[i] = IF i <= Len(q) THEN q[i] ELSE r[i - Len(q)]
  BY <1>1, <1>3
<1> HIDE DEF p
<1>5. Len(p) = Len(f) - 2 * m BY <1>1, <1>2, <1>3, <1>4
<1>6. \A i \in 1 .. Len(p) : p[i] = f[2 * m + i]
  <2> SUFFICES ASSUME NEW i \in 1 .. Len(p) PROVE p[i] = f[2 * m + i]
    OBVIOUS
  <2>1. CASE i <= Len(q) BY <1>1, <1>2, <1>4, <2>1
  <2>2. CASE ~(i <= Len(q))
    <3>0. Len(q) \in Nat /\ Len(r) \in Nat BY <1>1, <1>3
    <3>1. /\ i - Len(q) \in 1 .. Len(f) - t.offset /\ t.offset + (i - Len(q)) = 2 * m + i
          /\ i \in 1 .. Len(q) + Len(r)
      <4>1. i \in Nat /\ i >= 1 /\ i <= Len(f) - 2 * m BY <1>1, <1>2, <1>5
      <4>2. i > Len(q) /\ i - Len(q) \in Nat BY <2>2, <3>0, <4>1
      <4>3. t.offset = Len(q) + 2 * m BY <1>1, <1>2, <3>0
      <4>4. t.offset + (i - Len(q)) = 2 * m + i BY <1>1, <3>0, <4>1, <4>3
      <4>5. i - Len(q) <= Len(f) - t.offset BY <1>1, <1>2, <3>0, <4>1, <4>3
      <4>6. i <= Len(q) + Len(r) BY <1>1, <1>2, <1>3, <3>0, <4>1, <4>3
      <4>7. QED BY <1>1, <1>2, <3>0, <4>1, <4>2, <4>4, <4>5, <4>6
    <3>2. p[i] = r[i - Len(q)] BY <1>4, <2>2, <3>1
    <3>3. r[i - Len(q)] = f[t.offset + (i - Len(q))] BY <1>3, <3>1
    <3>4. QED BY <3>1, <3>2, <3>3
  <2>3. QED BY <2>1, <2>2
<1>7. /\ u \in TailerState /\ u.pending = p /\ u.offset = Len(f)
      /\ u.done = t.done /\ u.failed = t.failed /\ u.log = t.log
  BY <1>2, <1>4 DEF TailerState
<1> HIDE DEF u
<1>8. 2 * m <= Len(f) BY <1>1, <1>2
<1>9. Follows(f, m, u) BY <1>2, <1>5, <1>6, <1>7, <1>8 DEF Follows
<1>10. QED BY <1>7, <1>9 DEF u, p, q, r

\* The newlines of what is pending.
NewlinesOf(p) == {k \in DOMAIN p : p[k].end}

\* The first newline ends the next line of the feed.
LEMMA DrainFollows ==
    ASSUME NEW f \in Seq(Half), Alternate(f), NEW m \in Nat, NEW t \in TailerState,
           Follows(f, m, t), NEW n \in NewlinesOf(t.pending),
           \A k \in NewlinesOf(t.pending) : n <= k
    PROVE  LET u == [t EXCEPT !.pending = SubSeq(@, n + 1, Len(@))]
           IN  /\ u \in TailerState /\ Follows(f, m + 1, u) /\ u.offset = t.offset
               /\ m < Len(f) \div 2
               /\ Joined(SubSeq(t.pending, 1, n)) = LinesOf(f)[m + 1]
               /\ u.done = t.done /\ u.failed = t.failed /\ u.log = t.log
<1> DEFINE p == t.pending
           q == SubSeq(p, n + 1, Len(p))
           u == [t EXCEPT !.pending = q]
<1>1. t.offset \in Nat /\ p \in Seq(Half) BY DEF TailerState
<1>2. /\ t.offset <= Len(f) /\ Len(f) \in Nat /\ 2 * m <= t.offset /\ Len(p) = t.offset - 2 * m
      /\ \A i \in 1 .. Len(p) : p[i] = f[2 * m + i]
  BY DEF Follows
<1>3. Len(p) \in Nat /\ DOMAIN p = 1 .. Len(p) BY <1>1
<1>4. /\ n \in 1 .. Len(p) /\ p[n].end
      /\ \A k \in 1 .. Len(p) : p[k].end => n <= k
  BY <1>3 DEF NewlinesOf
<1> HIDE DEF p
<1>5. ~p[1].end
  <2>1. 1 \in 1 .. Len(p) /\ m + 1 \in 1 .. Len(f) /\ 2 * (m + 1) - 1 <= Len(f)
        /\ 2 * (m + 1) - 1 = 2 * m + 1
    BY <1>1, <1>2, <1>3, <1>4
  <2>2. ~f[2 * (m + 1) - 1].end BY <2>1 DEF Alternate
  <2>3. QED BY <1>2, <2>1, <2>2
<1>6. n >= 2 /\ Len(p) >= 2 BY <1>3, <1>4, <1>5
<1>7. /\ m + 1 \in 1 .. Len(f) /\ 2 * (m + 1) <= Len(f)
      /\ 2 * (m + 1) - 1 = 2 * m + 1 /\ 2 * (m + 1) = 2 * m + 2
  BY <1>1, <1>2, <1>3, <1>6
<1>8. f[2 * m + 2].end /\ f[2 * m + 2].line = f[2 * m + 1].line BY <1>7 DEF Alternate
<1>9. 1 \in 1 .. Len(p) /\ 2 \in 1 .. Len(p) BY <1>3, <1>6
<1>10. p[1] = f[2 * m + 1] /\ p[2] = f[2 * m + 2] BY <1>2, <1>9
<1>11. n = 2 BY <1>3, <1>4, <1>6, <1>8, <1>9, <1>10
<1>12. /\ m + 1 \in 1 .. Len(f) \div 2 /\ m < Len(f) \div 2 BY <1>2, <1>7, Halves
<1>13. LinesOf(f)[m + 1] = f[2 * (m + 1)].line BY <1>12, LinesOfType
<1>14. Joined(SubSeq(p, 1, n)) = LinesOf(f)[m + 1]
  <2> DEFINE s == SubSeq(p, 1, 2)
  <2>1. Len(s) = 2 /\ s[1] = p[1] /\ s[2] = p[2] BY <1>1, <1>3, <1>6
  <2> HIDE DEF s
  <2>2. Joined(s) = p[2].line BY <1>5, <1>8, <1>10, <2>1 DEF Joined
  <2>3. QED BY <1>7, <1>10, <1>11, <1>13, <2>2 DEF s
<1>15. /\ q \in Seq(Half) /\ Len(q) = Len(p) - 2
       /\ \A i \in 1 .. Len(p) - 2 : q[i] = p[i + 2]
  <2>1. \A i \in 3 .. Len(p) : p[i] \in Half BY <1>1 DEF p
  <2>2. q = SubSeq(p, 3, Len(p)) BY <1>11
  <2> HIDE DEF q
  <2>3. QED BY <1>1, <1>3, <1>6, <2>1, <2>2 DEF p
<1> HIDE DEF q
<1>16. \A i \in 1 .. Len(q) : q[i] = f[2 * (m + 1) + i]
  <2> SUFFICES ASSUME NEW i \in 1 .. Len(q) PROVE q[i] = f[2 * (m + 1) + i]
    OBVIOUS
  <2>1. i + 2 \in 1 .. Len(p) /\ 2 * m + (i + 2) = 2 * (m + 1) + i /\ i \in 1 .. Len(p) - 2
    BY <1>3, <1>6, <1>15
  <2>2. q[i] = p[i + 2] BY <1>15, <2>1
  <2>3. p[i + 2] = f[2 * m + (i + 2)] BY <1>2, <2>1
  <2>4. QED BY <2>1, <2>2, <2>3
<1>17. /\ u \in TailerState /\ u.pending = q /\ u.offset = t.offset
       /\ u.done = t.done /\ u.failed = t.failed /\ u.log = t.log
  BY <1>15 DEF TailerState
<1> HIDE DEF u
<1>18. 2 * (m + 1) <= t.offset /\ Len(q) = t.offset - 2 * (m + 1)
  BY <1>1, <1>2, <1>3, <1>6, <1>15
<1>19. Follows(f, m + 1, u) BY <1>2, <1>16, <1>17, <1>18 DEF Follows
<1>20. QED BY <1>12, <1>14, <1>17, <1>19 DEF u, q, p

\* Nothing whole is left of a file that ends with a line and has been read to its end.
LEMMA DrainedOut ==
    ASSUME NEW f \in Seq(Half), Alternate(f), NEW m \in Nat, NEW t \in TailerState,
           Follows(f, m, t), NewlinesOf(t.pending) = {}, t.offset = Len(f), Len(f) % 2 = 0
    PROVE  t.pending = << >>
<1> DEFINE p == t.pending
<1>1. t.offset \in Nat /\ p \in Seq(Half) BY DEF TailerState
<1>2. /\ Len(f) \in Nat /\ 2 * m <= Len(f) /\ Len(p) = Len(f) - 2 * m
      /\ \A i \in 1 .. Len(p) : p[i] = f[2 * m + i]
  <2>1. /\ 2 * m <= t.offset /\ Len(p) = t.offset - 2 * m
        /\ \A i \in 1 .. Len(p) : p[i] = f[2 * m + i]
    BY DEF Follows
  <2>2. Len(f) \in Nat OBVIOUS
  <2> HIDE DEF p
  <2>3. QED BY <2>1, <2>2
<1>3. Len(p) \in Nat /\ DOMAIN p = 1 .. Len(p) BY <1>1
<1>4. \A i \in 1 .. Len(p) : ~p[i].end BY <1>3 DEF NewlinesOf
<1> HIDE DEF p
<1>5. ASSUME Len(p) >= 2 PROVE FALSE
  <2>1. /\ 2 \in 1 .. Len(p) /\ m + 1 \in 1 .. Len(f) /\ 2 * (m + 1) <= Len(f)
        /\ 2 * (m + 1) = 2 * m + 2
    BY <1>2, <1>3, <1>5
  <2>2. f[2 * (m + 1)].end BY <2>1 DEF Alternate
  <2>3. QED BY <1>2, <1>4, <2>1, <2>2
<1>6. Len(p) = 0
  <2>1. Len(f) = 2 * (Len(f) \div 2) /\ Len(f) \div 2 \in Nat BY <1>2, Halves
  <2>2. Len(p) = 0 \/ Len(p) = 1 BY <1>3, <1>5
  <2>3. Len(p) = 2 * (Len(f) \div 2) - 2 * m BY <1>2, <2>1
  <2> DEFINE w == Len(f) \div 2
  <2>4. w \in Nat /\ Len(p) = 2 * w - 2 * m BY <2>1, <2>3
  <2> HIDE DEF w
  <2>5. Len(p) # 1 BY <2>4
  <2>6. QED BY <2>2, <2>5
<1>7. QED BY <1>1, <1>6 DEF p

-----------------------------------------------------------------------------
\* What the tailer holds is the file up to its offset: whole lines it has told
\* of, and the halves pending.
FeedIsRead == \E m \in 0 .. Written : Follows(file, m, tailer) /\ Told(Feed, m, tailer)

\* The pass after the exit sees a file that no longer grows.
LastPass ==
    /\ Choosing => ~fetch.last
    /\ fetch.last => Exited
    /\ At("return") \/ At("ok_cli") => Exited
    /\ At("ok_cli") => child = "exit_0"
    /\ Watched /\ child \in {"running", "exit_0"} => there
    /\ Watched /\ child = "exit_0" => Len(file) % 2 = 0
    /\ Watched /\ child = "exit_0" /\ fetch.last /\ At("drain") => tailer.offset = Len(file)
    /\ Watched /\ child = "exit_0" /\ (At("return") \/ At("ok_cli")) =>
          tailer.offset = Len(file) /\ tailer.pending = << >>

\* The inductive invariant.
ProgressInv == DownloadTypeOK /\ Alternate(file) /\ FeedIsRead /\ LastPass

\* The names of the component, for the values above.
LEMMA FeedIs == Feed = LinesOf(file) /\ Written = Len(file) \div 2 /\ Newlines = NewlinesOf(tailer.pending)
BY DEF Feed, Written, LinesOf, Newlines, NewlinesOf

\* No feed, and a tailer that has read none of it.
Unfed ==
    /\ child = "none" /\ file = << >> /\ there = FALSE
    /\ tailer = [offset |-> 0, pending |-> << >>, done |-> {}, failed |-> {}, log |-> << >>]

\* At first nothing is written, read or told.
LEMMA FeedInit == Unfed => Alternate(file) /\ FeedIsRead
<1> SUFFICES ASSUME Unfed PROVE Alternate(file) /\ FeedIsRead
  OBVIOUS
<1>1. file = << >> /\ Len(file) = 0 /\ file \in Seq(Half) BY DEF Unfed
<1>2. Alternate(file) BY <1>1 DEF Alternate
<1>3. /\ tailer.offset = 0 /\ tailer.pending = << >> /\ tailer.done = {} /\ tailer.failed = {}
      /\ tailer.log = << >>
  BY DEF Unfed
<1>4. Follows(file, 0, tailer) BY <1>1, <1>3 DEF Follows
<1>5. Feed \in Seq(Line) /\ Written \in Nat BY <1>1, FeedIs, LinesOfType
<1>6. IsFiniteSet(tailer.done) /\ Cardinality(tailer.done) = 0 BY <1>3, FS_EmptySet
<1>7. FirstBy(Feed, 0) = {} BY <1>5 DEF FirstBy, FirstFound
<1>8. Cardinality(FirstBy(Feed, 0)) = 0 BY <1>7, FS_EmptySet
<1>9. Told(Feed, 0, tailer) BY <1>3, <1>6, <1>8 DEF Told
<1>10. 0 \in 0 .. Written BY <1>5
<1>11. QED BY <1>2, <1>4, <1>9, <1>10 DEF FeedIsRead

\* A step of anybody but the child and the tailer.
LEMMA FeedKept ==
    ASSUME Alternate(file), FeedIsRead, UNCHANGED <<file, tailer>>
    PROVE  Alternate(file)' /\ FeedIsRead'
BY DEF FeedIsRead, Written, Feed

\* The child writes half a line, wherever the tailer is.
LEMMA WriteReads ==
    ASSUME file \in Seq(Half), tailer \in TailerState, Alternate(file), FeedIsRead, Write
    PROVE  file' \in Seq(Half) /\ Alternate(file)' /\ FeedIsRead'
<1>1. PICK m \in 0 .. Written : Follows(file, m, tailer) /\ Told(Feed, m, tailer)
  BY DEF FeedIsRead
<1>2. tailer' = tailer /\ Len(file) \in Nat BY DEF Write
<1>3. /\ LinesOf(file) \in Seq(Line) /\ Len(LinesOf(file)) = Written /\ Written \in Nat /\ m \in Nat
      /\ Told(LinesOf(file), m, tailer)
  BY <1>1, FeedIs, LinesOfType
<1>4. CASE Len(file) % 2 = 1
  <2> DEFINE h == [line |-> file[Len(file)].line, end |-> TRUE]
  <2>1. file' = Append(file, h) BY <1>4 DEF Write
  <2>2. Len(file) \in 1 .. Len(file) BY <1>2, <1>4
  <2>3. file[Len(file)] \in Half BY <2>2
  <2>4. h \in Half /\ h.line \in Line /\ h.end /\ h.line = file[Len(file)].line BY <2>3 DEF Half
  <2> HIDE DEF h
  <2>5. file' \in Seq(Half) BY <2>1, <2>4
  <2>6. Alternate(file') /\ LinesOf(file') = Append(LinesOf(file), h.line)
    BY <1>4, <2>1, <2>4, EndsLine
  <2>7. Follows(file', m, tailer) BY <1>1, <1>3, <2>1, <2>4, FollowsGrown
  <2>8. Told(LinesOf(file'), m, tailer) BY <1>1, <1>3, <2>4, <2>6, ToldGrows
  <2>9. Len(LinesOf(file')) = Written + 1 BY <1>3, <2>4, <2>6
  <2>10. Len(file') \div 2 = Written + 1 BY <2>5, <2>9, LinesOfType
  <2>11. Feed' = LinesOf(file') /\ Written' = Len(file') \div 2 BY DEF Feed, Written, LinesOf
  <2>12. m \in 0 .. Written' BY <1>1, <1>3, <2>10, <2>11
  <2>13. QED BY <1>2, <2>5, <2>6, <2>7, <2>8, <2>11, <2>12 DEF FeedIsRead
<1>5. CASE Len(file) % 2 # 1
  <2>1. PICK line \in Line : file' = Append(file, [line |-> line, end |-> FALSE])
    BY <1>5 DEF Write
  <2> DEFINE h == [line |-> line, end |-> FALSE]
  <2>2. file' = Append(file, h) BY <2>1
  <2>3. h \in Half /\ ~h.end BY DEF Half
  <2> HIDE DEF h
  <2>4. Len(file) % 2 = 0 BY <1>2, <1>5, Halves
  <2>5. file' \in Seq(Half) BY <2>2, <2>3
  <2>6. Alternate(file') /\ LinesOf(file') = LinesOf(file) BY <2>2, <2>3, <2>4, StartsLine
  <2>7. Follows(file', m, tailer) BY <1>1, <1>3, <2>2, <2>3, FollowsGrown
  <2>8. Len(file') \div 2 = Written BY <1>3, <2>5, <2>6, LinesOfType
  <2>9. Feed' = LinesOf(file') /\ Written' = Len(file') \div 2 BY DEF Feed, Written, LinesOf
  <2>10. QED BY <1>1, <1>2, <1>3, <2>5, <2>6, <2>7, <2>8, <2>9 DEF FeedIsRead
<1>6. QED BY <1>4, <1>5

\* Told is about the maps and the events alone.
LEMMA ToldSame ==
    ASSUME NEW lines, NEW m, NEW t, NEW u, Told(lines, m, t),
           u.done = t.done, u.failed = t.failed, u.log = t.log
    PROVE  Told(lines, m, u)
BY DEF Told

\* The tailer reads to the end, or takes a line: what was told stays true, and the
\* next line of the feed is what is told next.
LEMMA PollReads ==
    ASSUME file \in Seq(Half), tailer \in TailerState, Alternate(file), FeedIsRead,
           ReadAppended \/ Drain
    PROVE  /\ tailer' \in TailerState /\ Alternate(file)' /\ FeedIsRead'
           /\ ReadAppended => tailer'.offset = Len(file)
           /\ Drain => tailer'.offset = tailer.offset
<1>1. PICK m \in 0 .. Written : Follows(file, m, tailer) /\ Told(Feed, m, tailer)
  BY DEF FeedIsRead
<1>2. /\ LinesOf(file) \in Seq(Line) /\ Len(LinesOf(file)) = Written /\ Written \in Nat /\ m \in Nat
      /\ Feed = LinesOf(file)
  BY <1>1, FeedIs, LinesOfType
<1>3. ASSUME ReadAppended
      PROVE  tailer' \in TailerState /\ Alternate(file)' /\ FeedIsRead' /\ tailer'.offset = Len(file)
  <2> DEFINE u == [tailer EXCEPT
                     !.pending = @ \o SubSeq(file, tailer.offset + 1, Len(file)),
                     !.offset = Len(file)]
  <2>1. tailer' = u /\ file' = file BY <1>3 DEF ReadAppended
  <2>2. /\ u \in TailerState /\ Follows(file, m, u) /\ u.offset = Len(file)
        /\ u.done = tailer.done /\ u.failed = tailer.failed /\ u.log = tailer.log
    BY <1>1, <1>2, ReadFollows
  <2> HIDE DEF u
  <2>3. Told(Feed, m, u) BY <1>1, <2>2, ToldSame
  <2>4. Feed' = Feed /\ Written' = Written BY <2>1 DEF Feed, Written
  <2>5. QED BY <1>1, <2>1, <2>2, <2>3, <2>4 DEF FeedIsRead
<1>4. ASSUME Drain
      PROVE  tailer' \in TailerState /\ Alternate(file)' /\ FeedIsRead' /\ tailer'.offset = tailer.offset
  <2>1. PICK n \in Newlines :
          /\ \A k \in Newlines : n <= k
          /\ tailer' = ChunkEvent(Joined(SubSeq(tailer.pending, 1, n)),
                                  [tailer EXCEPT !.pending = SubSeq(@, n + 1, Len(@))])
    BY <1>4 DEF Drain
  <2> DEFINE u == [tailer EXCEPT !.pending = SubSeq(@, n + 1, Len(@))]
  <2>2. n \in NewlinesOf(tailer.pending) /\ \A k \in NewlinesOf(tailer.pending) : n <= k
    BY <2>1, FeedIs
  <2>3. /\ u \in TailerState /\ Follows(file, m + 1, u) /\ u.offset = tailer.offset
        /\ m < Len(file) \div 2
        /\ Joined(SubSeq(tailer.pending, 1, n)) = LinesOf(file)[m + 1]
        /\ u.done = tailer.done /\ u.failed = tailer.failed /\ u.log = tailer.log
    BY <1>1, <1>2, <2>2, DrainFollows, ZenonT(30)
  <2>4. tailer' = ChunkEvent(LinesOf(file)[m + 1], u) BY <2>1, <2>3
  <2> HIDE DEF u
  <2>5. m < Len(LinesOf(file)) /\ m \in 0 .. Len(LinesOf(file)) BY <1>1, <1>2, <2>3, FeedIs
  <2>6. Told(LinesOf(file), m, u) BY <1>1, <1>2, <2>3, ToldSame
  <2> DEFINE v == ChunkEvent(LinesOf(file)[m + 1], u)
  <2>7. v \in TailerState /\ Told(LinesOf(file), m + 1, v) /\ v.pending = u.pending /\ v.offset = u.offset
    BY <1>2, <2>3, <2>5, <2>6, ToldNext
  <2> HIDE DEF v
  <2>8. Follows(file, m + 1, v) BY <2>3, <2>7 DEF Follows
  <2>9. tailer' = v BY <2>4 DEF v
  <2>10. file' = file BY <1>4 DEF Drain
  <2>11. Feed' = LinesOf(file) /\ Written' = Written /\ m + 1 \in 0 .. Written
    <3>1. Feed' = Feed /\ Written' = Written BY <2>10 DEF Feed, Written
    <3>2. QED BY <1>2, <2>5, <3>1
  <2>12. QED BY <2>3, <2>7, <2>8, <2>9, <2>10, <2>11 DEF FeedIsRead
<1>5. QED BY <1>3, <1>4

-----------------------------------------------------------------------------
\* Where a fetch can be.
FetchAt == {"idle", "check", "ask_start", "ask_install", "verify", "data", "stream", "body",
            "spawn", "stat", "read", "drain", "wait", "return"} \cup Ended

\* A thread that goes on, with what it holds and what it was told changed or not.
GoesFrom(f, s, g) ==
    g \in FetchState /\ g.at = s /\ g.caller = f.caller /\ g.last = f.last

LEMMA FetchGoes == \A f \in FetchState, s \in FetchAt : GoesFrom(f, s, [f EXCEPT !.at = s])
BY DEF FetchState, FetchAt, GoesFrom

LEMMA FetchHolds ==
    \A f \in FetchState, s \in FetchAt, h \in BOOLEAN :
        GoesFrom(f, s, [f EXCEPT !.held = h, !.at = s])
<1> SUFFICES ASSUME NEW f \in FetchState, NEW s \in FetchAt, NEW h \in BOOLEAN, NEW g,
                    g = [f EXCEPT !.held = h, !.at = s]
             PROVE  GoesFrom(f, s, g)
  OBVIOUS
<1>1. QED BY DEF FetchState, FetchAt, GoesFrom

LEMMA FetchMeasures ==
    \A f \in FetchState, s \in FetchAt, n \in Nat :
        GoesFrom(f, s, [f EXCEPT !.len = n, !.at = s])
<1> SUFFICES ASSUME NEW f \in FetchState, NEW s \in FetchAt, NEW n \in Nat, NEW g,
                    g = [f EXCEPT !.len = n, !.at = s]
             PROVE  GoesFrom(f, s, g)
  OBVIOUS
<1>1. QED BY DEF FetchState, FetchAt, GoesFrom

\* What the steps before the child is spawned do to the thread.
Chooses == \E s \in FetchAt \ {"return", "ok_cli", "drain"} :
              /\ fetch'.at = s /\ fetch' \in FetchState
              /\ fetch'.caller = fetch.caller /\ fetch'.last = fetch.last

\* The steps up to the spawn, each a choice of what is tried next.
Early == Begin \/ CheckBackend \/ StartAntd \/ InstallAnt \/ VerifyUri
            \/ FetchDirectly \/ GetData \/ OpenStream \/ ReadBody

\* They leave the child, the file and the tailer alone.
LEMMA EarlyChooses ==
    ASSUME DownloadTypeOK, Early
    PROVE  /\ Choosing /\ Chooses /\ UNCHANGED <<child, file, there, tailer>>
           /\ antd' \in BOOLEAN /\ knows' \in BOOLEAN /\ ant' \in AntAt /\ changes' = changes
<1> DEFINE Goal == /\ Choosing /\ Chooses /\ UNCHANGED <<child, file, there, tailer>>
                   /\ antd' \in BOOLEAN /\ knows' \in BOOLEAN /\ ant' \in AntAt
                   /\ changes' = changes
           Calm == FetchAt \ {"return", "ok_cli", "drain"}
<1>0. /\ fetch \in FetchState /\ antd \in BOOLEAN /\ knows \in BOOLEAN /\ ant \in AntAt
  BY DEF DownloadTypeOK
<1>1. \A s \in Calm : Goto(s) => Chooses
  <2> SUFFICES ASSUME NEW s \in Calm, Goto(s) PROVE Chooses
    OBVIOUS
  <2>1. fetch' = [fetch EXCEPT !.at = s] BY DEF Goto
  <2>2. GoesFrom(fetch, s, fetch') BY <1>0, <2>1, FetchGoes, Zenon
  <2>3. QED BY <2>2 DEF Chooses, GoesFrom
<1>2. \A s \in Calm, h \in BOOLEAN : fetch' = [fetch EXCEPT !.held = h, !.at = s] => Chooses
  <2> SUFFICES ASSUME NEW s \in Calm, NEW h \in BOOLEAN, fetch' = [fetch EXCEPT !.held = h, !.at = s]
               PROVE  Chooses
    OBVIOUS
  <2>1. GoesFrom(fetch, s, fetch') BY <1>0, FetchHolds, Zenon
  <2>2. QED BY <2>1 DEF Chooses, GoesFrom
<1>3. {"check", "ask_start", "ask_install", "verify", "data", "stream", "body", "spawn", "ok",
       "failed", "refused"} \subseteq Calm
  BY DEF FetchAt, Ended
<1> HIDE DEF Calm
<1>4. CASE Begin BY <1>0, <1>1, <1>3, <1>4 DEF Begin, At, Choosing
<1>5. CASE CheckBackend
  <2> DEFINE s == IF knows \/ Available THEN Admitted
                  ELSE IF fetch.caller = "command" THEN "ask_start" ELSE "refused"
  <2>1. s \in Calm BY <1>3 DEF Admitted
  <2>2. Available \in BOOLEAN BY DEF Available, Resolved
  <2> HIDE DEF s
  <2>3. fetch' = [fetch EXCEPT !.held = Available, !.at = s] BY <1>5 DEF CheckBackend, s
  <2>4. Chooses BY <1>2, <2>1, <2>2, <2>3
  <2>5. QED BY <1>0, <1>5, <2>4 DEF CheckBackend, At, Choosing, machine
<1>6. CASE StartAntd
  <2>1. PICK agreed \in BOOLEAN, up \in BOOLEAN :
          /\ antd' = (antd \/ (agreed /\ up))
          /\ Goto(IF agreed /\ antd' THEN "verify" ELSE "ask_install")
    BY <1>6 DEF StartAntd
  <2>2. antd' \in BOOLEAN BY <2>1
  <2>3. Goto("verify") \/ Goto("ask_install") BY <2>1
  <2>4. Chooses BY <1>1, <1>3, <2>3
  <2>5. QED BY <1>0, <1>6, <2>2, <2>4 DEF StartAntd, At, Choosing
<1>7. CASE InstallAnt
  <2>1. PICK agreed \in BOOLEAN, ran \in BOOLEAN, where \in Landed :
          /\ ant' = IF agreed THEN where ELSE ant
          /\ fetch' = [fetch EXCEPT !.held = ant' \in {"path", "home"},
                                    !.at = IF agreed /\ ran THEN "verify" ELSE "refused"]
    BY <1>7 DEF InstallAnt
  <2>2. ant' \in AntAt BY <1>0, <2>1 DEF Landed, AntAt
  <2> DEFINE s == IF agreed /\ ran THEN "verify" ELSE "refused"
             h == ant' \in {"path", "home"}
  <2>3. s \in Calm /\ h \in BOOLEAN BY <1>3
  <2>4. fetch' = [fetch EXCEPT !.held = h, !.at = s] BY <2>1
  <2> HIDE DEF s, h
  <2>5. Chooses BY <1>2, <2>3, <2>4
  <2>6. QED BY <1>0, <1>7, <2>2, <2>5 DEF InstallAnt, At, Choosing
<1>8. CASE VerifyUri
  <2>1. Goto("data") \/ Goto("failed") BY <1>8 DEF VerifyUri
  <2>2. Chooses BY <1>1, <1>3, <2>1
  <2>3. QED BY <1>0, <1>8, <2>2 DEF VerifyUri, At, Choosing, machine
<1>9. CASE FetchDirectly
  <2>1. Goto("ok") \/ Goto("failed") BY <1>9 DEF FetchDirectly
  <2>2. Chooses BY <1>1, <1>3, <2>1
  <2>3. QED BY <1>0, <1>9, <2>2 DEF FetchDirectly, At, Choosing, machine
<1>10. CASE GetData
  <2>1. Goto("ok") \/ Goto("stream") BY <1>10 DEF GetData
  <2>2. Chooses BY <1>1, <1>3, <2>1
  <2>3. QED BY <1>0, <1>10, <2>2 DEF GetData, At, Choosing, machine
<1>11. CASE OpenStream
  <2>1. Goto("body") \/ Goto("spawn") BY <1>11 DEF OpenStream
  <2>2. Chooses BY <1>1, <1>3, <2>1
  <2>3. QED BY <1>0, <1>11, <2>2 DEF OpenStream, At, Choosing, machine
<1>12. CASE ReadBody
  <2>1. Goto("ok") \/ Goto("failed") BY <1>12 DEF ReadBody
  <2>2. Chooses BY <1>1, <1>3, <2>1
  <2>3. QED BY <1>0, <1>12, <2>2 DEF ReadBody, At, Choosing, machine
<1>13. QED BY <1>4, <1>5, <1>6, <1>7, <1>8, <1>9, <1>10, <1>11, <1>12 DEF Early

\* So they keep the invariant.
LEMMA EarlyKeeps ==
    ASSUME ProgressInv, Early
    PROVE  ProgressInv'
<1>1. /\ Choosing /\ Chooses /\ UNCHANGED <<child, file, there, tailer>>
      /\ antd' \in BOOLEAN /\ knows' \in BOOLEAN /\ ant' \in AntAt /\ changes' = changes
  BY EarlyChooses DEF ProgressInv
<1>2. DownloadTypeOK' BY <1>1 DEF ProgressInv, DownloadTypeOK, Chooses
<1>3. Alternate(file)' /\ FeedIsRead' BY <1>1, FeedKept DEF ProgressInv
<1>4. LastPass' BY <1>1 DEF ProgressInv, LastPass, Chooses, Choosing, At, Exited, Watched
<1>5. QED BY <1>2, <1>3, <1>4 DEF ProgressInv

\* The spawn, which starts the child and the file, or ends the fetch.
LEMMA SpawnReads == ProgressInv /\ Spawn => ProgressInv'
<1> SUFFICES ASSUME ProgressInv, Spawn PROVE ProgressInv'
  OBVIOUS
<1>0. fetch \in FetchState /\ fetch.at = "spawn" /\ ~fetch.last
  BY DEF ProgressInv, DownloadTypeOK, LastPass, Choosing, At, Spawn
<1>1. UNCHANGED <<antd, ant, knows, changes, file, tailer>> BY DEF Spawn, machine
<1>2. Alternate(file)' /\ FeedIsRead' BY <1>1, FeedKept DEF ProgressInv
<1>3. CASE child' = "running" /\ there' = Watched /\ fetch' = Spawned
  <2> DEFINE s == IF Watched THEN "stat" ELSE "wait"
  <2>1. s \in FetchAt /\ s \in {"stat", "wait"} BY DEF FetchAt
  <2>2. fetch' = [fetch EXCEPT !.held = FALSE, !.at = s] BY <1>3 DEF Spawned
  <2> HIDE DEF s
  <2>3. fetch' \in FetchState /\ fetch'.at = s /\ fetch'.caller = fetch.caller /\ ~fetch'.last
    <3>1. FALSE \in BOOLEAN OBVIOUS
    <3>2. GoesFrom(fetch, s, fetch') BY <1>0, <2>1, <2>2, <3>1, FetchHolds, Zenon
    <3>3. QED BY <1>0, <3>2 DEF GoesFrom
  <2>4. there' \in BOOLEAN BY <1>3 DEF Watched
  <2>5. DownloadTypeOK' BY <1>1, <1>3, <2>3, <2>4 DEF ProgressInv, DownloadTypeOK
  <2>6. Watched' = Watched BY <2>3 DEF Watched
  <2>7. LastPass'
    BY <1>1, <1>3, <2>1, <2>3, <2>6 DEF LastPass, Choosing, At, Exited
  <2>8. QED BY <1>2, <2>5, <2>7 DEF ProgressInv
<1>4. CASE (Goto("failed") \/ Goto("missing")) /\ UNCHANGED <<child, there>>
  <2>1. PICK s \in {"failed", "missing"} : fetch' = [fetch EXCEPT !.at = s] BY <1>4 DEF Goto
  <2>2. s \in FetchAt BY DEF FetchAt, Ended
  <2>3. fetch' \in FetchState /\ fetch'.at = s /\ fetch'.caller = fetch.caller /\ ~fetch'.last
    <3>1. GoesFrom(fetch, s, fetch') BY <1>0, <2>1, <2>2, FetchGoes, Zenon
    <3>2. QED BY <1>0, <3>1 DEF GoesFrom
  <2>4. DownloadTypeOK' BY <1>1, <1>4, <2>3 DEF ProgressInv, DownloadTypeOK
  <2>5. LastPass' BY <1>1, <1>4, <2>3 DEF ProgressInv, LastPass, Choosing, At, Exited, Watched
  <2>6. QED BY <1>2, <2>4, <2>5 DEF ProgressInv
<1>5. QED BY <1>3, <1>4 DEF Spawn

\* The poll: a pass after the exit ends with the whole file told.
LEMMA PollKeeps == ProgressInv /\ (Stat \/ ReadAppended \/ Drain \/ Drained) => ProgressInv'
<1> SUFFICES ASSUME ProgressInv, Stat \/ ReadAppended \/ Drain \/ Drained PROVE ProgressInv'
  OBVIOUS
<1>0. /\ fetch \in FetchState /\ tailer \in TailerState /\ file \in Seq(Half) /\ Len(file) \in Nat
      /\ tailer.offset \in Nat /\ Alternate(file) /\ FeedIsRead
  BY DEF ProgressInv, DownloadTypeOK, TailerState
<1>1. UNCHANGED <<antd, ant, knows, changes, child, file, there>>
  BY DEF Stat, ReadAppended, Drain, Drained, machine
<1>2. {"read", "drain", "wait", "return"} \subseteq FetchAt BY DEF FetchAt
<1>3. CASE Stat
  <2>1. tailer' = tailer /\ fetch.at = "stat" BY <1>3 DEF Stat, At
  <2>2. \/ fetch' = [fetch EXCEPT !.len = Len(file), !.at = "read"]
        \/ fetch' = [fetch EXCEPT !.at = "drain"] /\ ~(there /\ Len(file) > tailer.offset)
    BY <1>3 DEF Stat, Goto
  <2>3. /\ fetch' \in FetchState /\ fetch'.caller = fetch.caller /\ fetch'.last = fetch.last
        /\ \/ fetch'.at = "read"
           \/ fetch'.at = "drain" /\ ~(there /\ Len(file) > tailer.offset)
    <3>1. "read" \in FetchAt /\ "drain" \in FetchAt BY <1>2
    <3>2. \/ GoesFrom(fetch, "read", fetch')
          \/ GoesFrom(fetch, "drain", fetch') /\ ~(there /\ Len(file) > tailer.offset)
      <4>1. ASSUME fetch' = [fetch EXCEPT !.len = Len(file), !.at = "read"]
            PROVE  GoesFrom(fetch, "read", fetch')
        BY <1>0, <3>1, <4>1, FetchMeasures, Zenon
      <4>2. ASSUME fetch' = [fetch EXCEPT !.at = "drain"]
            PROVE  GoesFrom(fetch, "drain", fetch')
        BY <1>0, <3>1, <4>2, FetchGoes, Zenon
      <4>3. QED BY <2>2, <4>1, <4>2
    <3>3. QED BY <3>2 DEF GoesFrom
  <2>4. tailer.offset <= Len(file) BY <1>0 DEF FeedIsRead, Follows
  <2>5. DownloadTypeOK' BY <1>1, <2>1, <2>3 DEF ProgressInv, DownloadTypeOK
  <2>6. Alternate(file)' /\ FeedIsRead' BY <1>0, <1>1, <2>1, FeedKept
  <2>7. there => tailer.offset = Len(file) \/ fetch'.at = "read" BY <1>0, <2>3, <2>4
  <2>8. LastPass'
    BY <1>1, <2>1, <2>3, <2>7 DEF ProgressInv, LastPass, Choosing, At, Exited, Watched
  <2>9. QED BY <2>5, <2>6, <2>8 DEF ProgressInv
<1>4. CASE ReadAppended
  <2>1. tailer' \in TailerState /\ Alternate(file)' /\ FeedIsRead' /\ tailer'.offset = Len(file)
    BY <1>0, <1>4, PollReads
  <2>2. fetch' = [fetch EXCEPT !.len = 0, !.at = "drain"] /\ fetch.at = "read"
    BY <1>4 DEF ReadAppended, At
  <2>3. /\ fetch' \in FetchState /\ fetch'.caller = fetch.caller /\ fetch'.last = fetch.last
        /\ fetch'.at = "drain"
    <3>1. 0 \in Nat /\ "drain" \in FetchAt BY <1>2
    <3>2. GoesFrom(fetch, "drain", fetch') BY <1>0, <2>2, <3>1, FetchMeasures, Zenon
    <3>3. QED BY <3>2 DEF GoesFrom
  <2>4. DownloadTypeOK' BY <1>1, <2>1, <2>3 DEF ProgressInv, DownloadTypeOK
  <2>5. LastPass'
    BY <1>1, <2>1, <2>2, <2>3 DEF ProgressInv, LastPass, Choosing, At, Exited, Watched
  <2>6. QED BY <2>1, <2>4, <2>5 DEF ProgressInv
<1>5. CASE Drain
  <2>1. /\ tailer' \in TailerState /\ Alternate(file)' /\ FeedIsRead'
        /\ tailer'.offset = tailer.offset
    BY <1>0, <1>5, PollReads
  <2>2. fetch' = fetch /\ fetch.at = "drain" BY <1>5 DEF Drain, At
  <2>3. DownloadTypeOK' BY <1>0, <1>1, <2>1, <2>2 DEF ProgressInv, DownloadTypeOK
  <2>4. LastPass'
    BY <1>1, <2>1, <2>2 DEF ProgressInv, LastPass, Choosing, At, Exited, Watched
  <2>5. QED BY <2>1, <2>3, <2>4 DEF ProgressInv
<1>6. CASE Drained
  <2>1. /\ tailer' = tailer /\ fetch.at = "drain" /\ Newlines = {}
        /\ Goto(IF fetch.last THEN "return" ELSE "wait")
    BY <1>6 DEF Drained, At
  <2>2. \/ fetch.last /\ fetch' = [fetch EXCEPT !.at = "return"]
        \/ ~fetch.last /\ fetch' = [fetch EXCEPT !.at = "wait"]
    BY <2>1 DEF Goto
  <2>3. /\ fetch' \in FetchState /\ fetch'.caller = fetch.caller /\ fetch'.last = fetch.last
        /\ \/ fetch.last /\ fetch'.at = "return"
           \/ ~fetch.last /\ fetch'.at = "wait"
    <3>1. "return" \in FetchAt /\ "wait" \in FetchAt BY <1>2
    <3>2. \/ fetch.last /\ GoesFrom(fetch, "return", fetch')
          \/ ~fetch.last /\ GoesFrom(fetch, "wait", fetch')
      BY <1>0, <2>2, <3>1, FetchGoes, Zenon
    <3>3. QED BY <3>2 DEF GoesFrom
  <2>4. DownloadTypeOK' BY <1>1, <2>1, <2>3 DEF ProgressInv, DownloadTypeOK
  <2>5. Alternate(file)' /\ FeedIsRead' BY <1>0, <1>1, <2>1, FeedKept
  <2>6. tailer.offset = Len(file) /\ Len(file) % 2 = 0 => tailer.pending = << >>
    <3>1. PICK m \in 0 .. Written : Follows(file, m, tailer) BY <1>0 DEF FeedIsRead
    <3>2. Written \in Nat /\ m \in Nat BY <1>0, FeedIs, LinesOfType
    <3>3. NewlinesOf(tailer.pending) = {} BY <2>1, FeedIs
    <3>4. QED BY <1>0, <3>1, <3>2, <3>3, DrainedOut
  <2>7. LastPass'
    BY <1>1, <2>1, <2>3, <2>6 DEF ProgressInv, LastPass, Choosing, At, Exited, Watched
  <2>8. QED BY <2>4, <2>5, <2>7 DEF ProgressInv
<1>7. QED BY <1>3, <1>4, <1>5, <1>6

\* Waiting for the child, and its exit status.
LEMMA ReturnKeeps == ProgressInv /\ (Wait \/ ReturnFromCli) => ProgressInv'
<1> SUFFICES ASSUME ProgressInv, Wait \/ ReturnFromCli PROVE ProgressInv'
  OBVIOUS
<1>0. fetch \in FetchState BY DEF ProgressInv, DownloadTypeOK
<1>1. UNCHANGED <<antd, ant, knows, changes, child, file, there, tailer>>
  BY DEF Wait, ReturnFromCli, machine
<1>2. Alternate(file)' /\ FeedIsRead' BY <1>1, FeedKept DEF ProgressInv
<1>3. {"stat", "return", "ok_cli", "failed"} \subseteq FetchAt BY DEF FetchAt, Ended
<1>4. CASE Wait /\ Exited /\ fetch' = [fetch EXCEPT !.last = TRUE,
                                            !.at = IF Watched THEN "stat" ELSE "return"]
  <2>1. /\ fetch' \in FetchState /\ fetch'.caller = fetch.caller /\ fetch'.last
        /\ fetch'.at = IF Watched THEN "stat" ELSE "return"
    BY <1>0, <1>4 DEF FetchState
  <2>2. DownloadTypeOK' BY <1>1, <2>1 DEF ProgressInv, DownloadTypeOK
  <2>3. LastPass'
    BY <1>1, <1>4, <2>1 DEF ProgressInv, LastPass, Choosing, At, Exited, Watched
  <2>4. QED BY <1>2, <2>2, <2>3 DEF ProgressInv
<1>5. CASE Wait /\ child = "running" /\ Goto("stat")
  <2>1. /\ fetch' \in FetchState /\ fetch'.caller = fetch.caller /\ fetch'.last = fetch.last
        /\ fetch'.at = "stat" /\ fetch.at = "wait"
    <3>1. fetch' = [fetch EXCEPT !.at = "stat"] /\ fetch.at = "wait" BY <1>5 DEF Goto, Wait, At
    <3>2. "stat" \in FetchAt BY <1>3
    <3>3. GoesFrom(fetch, "stat", fetch') BY <1>0, <3>1, <3>2, FetchGoes, Zenon
    <3>4. QED BY <3>1, <3>3 DEF GoesFrom
  <2>2. DownloadTypeOK' BY <1>1, <2>1 DEF ProgressInv, DownloadTypeOK
  <2>3. LastPass'
    BY <1>1, <1>5, <2>1 DEF ProgressInv, LastPass, Choosing, At, Exited, Watched
  <2>4. QED BY <1>2, <2>2, <2>3 DEF ProgressInv
<1>6. CASE ReturnFromCli
  <2>1. PICK s \in {"ok_cli", "failed"} : Goto(s) /\ (s = "ok_cli" => child = "exit_0")
    BY <1>6 DEF ReturnFromCli
  <2>2. fetch' = [fetch EXCEPT !.at = s] /\ s \in FetchAt BY <1>3, <2>1 DEF Goto
  <2>3. /\ fetch' \in FetchState /\ fetch'.caller = fetch.caller /\ fetch'.last = fetch.last
        /\ fetch'.at = s
    <3>1. GoesFrom(fetch, s, fetch') BY <1>0, <2>2, FetchGoes, Zenon
    <3>2. QED BY <3>1 DEF GoesFrom
  <2>4. fetch.at = "return" BY <1>6 DEF ReturnFromCli, At
  <2>5. DownloadTypeOK' BY <1>1, <2>3 DEF ProgressInv, DownloadTypeOK
  <2>6. LastPass'
    BY <1>1, <2>1, <2>3, <2>4 DEF ProgressInv, LastPass, Choosing, At, Exited, Watched
  <2>7. QED BY <1>2, <2>5, <2>6 DEF ProgressInv
<1>7. CASE Wait /\ Goto("failed")
  <2>1. fetch' = [fetch EXCEPT !.at = "failed"] /\ fetch.at = "wait" BY <1>7 DEF Goto, Wait, At
  <2>2. /\ fetch' \in FetchState /\ fetch'.caller = fetch.caller /\ fetch'.last = fetch.last
        /\ fetch'.at = "failed"
    <3>1. "failed" \in FetchAt BY <1>3
    <3>2. GoesFrom(fetch, "failed", fetch') BY <1>0, <2>1, <3>1, FetchGoes, Zenon
    <3>3. QED BY <3>2 DEF GoesFrom
  <2>3. DownloadTypeOK' BY <1>1, <2>2 DEF ProgressInv, DownloadTypeOK
  <2>4. LastPass'
    BY <1>1, <2>2 DEF ProgressInv, LastPass, Choosing, At, Exited, Watched
  <2>5. QED BY <1>2, <2>3, <2>4 DEF ProgressInv
<1>8. QED BY <1>4, <1>5, <1>6, <1>7 DEF Wait

\* The child: it exits well only after whole lines.
LEMMA ChildKeeps == ProgressInv /\ (Write \/ Exit) => ProgressInv'
<1>1. ASSUME ProgressInv, Write PROVE ProgressInv'
  <2>1. /\ child = "running" /\ there
        /\ UNCHANGED <<antd, ant, knows, changes, fetch, child, there, tailer>>
    BY <1>1 DEF Write, machine
  <2>2. file' \in Seq(Half) /\ Alternate(file)' /\ FeedIsRead'
    BY <1>1, WriteReads DEF ProgressInv, DownloadTypeOK
  <2>3. DownloadTypeOK' BY <1>1, <2>1, <2>2 DEF ProgressInv, DownloadTypeOK
  <2>4. LastPass' BY <1>1, <2>1 DEF ProgressInv, LastPass, Choosing, At, Exited, Watched
  <2>5. QED BY <2>2, <2>3, <2>4 DEF ProgressInv
<1>2. ASSUME ProgressInv, Exit PROVE ProgressInv'
  <2>1. child = "running" /\ UNCHANGED <<antd, ant, knows, changes, fetch, file, tailer>>
    BY <1>2 DEF Exit, machine
  <2>2. \/ child' = "exit_0" /\ there' = there /\ (there => Len(file) % 2 = 0)
        \/ child' = "exit_1" /\ there' \in {there, FALSE}
    BY <1>2 DEF Exit
  <2>3. DownloadTypeOK' BY <1>2, <2>1, <2>2 DEF ProgressInv, DownloadTypeOK
  <2>4. Alternate(file)' /\ FeedIsRead' BY <1>2, <2>1, FeedKept DEF ProgressInv
  <2>5. LastPass'
    BY <1>2, <2>1, <2>2 DEF ProgressInv, LastPass, Choosing, At, Exited, Watched
  <2>6. QED BY <2>3, <2>4, <2>5 DEF ProgressInv
<1>3. QED BY <1>1, <1>2

\* What others do to the machine.
LEMMA MachineReads == ProgressInv /\ (Change \/ InstallFromPage) => ProgressInv'
<1> SUFFICES ASSUME ProgressInv, Change \/ InstallFromPage PROVE ProgressInv'
  OBVIOUS
<1>0. /\ fetch \in FetchState /\ ant \in AntAt /\ antd \in BOOLEAN /\ changes \in 0 .. MaxChanges
      /\ knows \in BOOLEAN
  BY DEF ProgressInv, DownloadTypeOK
<1>1. UNCHANGED <<child, file, there, tailer>> BY DEF Change, InstallFromPage
<1>2. changes' \in 0 .. MaxChanges BY <1>0, BoundsAssumption DEF Change, InstallFromPage
<1>3. antd' \in BOOLEAN /\ knows' \in BOOLEAN BY <1>0 DEF Change, InstallFromPage
<1>4. ant' \in AntAt BY <1>0 DEF Change, InstallFromPage, AntAt, Landed
<1>5. /\ fetch' \in FetchState /\ fetch'.at = fetch.at /\ fetch'.caller = fetch.caller
      /\ fetch'.last = fetch.last
  <2>1. CASE Change
    <3> DEFINE h == fetch.held /\ ant' \in {"path", "home"}
    <3>1. fetch' = [fetch EXCEPT !.held = h] BY <2>1 DEF Change
    <3>2. h \in BOOLEAN OBVIOUS
    <3> HIDE DEF h
    <3>3. QED BY <1>0, <3>1, <3>2 DEF FetchState
  <2>2. CASE InstallFromPage BY <1>0, <2>2 DEF InstallFromPage
  <2>3. QED BY <2>1, <2>2
<1>6. DownloadTypeOK' BY <1>1, <1>2, <1>3, <1>4, <1>5 DEF ProgressInv, DownloadTypeOK
<1>7. Alternate(file)' /\ FeedIsRead' BY <1>1, FeedKept DEF ProgressInv
<1>8. LastPass' BY <1>1, <1>5 DEF ProgressInv, LastPass, Choosing, At, Exited, Watched
<1>9. QED BY <1>6, <1>7, <1>8 DEF ProgressInv

\* A thread that has no feed to follow, on any machine.
Fresh ==
    /\ Unfed
    /\ fetch \in FetchState /\ ~fetch.last /\ fetch.at \in {"idle", "ok"}
    /\ antd \in BOOLEAN /\ knows \in BOOLEAN /\ ant \in AntAt /\ changes \in 0 .. MaxChanges

\* It has told of all there is.
LEMMA FreshReads == Fresh => ProgressInv
<1> SUFFICES ASSUME Fresh PROVE ProgressInv
  OBVIOUS
<1>1. tailer \in TailerState
  <2>1. << >> \in Seq(Half) /\ << >> \in Seq(Report) OBVIOUS
  <2>2. \A p \in Seq(Half), q \in Seq(Report) :
          [offset |-> 0, pending |-> p, done |-> {}, failed |-> {}, log |-> q] \in TailerState
    BY DEF TailerState
  <2>3. [offset |-> 0, pending |-> << >>, done |-> {}, failed |-> {}, log |-> << >>] \in TailerState
    BY <2>1, <2>2
  <2>4. QED BY <2>3, Zenon DEF Fresh, Unfed
<1>2. DownloadTypeOK
  <2>1. child = "none" /\ file \in Seq(Half) /\ there = FALSE BY DEF Fresh, Unfed
  <2>2. QED BY <1>1, <2>1 DEF DownloadTypeOK, Fresh
<1>3. LastPass BY DEF Fresh, Unfed, LastPass, Choosing, At, Exited, Watched
<1>4. QED BY <1>2, <1>3, FeedInit DEF ProgressInv, Fresh

\* The invariant holds at first.
LEMMA ProgressInit == Init => ProgressInv
<1> SUFFICES ASSUME Init PROVE ProgressInv
  OBVIOUS
<1>1. PICK caller \in Callers :
        fetch = [at |-> "idle", caller |-> caller, last |-> FALSE, len |-> 0, held |-> FALSE]
  <2>1. fetch \in [at : {"idle"}, caller : Callers, last : {FALSE}, len : {0}, held : {FALSE}]
    BY DEF Init
  <2>2. QED BY <2>1
<1>2. caller \in CallerKinds BY CallersAssumption
<1>3. fetch \in FetchState /\ ~fetch.last /\ fetch.at = "idle" BY <1>1, <1>2 DEF FetchState
<1>4. antd \in BOOLEAN /\ knows \in BOOLEAN /\ ant \in AntAt /\ changes \in 0 .. MaxChanges
  <2>1. antd \in BOOLEAN /\ ant \in Places /\ knows \in BOOLEAN /\ changes = MaxChanges BY DEF Init
  <2>2. ant \in AntAt BY <2>1, CallersAssumption
  <2>3. changes \in 0 .. MaxChanges BY <2>1, BoundsAssumption
  <2>4. QED BY <2>1, <2>2, <2>3
<1>5. Unfed BY DEF Init, Unfed
<1>6. Fresh BY <1>3, <1>4, <1>5 DEF Fresh
<1>7. QED BY <1>6, FreshReads

\* Every step keeps it.
LEMMA ProgressStep == ProgressInv /\ [Next]_vars => ProgressInv'
<1>1. ProgressInv /\ Early => ProgressInv' BY EarlyKeeps
<1>2. ProgressInv /\ UNCHANGED vars => ProgressInv'
  <2> SUFFICES ASSUME ProgressInv, UNCHANGED vars PROVE ProgressInv'
    OBVIOUS
  <2>1. UNCHANGED <<antd, ant, knows, changes, fetch, child, file, there, tailer>>
    BY DEF vars, machine
  <2>2. Alternate(file)' /\ FeedIsRead' BY <2>1, FeedKept DEF ProgressInv
  <2>3. DownloadTypeOK' /\ LastPass'
    BY <2>1 DEF ProgressInv, DownloadTypeOK, LastPass, Choosing, At, Exited, Watched
  <2>4. QED BY <2>2, <2>3 DEF ProgressInv
<1>3. QED
  BY <1>1, <1>2, SpawnReads, PollKeeps, ReturnKeeps, ChildKeeps, MachineReads
  DEF Next, Fetch, Early

\* The invariant says that the progress is true: after the last pass nothing is
\* pending, so the lines told are all the lines.
LEMMA InvTells == ProgressInv => ProgressIsTrue
<1> SUFFICES ASSUME ProgressInv PROVE ProgressIsTrue
  OBVIOUS
<1>0. file \in Seq(Half) /\ tailer \in TailerState BY DEF ProgressInv, DownloadTypeOK
<1>1. PICK m \in 0 .. Written : Follows(file, m, tailer) /\ Told(Feed, m, tailer)
  BY DEF ProgressInv, FeedIsRead
<1>2. \A n \in DOMAIN tailer.log : tailer.log[n].chunks = n /\ tailer.log[n] \in Reports(Feed)
  BY <1>1 DEF Told
<1>3. ASSUME At("ok_cli"), Watched
      PROVE  {tailer.log[n].index : n \in DOMAIN tailer.log} = FoundIn(Feed)
  <2>1. child = "exit_0" /\ Len(file) % 2 = 0 /\ tailer.offset = Len(file) /\ tailer.pending = << >>
    BY <1>3 DEF ProgressInv, LastPass
  <2>2. Len(file) = tailer.offset /\ 0 = tailer.offset - 2 * m /\ m \in Nat /\ Len(file) \in Nat
    <3>1. Len(tailer.pending) = tailer.offset - 2 * m BY <1>1 DEF Follows
    <3>2. Len(tailer.pending) = 0 BY <2>1
    <3>3. Written \in Nat BY <1>0, FeedIs, LinesOfType
    <3>4. QED BY <1>0, <1>1, <2>1, <3>1, <3>2, <3>3
  <2>3. m = Written
    <3>1. Len(file) = 2 * (Len(file) \div 2) /\ Len(file) \div 2 \in Nat BY <2>1, <2>2, Halves
    <3>2. Len(file) = 2 * Written /\ Written \in Nat BY <3>1, FeedIs
    <3>3. QED BY <2>2, <3>2
  <2>4. DOMAIN Feed = 1 .. m BY <2>3 DEF Feed
  <2>5. \A c \in Chunks : c \in FoundIn(Feed) <=> \E n \in DOMAIN tailer.log : tailer.log[n].index = c
    BY <1>1, <2>4 DEF FoundIn, Told, Found
  <2>6. tailer.log \in Seq(Report) BY <1>0 DEF TailerState
  <2>7. \A n \in DOMAIN tailer.log : tailer.log[n].index \in Chunks
    <3>1. \A n \in DOMAIN tailer.log : tailer.log[n] \in Report BY <2>6
    <3>2. QED BY <3>1 DEF Report
  <2>8. FoundIn(Feed) \subseteq Chunks BY DEF FoundIn
  <2>9. QED BY <2>5, <2>7, <2>8
<1>4. QED BY <1>2, <1>3 DEF ProgressIsTrue

(***************************************************************************)
(* Every variable of a download keeps its type, however the fetch, the     *)
(* child and the machine interleave.                                       *)
(***************************************************************************)
THEOREM DownloadsTypeCorrect == Spec => []DownloadTypeOK
<1>1. ProgressInv => DownloadTypeOK BY DEF ProgressInv
<1>2. QED BY <1>1, ProgressInit, ProgressStep, PTL DEF Spec

(***************************************************************************)
(* The tailer of download.rs tells what the diagnostics file says, for any *)
(* set of chunks, any feed, of any length, and wherever its writes and the *)
(* reads fall: each chunk once, counted in order, a retry as a retry, and, *)
(* when the ant CLI has succeeded, every chunk it found.                   *)
(***************************************************************************)
THEOREM ProgressIsTold == Spec => []ProgressIsTrue
<1>1. QED BY ProgressInit, ProgressStep, InvTells, PTL DEF Spec

-----------------------------------------------------------------------------
(* Lists (AvListing)                                                       *)

\* The least number of a set that is not empty: of the sets 0 .. n - 1 of its
\* numbers, which are finite, one contains no other.
LEMMA LeastOne ==
  ASSUME NEW T \in SUBSET Nat, T # {}
  PROVE  \E x \in T : \A y \in T : x <= y
  <1> DEFINE below == {0 .. x - 1 : x \in T}
  <1>1. below \subseteq FiniteSubsetsOf(Nat) /\ below # {}
    <2>1. ASSUME NEW x \in T PROVE 0 .. x - 1 \in FiniteSubsetsOf(Nat)
      BY FS_Interval DEF FiniteSubsetsOf
    <2>2. QED BY <2>1
  <1>2. PICK b \in below : \A c \in below : ~(<<c, b>> \in StrictSubsetOrdering(Nat))
    BY <1>1, WFMin, FS_StrictSubsetOrderingWellFounded
  <1>3. PICK x \in T : b = 0 .. x - 1
    OBVIOUS
  <1>4. ASSUME NEW y \in T, ~(x <= y) PROVE FALSE
    <2>1. /\ 0 .. y - 1 \in below /\ 0 .. y - 1 \subseteq b
          /\ b \in SUBSET Nat /\ 0 .. y - 1 \in SUBSET Nat
      BY <1>3, <1>4
    <2>2. y \in b /\ y \notin 0 .. y - 1
      BY <1>3, <1>4
    <2>3. QED BY <1>2, <2>1, <2>2 DEF StrictSubsetOrdering
  <1>5. QED BY <1>4

\* How many of the positions come before i, and i itself.
Rank(positions, i) == Cardinality({j \in positions : j <= i})

\* Each position has a rank of its own, which is one of 1 .. Cardinality(positions).
LEMMA RanksDiffer ==
  ASSUME NEW n \in Nat, NEW positions \in SUBSET (1 .. n)
  PROVE  /\ Cardinality(positions) \in Nat
         /\ \A i \in positions : Rank(positions, i) \in 1 .. Cardinality(positions)
         /\ \A i, k \in positions : Rank(positions, i) = Rank(positions, k) => i = k
  <1> DEFINE upto(i) == {j \in positions : j <= i}
  <1>1. IsFiniteSet(positions) /\ Cardinality(positions) \in Nat
    <2>1. IsFiniteSet(1 .. n)
      BY FS_Interval
    <2>2. IsFiniteSet(positions)
      BY <2>1, FS_Subset
    <2>3. QED BY <2>2, FS_CardinalityType
  <1>2. ASSUME NEW i \in positions
        PROVE  /\ IsFiniteSet(upto(i)) /\ Cardinality(upto(i)) \in 1 .. Cardinality(positions)
    <2>1. upto(i) \in SUBSET positions /\ upto(i) # {}
      OBVIOUS
    <2>2. IsFiniteSet(upto(i)) /\ Cardinality(upto(i)) <= Cardinality(positions)
      BY <1>1, <2>1, FS_Subset
    <2>3. Cardinality(upto(i)) \in Nat /\ Cardinality(upto(i)) # 0
      BY <2>1, <2>2, FS_CardinalityType, FS_EmptySet
    <2>4. QED BY <1>1, <2>2, <2>3
  <1>3. ASSUME NEW i \in positions, NEW k \in positions, i < k
        PROVE  Cardinality(upto(i)) # Cardinality(upto(k))
    <2>1. /\ upto(i) \in SUBSET upto(k) /\ k \in upto(k) /\ k \notin upto(i)
      <3>1. i \in Nat /\ k \in Nat /\ \A j \in positions : j \in Nat
        OBVIOUS
      <3>2. i < k /\ k <= k /\ ~(k <= i)
        BY <1>3, <3>1
      <3>3. \A j \in positions : j <= i => j <= k
        BY <3>1, <3>2
      <3>4. QED BY <3>2, <3>3
    <2>2. QED BY <1>2, <2>1, FS_Subset
  <1>4. ASSUME NEW i \in positions, NEW k \in positions,
               Rank(positions, i) = Rank(positions, k)
        PROVE  i = k
    <2>1. i \in Nat /\ k \in Nat /\ ~(i < k) /\ ~(k < i)
      BY <1>3, <1>4 DEF Rank
    <2>2. QED BY <2>1
  <1>5. QED BY <1>1, <1>2, <1>4 DEF Rank

\* A function on 1 .. n is a list of n members.
LEMMA ListOf ==
  ASSUME NEW n \in Nat, NEW s, s = [i \in 1 .. n |-> s[i]]
  PROVE  IsList(s) /\ DOMAIN s = 1 .. n /\ Len(s) = n
  <1>1. DOMAIN s = 1 .. n
    OBVIOUS
  <1>2. \A i \in 1 .. n : s[i] \in Range(s)
    BY <1>1 DEF Range
  <1>3. s \in [1 .. n -> Range(s)]
    BY <1>2
  <1>4. s \in Seq(Range(s))
    BY <1>3
  <1>5. QED BY <1>1, <1>4 DEF IsList

\* The length of a list.
LEMMA ListHas ==
  ASSUME NEW s, IsList(s)
  PROVE  Len(s) \in Nat /\ DOMAIN s = 1 .. Len(s) /\ s = [i \in 1 .. Len(s) |-> s[i]]
  BY DEF IsList

\* What a filter keeps is a list, and each position it keeps is in it.
LEMMA InOrderKeeps ==
  ASSUME NEW s, NEW n \in Nat, NEW positions \in SUBSET (1 .. n)
  PROVE  /\ IsList(InOrder(s, positions))
         /\ Len(InOrder(s, positions)) = Cardinality(positions)
         /\ \A i \in positions :
               \E k \in DOMAIN InOrder(s, positions) : InOrder(s, positions)[k] = s[i]
  <1> DEFINE kept == InOrder(s, positions)
  <1>1. /\ Cardinality(positions) \in Nat
        /\ kept = [k \in 1 .. Cardinality(positions) |-> kept[k]]
    <2> DEFINE size == Cardinality(positions)
               Member(k) == s[CHOOSE i \in positions : Cardinality({j \in positions : j <= i}) = k]
    <2>1. kept = [k \in 1 .. size |-> Member(k)]
      BY DEF InOrder
    <2> HIDE DEF size, Member, kept
    <2>2. kept = [k \in 1 .. size |-> kept[k]]
      BY <2>1
    <2>3. QED BY <2>2, RanksDiffer DEF size
  <1>2. IsList(kept) /\ Len(kept) = Cardinality(positions)
        /\ DOMAIN kept = 1 .. Cardinality(positions)
    <2> HIDE DEF kept
    <2>1. QED BY <1>1, ListOf
  <1>3. ASSUME NEW i \in positions PROVE \E k \in DOMAIN kept : kept[k] = s[i]
    <2> DEFINE k == Rank(positions, i)
    <2>1. k \in 1 .. Cardinality(positions)
      BY RanksDiffer
    <2>2. (CHOOSE j \in positions : Rank(positions, j) = k) = i
      BY RanksDiffer
    <2>3. kept[k] = s[CHOOSE j \in positions : Rank(positions, j) = k]
      BY <2>1 DEF InOrder, Rank
    <2>4. QED BY <1>2, <2>1, <2>2, <2>3
  <1>4. QED BY <1>2, <1>3

\* What is kept of a list, in whatever order it was found.
LEMMA FilterIsList ==
  ASSUME NEW s, NEW t, IsList(t), NEW positions \in SUBSET DOMAIN t
  PROVE  IsList(InOrder(s, positions))
  BY ListHas, InOrderKeeps

\* The first member of a list with the title of another is in the lines of it.
LEMMA FirstOfTitle ==
  ASSUME NEW items, IsList(items), NEW i \in DOMAIN items
  PROVE  \E k \in DOMAIN Distinct(items, TitleOf) :
            \E j \in DOMAIN items : /\ Distinct(items, TitleOf)[k] = items[j]
                                    /\ items[j].title = items[i].title
  <1> DEFINE same == {j \in DOMAIN items : items[j].title = items[i].title}
             firsts == {j \in DOMAIN items :
                           \A l \in 1 .. j - 1 : items[l].title # items[j].title}
  <1>1. Len(items) \in Nat /\ DOMAIN items = 1 .. Len(items)
    BY ListHas
  <1>2. same \in SUBSET Nat /\ i \in same
    BY <1>1
  <1>3. PICK j \in same : \A l \in same : j <= l
    BY <1>2, LeastOne
  <1>4. j \in firsts
    BY <1>1, <1>3
  <1>5. Distinct(items, TitleOf) = InOrder(items, firsts)
    BY DEF Distinct, TitleOf
  <1>6. firsts \in SUBSET (1 .. Len(items))
    BY <1>1
  <1>7. PICK k \in DOMAIN InOrder(items, firsts) : InOrder(items, firsts)[k] = items[j]
    BY <1>1, <1>4, <1>6, InOrderKeeps
  <1>8. QED BY <1>3, <1>5, <1>7

\* A filter keeps each member that it is to keep.
LEMMA FilterHas ==
  ASSUME NEW s, IsList(s), NEW positions \in SUBSET DOMAIN s, NEW i \in positions
  PROVE  \E k \in DOMAIN InOrder(s, positions) : InOrder(s, positions)[k] = s[i]
  <1>1. Len(s) \in Nat /\ positions \in SUBSET (1 .. Len(s))
    BY ListHas
  <1>2. QED BY <1>1, InOrderKeeps

\* A list without its repetitions, and what a filter keeps of it, are lists.
LEMMA FirstsAreList ==
  ASSUME NEW items, IsList(items)
  PROVE  LET firsts == Distinct(items, TitleOf)
         IN IsList(firsts) /\ IsList(Filter(firsts, LAMBDA f : f.title # None))
  <1> DEFINE firsts == Distinct(items, TitleOf)
  <1>1. IsList(firsts)
    <2> DEFINE positions == {i \in DOMAIN items :
                                \A j \in 1 .. i - 1 : TitleOf(items[j]) # TitleOf(items[i])}
    <2>1. positions \in SUBSET DOMAIN items
      OBVIOUS
    <2>2. firsts = InOrder(items, positions)
      BY DEF Distinct
    <2>3. QED BY <2>1, <2>2, FilterIsList
  <1> HIDE DEF firsts
  <1>2. IsList(InOrder(firsts, {i \in DOMAIN firsts : firsts[i].title # None}))
    BY <1>1, FilterIsList
  <1>3. QED BY <1>1, <1>2 DEF Filter, firsts

\* compact_items leaves no film and no episode out that has a title, but where they
\* share one.
LEMMA CompactListsAll ==
  ASSUME NEW items, IsList(items), NEW i \in DOMAIN items, items[i].title # None
  PROVE  \E k \in DOMAIN CompactItems(items) :
            /\ CompactItems(items)[k].title = items[i].title
            /\ \/ items[i].season = 0
               \/ <<items[i].season, items[i].episode>> \in CompactItems(items)[k].episodes
               \/ \E j \in DOMAIN items :
                     items[j].title = items[i].title /\ items[j].season = 0
  <1> DEFINE firsts == Distinct(items, TitleOf)
             titled == Filter(firsts, LAMBDA f : f.title # None)
             positions == {p \in DOMAIN firsts : firsts[p].title # None}
  <1>1. PICK p \in DOMAIN firsts, j \in DOMAIN items :
               firsts[p] = items[j] /\ items[j].title = items[i].title
    BY FirstOfTitle
  <1>2. IsList(firsts) /\ titled = InOrder(firsts, positions)
    BY FirstsAreList DEF Filter
  <1>3. PICK k \in DOMAIN titled : titled[k] = items[j]
    <2>1. positions \in SUBSET DOMAIN firsts /\ p \in positions
      BY <1>1
    <2> HIDE DEF firsts, titled, positions
    <2>2. QED BY <1>1, <1>2, <2>1, FilterHas
  <1>4. k \in DOMAIN CompactItems(items)
    BY DEF CompactItems
  <1>5. /\ CompactItems(items)[k].title = items[j].title
        /\ CompactItems(items)[k].episodes =
              IF items[j].season = 0 THEN {} ELSE EpisodesOf(items, items[j])
    BY <1>3 DEF CompactItems
  <1>6. items[i].season # 0 => <<items[i].season, items[i].episode>> \in EpisodesOf(items, items[j])
    BY <1>1 DEF EpisodesOf
  <1>7. QED BY <1>1, <1>4, <1>5, <1>6

\* The lines are a list.
LEMMA CompactIsList ==
  ASSUME NEW items, IsList(items) PROVE IsList(CompactItems(items))
  <1> DEFINE titled == Filter(Distinct(items, TitleOf), LAMBDA f : f.title # None)
  <1>1. IsList(titled)
    BY FirstsAreList
  <1>2. Len(titled) \in Nat /\ DOMAIN titled = 1 .. Len(titled)
    BY <1>1, ListHas
  <1>3. CompactItems(items) = [i \in 1 .. Len(titled) |-> CompactItems(items)[i]]
    BY <1>2 DEF CompactItems
  <1>4. QED BY <1>2, <1>3, ListOf

\* The members that are media, and what they hold, are a list.
LEMMA ItemsAreList ==
  ASSUME NEW b, IsList(b.members), b.list = None \/ IsList(b.list)
  PROVE  IsList(Items(b))
  <1>1. ASSUME NEW s, IsList(s) PROVE IsList(Distinct(s, Itself))
    BY <1>1, FilterIsList DEF Distinct, Itself
  <1>2. b.list # None => IsList(ItemsFromList(b.list, b.members))
    <2> DEFINE Named(l) == \E i \in DOMAIN b.members :
                              b.members[i].datamap /\ b.members[i].media = l
               named == InOrder(b.list, {i \in DOMAIN b.list : Named(b.list[i])})
    <2>1. ItemsFromList(b.list, b.members) = Distinct(named, Itself)
      BY DEF ItemsFromList, Filter
    <2>2. b.list # None => IsList(named)
      BY FilterIsList
    <2>3. QED BY <1>1, <2>1, <2>2
  <1>3. IsList(ItemsFromMembers(b.members))
    <2> DEFINE members == b.members
               maps == InOrder(members, {i \in DOMAIN members : members[i].datamap})
               inside == InOrder(maps, {i \in DOMAIN maps : maps[i].inside})
               beside == InOrder(maps, {i \in DOMAIN maps : ~maps[i].inside})
               all == inside \o beside
    <2>1. Datamaps(members) = maps
      BY DEF Datamaps, Filter
    <2>2. IsList(maps)
      BY FilterIsList
    <2> HIDE DEF maps
    <2>3. IsList(inside) /\ IsList(beside)
      BY <2>2, FilterIsList
    <2>4. ItemsFromMembers(members) = Distinct(Media(all), Itself)
      BY <2>1 DEF ItemsFromMembers, Filter
    <2> HIDE DEF inside, beside
    <2>5. Len(all) \in Nat /\ DOMAIN all = 1 .. Len(all)
      <3>1. inside \in Seq(Range(inside) \cup Range(beside))
        BY <2>3 DEF IsList
      <3>2. beside \in Seq(Range(inside) \cup Range(beside))
        BY <2>3 DEF IsList
      <3>3. QED BY <3>1, <3>2
    <2> HIDE DEF all
    <2>6. Media(all) = [i \in 1 .. Len(all) |-> Media(all)[i]]
      BY <2>5 DEF Media
    <2>7. IsList(Media(all))
      BY <2>5, <2>6, ListOf
    <2>8. QED BY <1>1, <2>4, <2>7
  <1>4. QED BY <1>2, <1>3 DEF Items

\* How many items of a list are in the window, and how many the tail counts: if
\* all do not fit, there is a first that does not, and those before it leave room
\* for the tail.
LEMMA FillCounts ==
  ASSUME NEW head, NEW chars, Len(chars) \in Nat
  PROVE  LET fill == FillIntoWindow(head, chars)
         IN /\ fill.placed \in 0 .. Len(chars)
            /\ fill.placed + fill.more = Len(chars)
            /\ fill.cut => fill.placed = 0
  <1> DEFINE n == Len(chars)
             Room(k) == TailMarker(n - k, n).chars
             Fits(k) == Upto(head, chars, k) + Room(k) <= EmbedWindowChars
             IsLast(k) == (\A j \in 1 .. k : Fits(j)) /\ ~Fits(k + 1)
             placed == IF n = 0 \/ Fits(n) THEN n ELSE CHOOSE k \in 0 .. n - 1 : IsLast(k)
             cut == IsCut(IF n = 0 THEN head ELSE Upto(head, chars, placed) + Room(placed))
  <1>1. /\ FillIntoWindow(head, chars).placed = placed
        /\ FillIntoWindow(head, chars).more = n - placed
        /\ FillIntoWindow(head, chars).cut = cut
    <2> DEFINE fill == [placed |-> placed, more |-> TailMarker(n - placed, n).more, cut |-> cut]
    <2>1. FillIntoWindow(head, chars) = fill
      BY DEF FillIntoWindow
    <2>2. TailMarker(n - placed, n).more = n - placed
      BY DEF TailMarker
    <2> HIDE DEF n, placed, cut
    <2>3. QED BY <2>1, <2>2
  <1>2. n \in Nat
    OBVIOUS
  <1>3. n # 0 /\ cut => ~Fits(placed)
    BY DEF IsCut
  <1> HIDE DEF n, Room, Fits, cut
  <1>4. ASSUME n # 0, ~Fits(n) PROVE \E k \in 0 .. n - 1 : IsLast(k)
    <2> DEFINE over == {j \in 1 .. n : ~Fits(j)}
    <2>1. over \in SUBSET Nat /\ n \in over
      BY <1>2, <1>4
    <2>2. PICK f \in over : \A j \in over : f <= j
      BY <2>1, LeastOne
    <2>3. f - 1 \in 0 .. n - 1 /\ (f - 1) + 1 = f
      BY <1>2
    <2>4. \A j \in 1 .. f - 1 : Fits(j)
      BY <1>2, <2>2
    <2>5. IsLast(f - 1)
      BY <2>3, <2>4
    <2>6. QED BY <2>3, <2>5
  <1>5. placed \in 0 .. n /\ (n # 0 /\ placed # 0 => Fits(placed))
    <2>1. CASE n = 0 \/ Fits(n)
      BY <1>2, <2>1
    <2>2. CASE n # 0 /\ ~Fits(n)
      <3> DEFINE last == CHOOSE k \in 0 .. n - 1 : IsLast(k)
      <3>1. last \in 0 .. n - 1 /\ IsLast(last)
        BY <1>4, <2>2
      <3>2. placed = last
        BY <2>2
      <3> HIDE DEF last, placed
      <3>3. last # 0 => last \in 1 .. last
        BY <1>2, <3>1
      <3>4. QED BY <1>2, <3>1, <3>2, <3>3
    <2>3. QED BY <2>1, <2>2
  <1> HIDE DEF placed
  <1>6. placed + (n - placed) = n
    BY <1>2, <1>5
  <1>7. cut => placed = 0
    BY <1>2, <1>3, <1>5
  <1>8. QED BY <1>1, <1>5, <1>6, <1>7 DEF n

\* The window of a list of lines, which are told as they are.
LEMMA ListedIsHonest ==
  ASSUME NEW head, NEW count, NEW lines, IsList(lines)
  PROVE  /\ WindowIsHonest(Listed(head, count, lines))
         /\ Listed(head, count, lines).lines = lines
         /\ Listed(head, count, lines).count = count
  <1> DEFINE chars == [i \in DOMAIN lines |-> lines[i].chars]
  <1>1. Len(lines) \in Nat /\ chars = [i \in 1 .. Len(lines) |-> chars[i]]
    BY ListHas
  <1>2. Len(chars) = Len(lines)
    <2> HIDE DEF chars
    <2>1. QED BY <1>1, ListOf
  <1>3. /\ Listed(head, count, lines).placed = FillIntoWindow(head, chars).placed
        /\ Listed(head, count, lines).more = FillIntoWindow(head, chars).more
        /\ Listed(head, count, lines).cut = FillIntoWindow(head, chars).cut
        /\ Listed(head, count, lines).lines = lines
        /\ Listed(head, count, lines).count = count
    BY DEF Listed
  <1> HIDE DEF chars
  <1>4. QED BY <1>1, <1>2, <1>3, FillCounts DEF WindowIsHonest

\* No list at all.
LEMMA EmptyIsList == IsList(<< >>) /\ Len(<< >>) = 0
  BY DEF IsList

\* What a row keeps of a manifest that is accounted for in full: a line for each
\* path, unless it knows that it keeps a part of them.
LEMMA PathsAreKept ==
  ASSUME NEW m, Accounted(m) => IsList(Entries(m))
  PROVE  LET meta == ExtractManifest(m)
         IN /\ IsList(ManifestPaths(meta))
            /\ Accounted(m) => meta.count = Len(Entries(m))
            /\ ~Accounted(m) => ~StoredIncomplete(meta) /\ ManifestPaths(meta) = << >>
            /\ Accounted(m) /\ ~StoredIncomplete(meta) =>
                  Len(ManifestPaths(meta)) =
                     Cardinality({i \in DOMAIN Entries(m) : Text(Entries(m)[i], "path") # 0})
  <1> DEFINE meta == ExtractManifest(m)
             pathed == {i \in DOMAIN meta.items : meta.items[i].chars # 0}
  <1>1. ManifestPaths(meta) = InOrder(meta.items, pathed)
    BY DEF ManifestPaths, Filter
  <1>2. CASE ~Accounted(m)
    <2>1. meta.count = 0 /\ meta.items = << >>
      BY <1>2 DEF ExtractManifest, NothingStored
    <2> HIDE DEF meta
    <2>2. pathed = {}
      BY <2>1
    <2>3. IsList(ManifestPaths(meta)) /\ Len(ManifestPaths(meta)) = 0
      BY <1>1, <2>1, <2>2, InOrderKeeps, FS_EmptySet
    <2>4. ManifestPaths(meta) = << >>
      BY <2>3 DEF IsList
    <2>5. ~StoredIncomplete(meta)
      BY <2>1, EmptyIsList DEF StoredIncomplete
    <2>6. QED BY <1>2, <2>3, <2>4, <2>5 DEF meta
  <1>3. CASE Accounted(m)
    <2> DEFINE n == Len(Entries(m))
               all == Paths(m)
               cap == IF MaxStoredManifestEntries < n THEN MaxStoredManifestEntries ELSE n
    <2>1. n \in Nat /\ DOMAIN Entries(m) = 1 .. n
      BY <1>3, ListHas
    <2>2. all = [i \in 1 .. n |-> [chars |-> Text(Entries(m)[i], "path")]]
      BY <2>1 DEF Paths
    <2>3. IsList(all) /\ Len(all) = n /\ DOMAIN all = 1 .. n
      <3>1. all = [i \in 1 .. n |-> all[i]]
        BY <2>2
      <3> HIDE DEF all, n
      <3>2. QED BY <2>1, <3>1, ListOf
    <2>4. meta.count = n /\ meta.items = SubSeq(all, 1, cap)
      BY <1>3, <2>3 DEF ExtractManifest, Take
    <2>5. cap \in Nat /\ cap <= n
      BY <2>1, ListingAssumption
    <2> HIDE DEF n, all, cap, meta
    <2>6. /\ meta.items = [i \in 1 .. cap |-> meta.items[i]]
          /\ \A i \in 1 .. cap : meta.items[i] = all[i]
      BY <2>3, <2>4, <2>5 DEF IsList
    <2>7. IsList(meta.items) /\ Len(meta.items) = cap /\ DOMAIN meta.items = 1 .. cap
      BY <2>5, <2>6, ListOf
    <2>8. /\ IsList(ManifestPaths(meta))
          /\ Len(ManifestPaths(meta)) = Cardinality(pathed)
      <3>1. pathed \in SUBSET (1 .. cap)
        BY <2>7
      <3> HIDE DEF pathed
      <3>2. QED BY <1>1, <2>5, <3>1, InOrderKeeps
    <2>9. ASSUME ~StoredIncomplete(meta)
          PROVE  pathed = {i \in DOMAIN Entries(m) : Text(Entries(m)[i], "path") # 0}
      <3>1. cap = n
        BY <2>1, <2>4, <2>5, <2>7, <2>9 DEF StoredIncomplete
      <3>2. \A i \in 1 .. n : meta.items[i].chars = Text(Entries(m)[i], "path")
        BY <2>2, <2>6, <3>1
      <3>3. QED BY <2>1, <2>7, <3>1, <3>2
    <2>10. QED BY <1>3, <2>4, <2>8, <2>9 DEF n, meta
  <1>4. QED BY <1>2, <1>3

\* A list without its repetitions has every member of it.
LEMMA FirstOfItself ==
  ASSUME NEW s, IsList(s), NEW i \in DOMAIN s
  PROVE  \E k \in DOMAIN Distinct(s, Itself) : Distinct(s, Itself)[k] = s[i]
  <1> DEFINE same == {j \in DOMAIN s : s[j] = s[i]}
             firsts == {j \in DOMAIN s : \A l \in 1 .. j - 1 : s[l] # s[j]}
  <1>1. Len(s) \in Nat /\ DOMAIN s = 1 .. Len(s)
    BY ListHas
  <1>2. same \in SUBSET Nat /\ i \in same
    BY <1>1
  <1>3. PICK j \in same : \A l \in same : j <= l
    BY <1>2, LeastOne
  <1>4. j \in firsts
    BY <1>1, <1>3
  <1>5. Distinct(s, Itself) = InOrder(s, firsts)
    BY DEF Distinct, Itself
  <1>6. firsts \in SUBSET (1 .. Len(s))
    BY <1>1
  <1>7. PICK k \in DOMAIN InOrder(s, firsts) : InOrder(s, firsts)[k] = s[j]
    BY <1>1, <1>4, <1>6, InOrderKeeps
  <1>8. QED BY <1>3, <1>5, <1>7

\* A file of a bundle that no list leaves out is an item of it.
LEMMA MembersAreItems ==
  ASSUME NEW b, IsList(b.members), b.list = None,
         NEW i \in DOMAIN b.members, b.members[i].datamap
  PROVE  \E k \in DOMAIN Items(b) : Items(b)[k] = b.members[i].media
  <1> DEFINE members == b.members
             maps == InOrder(members, {j \in DOMAIN members : members[j].datamap})
             inside == InOrder(maps, {j \in DOMAIN maps : maps[j].inside})
             beside == InOrder(maps, {j \in DOMAIN maps : ~maps[j].inside})
             all == inside \o beside
  <1>1. Items(b) = ItemsFromMembers(members)
    BY DEF Items
  <1>2. ItemsFromMembers(members) = Distinct(Media(all), Itself)
    <2>1. Datamaps(members) = maps
      BY DEF Datamaps, Filter
    <2> HIDE DEF maps
    <2>2. QED BY <2>1 DEF ItemsFromMembers, Filter
  <1>3. PICK m \in DOMAIN maps : maps[m] = members[i]
    <2> DEFINE positions == {j \in DOMAIN members : members[j].datamap}
    <2>1. positions \in SUBSET DOMAIN members /\ i \in positions
      OBVIOUS
    <2> HIDE DEF positions
    <2>2. QED BY <2>1, FilterHas DEF positions
  <1>4. IsList(maps)
    BY FilterIsList
  <1> HIDE DEF maps
  <1>5. IsList(inside) /\ IsList(beside)
    BY <1>4, FilterIsList
  <1>6. \/ \E k \in DOMAIN inside : inside[k] = maps[m]
        \/ \E k \in DOMAIN beside : beside[k] = maps[m]
    <2> DEFINE ins == {j \in DOMAIN maps : maps[j].inside}
               bes == {j \in DOMAIN maps : ~maps[j].inside}
    <2>1. /\ ins \in SUBSET DOMAIN maps /\ bes \in SUBSET DOMAIN maps
          /\ m \in ins \/ m \in bes
      OBVIOUS
    <2> HIDE DEF ins, bes
    <2>2. QED BY <1>4, <2>1, FilterHas DEF ins, bes
  <1> HIDE DEF inside, beside
  <1>7. /\ inside \in Seq(Range(inside) \cup Range(beside))
        /\ beside \in Seq(Range(inside) \cup Range(beside))
    BY <1>5 DEF IsList
  <1>8. /\ Len(all) \in Nat /\ DOMAIN all = 1 .. Len(all)
        /\ Len(inside) \in Nat /\ Len(beside) \in Nat /\ Len(all) = Len(inside) + Len(beside)
    BY <1>7
  <1>9. PICK k \in DOMAIN all : all[k] = maps[m]
    <2>1. ASSUME NEW k \in DOMAIN inside, inside[k] = maps[m]
          PROVE  \E n \in DOMAIN all : all[n] = maps[m]
      <3>1. k \in 1 .. Len(inside)
        BY <1>5, ListHas
      <3>2. k \in DOMAIN all /\ all[k] = inside[k]
        BY <1>7, <1>8, <3>1
      <3>3. QED BY <2>1, <3>2
    <2>2. ASSUME NEW k \in DOMAIN beside, beside[k] = maps[m]
          PROVE  \E n \in DOMAIN all : all[n] = maps[m]
      <3>1. k \in 1 .. Len(beside)
        BY <1>5, ListHas
      <3>2. Len(inside) + k \in DOMAIN all /\ all[Len(inside) + k] = beside[k]
        BY <1>7, <1>8, <3>1
      <3>3. QED BY <2>2, <3>2
    <2>3. QED BY <1>6, <2>1, <2>2
  <1> HIDE DEF all
  <1>10. /\ Media(all) = [n \in 1 .. Len(all) |-> Media(all)[n]]
         /\ Media(all)[k] = all[k].media
    BY <1>8 DEF Media
  <1>11. IsList(Media(all)) /\ DOMAIN Media(all) = 1 .. Len(all)
    BY <1>8, <1>10, ListOf
  <1>12. \E n \in DOMAIN Distinct(Media(all), Itself) :
            Distinct(Media(all), Itself)[n] = Media(all)[k]
    BY <1>8, <1>11, FirstOfItself
  <1>13. QED BY <1>1, <1>2, <1>3, <1>9, <1>10, <1>12

\* So is one that the list of the bundle names.
LEMMA NamedAreItems ==
  ASSUME NEW b, b.list # None, IsList(b.list),
         NEW i \in DOMAIN b.members, b.members[i].datamap,
         NEW l \in DOMAIN b.list, b.list[l] = b.members[i].media
  PROVE  \E k \in DOMAIN Items(b) : Items(b)[k] = b.members[i].media
  <1> DEFINE list == b.list
             Named(line) == \E j \in DOMAIN b.members :
                               b.members[j].datamap /\ b.members[j].media = line
             positions == {j \in DOMAIN list : Named(list[j])}
             named == InOrder(list, positions)
  <1>1. ItemsFromList(list, b.members) = Distinct(named, Itself)
    BY DEF ItemsFromList, Filter
  <1>2. positions \in SUBSET DOMAIN list /\ l \in positions
    OBVIOUS
  <1>3. IsList(named) /\ \E k \in DOMAIN named : named[k] = list[l]
    <2> HIDE DEF positions
    <2>1. QED BY <1>2, FilterIsList, FilterHas
  <1> HIDE DEF named
  <1>4. PICK k \in DOMAIN Distinct(named, Itself) : Distinct(named, Itself)[k] = list[l]
    BY <1>3, FirstOfItself
  <1>5. Distinct(named, Itself) # << >>
    BY <1>4
  <1>6. Items(b) = Distinct(named, Itself)
    BY <1>1, <1>5 DEF Items
  <1>7. QED BY <1>4, <1>6

(***************************************************************************)
(* Every media file of a bundle whose name has a stem is in the lines that *)
(* describe it, unless the bundle's own list leaves it out                 *)
(* (items_from_members, items_from_list_txt, compact_items): for any       *)
(* archive, whatever repeats in it, its title has a line, which names the  *)
(* episode, unless a film shares the title of the series: then the line    *)
(* may be the film's, and the episode is not told.                         *)
(***************************************************************************)
THEOREM EveryMediaIsListed ==
  ASSUME NEW b, IsList(b.members), b.list = None \/ IsList(b.list),
         NEW i \in DOMAIN b.members, b.members[i].datamap,
         b.list = None \/ \E l \in DOMAIN b.list : b.list[l] = b.members[i].media,
         b.members[i].media.title # None
  PROVE  LET media == b.members[i].media
         IN \E k \in DOMAIN CompactItems(Items(b)) :
               /\ CompactItems(Items(b))[k].title = media.title
               /\ \/ media.season = 0
                  \/ <<media.season, media.episode>> \in CompactItems(Items(b))[k].episodes
                  \/ \E j \in DOMAIN Items(b) :
                        Items(b)[j].title = media.title /\ Items(b)[j].season = 0
  <1>1. PICK n \in DOMAIN Items(b) : Items(b)[n] = b.members[i].media
    BY MembersAreItems, NamedAreItems
  <1>2. IsList(Items(b))
    BY ItemsAreList
  <1> DEFINE items == Items(b)
             lines == CompactItems(items)
  <1> HIDE DEF items
  <1>3. \E k \in DOMAIN lines :
            /\ lines[k].title = items[n].title
            /\ \/ items[n].season = 0
               \/ <<items[n].season, items[n].episode>> \in lines[k].episodes
               \/ \E j \in DOMAIN items : items[j].title = items[n].title /\ items[j].season = 0
    BY <1>1, <1>2, CompactListsAll DEF items
  <1>4. QED BY <1>1, <1>3 DEF items

-----------------------------------------------------------------------------
(* Types and names (AvIngest)                                              *)

\* The two tables of types agree, and one of them has two extensions more.
LEMMA TablesAgree ==
  ASSUME NEW ext \in DOMAIN HintedTypes
  PROVE  IF ext \in DOMAIN NamedTypes THEN HintedTypes[ext] = NamedTypes[ext]
         ELSE ext \in {"jpeg", "htm"}
  <1>1. /\ HintedTypes.jpg = NamedTypes.jpg
       /\ HintedTypes.png = NamedTypes.png
       /\ HintedTypes.gif = NamedTypes.gif
       /\ HintedTypes.webp = NamedTypes.webp
       /\ HintedTypes.avif = NamedTypes.avif
    BY DEF HintedTypes, NamedTypes
  <1>2. /\ HintedTypes.bmp = NamedTypes.bmp
       /\ HintedTypes.ico = NamedTypes.ico
       /\ HintedTypes.pdf = NamedTypes.pdf
       /\ HintedTypes.mp3 = NamedTypes.mp3
       /\ HintedTypes.m4a = NamedTypes.m4a
    BY DEF HintedTypes, NamedTypes
  <1>3. /\ HintedTypes.aac = NamedTypes.aac
       /\ HintedTypes.wav = NamedTypes.wav
       /\ HintedTypes.ogg = NamedTypes.ogg
       /\ HintedTypes.flac = NamedTypes.flac
       /\ HintedTypes.mp4 = NamedTypes.mp4
    BY DEF HintedTypes, NamedTypes
  <1>4. /\ HintedTypes.webm = NamedTypes.webm
       /\ HintedTypes.mov = NamedTypes.mov
       /\ HintedTypes.txt = NamedTypes.txt
       /\ HintedTypes.md = NamedTypes.md
       /\ HintedTypes.csv = NamedTypes.csv
    BY DEF HintedTypes, NamedTypes
  <1>5. /\ HintedTypes.json = NamedTypes.json
       /\ HintedTypes.zip = NamedTypes.zip
       /\ HintedTypes.html = NamedTypes.html
       /\ HintedTypes.xhtml = NamedTypes.xhtml
       /\ HintedTypes.svg = NamedTypes.svg
    BY DEF HintedTypes, NamedTypes
  <1>6. ext \in DOMAIN NamedTypes =>
            ext \in {"jpg", "png", "gif", "webp", "avif", "bmp", "ico", "pdf", "mp3",
                     "m4a", "aac", "wav", "ogg", "flac", "mp4", "webm", "mov", "txt", "md",
                     "csv", "json", "zip", "html", "xhtml", "svg"}
    BY DEF HintedTypes, NamedTypes
  <1>7. ext \notin DOMAIN NamedTypes => ext \in {"jpeg", "htm"}
    BY DEF HintedTypes, NamedTypes
  <1>8. QED BY <1>1, <1>2, <1>3, <1>4, <1>5, <1>6, <1>7

\* What the names of files can hint at, each of which has a name of its own.
LEMMA HintsAre ==
  ASSUME NEW ext \in DOMAIN HintedTypes
  PROVE  /\ HintedTypes[ext] \notin {AntManifest, WatchList, OctetStream, <<"text", "css">>}
         /\ \E e \in DOMAIN NamedTypes : NamedTypes[e] = HintedTypes[ext]
  <1>1. HintedTypes[ext] # AntManifest
    BY DEF HintedTypes, AntManifest, PlainText, Html, ZipArchive
  <1>2. HintedTypes[ext] # WatchList
    BY DEF HintedTypes, WatchList, PlainText, Html, ZipArchive
  <1>3. HintedTypes[ext] # OctetStream
    BY DEF HintedTypes, OctetStream, PlainText, Html, ZipArchive
  <1>4. HintedTypes[ext] # <<"text", "css">>
    BY DEF HintedTypes, PlainText, Html, ZipArchive
  <1>5. NamedTypes.jpg = HintedTypes.jpeg /\ NamedTypes.html = HintedTypes.htm
    BY DEF HintedTypes, NamedTypes
  <1>6. {"jpg", "html"} \subseteq DOMAIN NamedTypes
    BY DEF NamedTypes
  <1>7. \E e \in DOMAIN NamedTypes : NamedTypes[e] = HintedTypes[ext]
    BY <1>5, <1>6, TablesAgree
  <1>8. QED BY <1>1, <1>2, <1>3, <1>4, <1>7

\* The name that a type is given hints at that type, if a name can.
LEMMA NamesHintBack ==
  ASSUME NEW ext \in DOMAIN NamedTypes
  PROVE  /\ ext \notin Untrusted /\ Cleaned(ext) = ext
         /\ ext \in DOMAIN HintedTypes => HintedTypes[ext] = NamedTypes[ext]
         /\ ext \notin DOMAIN HintedTypes => NamedTypes[ext] \in {<<"text", "css">>, AntManifest}
  <1>1. ext \notin Untrusted
    BY DEF NamedTypes, Untrusted
  <1>2. ext # "watch-list"
    BY DEF NamedTypes
  <1>3. Cleaned(ext) = ext
    BY <1>2 DEF Cleaned
  <1>4. ext \in DOMAIN HintedTypes => HintedTypes[ext] = NamedTypes[ext]
    BY TablesAgree
  <1>5. ext \notin DOMAIN HintedTypes => NamedTypes[ext] \in {<<"text", "css">>, AntManifest}
    BY DEF HintedTypes, NamedTypes
  <1>6. QED BY <1>1, <1>3, <1>4, <1>5

\* No name can hint at a style sheet, or at bytes of no type.
LEMMA NotHinted ==
  ASSUME NEW ext \in DOMAIN NamedTypes
  PROVE  NamedTypes[ext] # OctetStream
  BY DEF NamedTypes, PlainText, Html, ZipArchive, OctetStream, AntManifest

\* A file that is a list is known by its bytes, not by a name.
LEMMA KnownByBytes ==
  ASSUME NEW content, IsContent(content), NEW name
  PROVE  /\ DetectMime(content, name) # WatchList
         /\ DetectMime(content, name) = AntManifest => content.magic = AntManifest
  <1>1. WatchList \notin {PlainText, OctetStream} /\ AntManifest \notin {PlainText, OctetStream}
    BY DEF WatchList, AntManifest, PlainText, OctetStream
  <1> DEFINE sniffed == Sniff(content, content.whole, PlainText)
  <1>2. sniffed # WatchList /\ (sniffed = AntManifest => content.magic = AntManifest)
    BY <1>1 DEF IsContent, Sniff
  <1>3. DetectMime(content, name) = sniffed \/ \E ext \in DOMAIN HintedTypes :
                                                  DetectMime(content, name) = HintedTypes[ext]
    BY DEF DetectMime, HintFrom
  <1>4. QED BY <1>2, <1>3, HintsAre

\* What sanitising, cleaning and the tables make of extensions are extensions.
LEMMA Names ==
  ASSUME NEW ext \in Extensions
  PROVE  /\ Cleaned(ext) \in Extensions
         /\ [stem |-> "kept", ext |-> ext] \in FileNames
         /\ Cleaned(ext) \in Untrusted <=> ext \in Untrusted
         /\ ext \notin Untrusted => Cleaned(ext) = ext
  <1>1. /\ Cleaned(ext) \in Extensions
        /\ Cleaned(ext) \in Untrusted <=> ext \in Untrusted
        /\ ext \notin Untrusted => Cleaned(ext) = ext
    BY DEF Cleaned, Extensions, Untrusted
  <1>2. [stem |-> "kept", ext |-> ext] \in FileNames
    BY DEF FileNames
  <1>3. QED BY <1>1, <1>2

\* The spelling of a link changes neither where it leads nor what a link is.
LEMMA NormalizedIs ==
  ASSUME NEW link \in Locations, LeadsToBytes(link)
  PROVE  NormalizeUri(link) \in Locations /\ LeadsToBytes(NormalizeUri(link))
  <1>1. CASE link.scheme = "none" /\ link.host = "address"
    <2>1. NormalizeUri(link) = [link EXCEPT !.scheme = "autonomi"]
      BY <1>1 DEF NormalizeUri
    <2>2. NormalizeUri(link) \in Locations /\ NormalizeUri(link).host = "address"
      BY <1>1, <2>1 DEF Locations
    <2>3. QED BY <2>2 DEF LeadsToBytes
  <1>2. CASE ~(link.scheme = "none" /\ link.host = "address")
    BY <1>2 DEF NormalizeUri
  <1>3. QED BY <1>1, <1>2

\* The same of the location a row is found under.
LEMMA CanonicalIs ==
  ASSUME NEW link \in Locations, LeadsToBytes(link), Canonical(link) # None
  PROVE  Canonical(link) \in Locations /\ LeadsToBytes(Canonical(link))
  <1>1. CASE SchemeOf(link) = "autonomi" /\ link.host = "address"
    <2>1. Canonical(link) = [link EXCEPT !.scheme = "autonomi", !.query = None, !.path = None]
      BY <1>1 DEF Canonical
    <2>2. Canonical(link) \in Locations /\ Canonical(link).host = "address"
      BY <1>1, <2>1 DEF Locations
    <2>3. QED BY <2>2 DEF LeadsToBytes
  <1>2. CASE SchemeOf(link) = "autonomi" /\ link.host # "address"
    <2>1. IsManifestLink(link)
      BY <1>2 DEF LeadsToBytes
    <2>2. Canonical(link) = [link EXCEPT !.scheme = "autonomi", !.query = None, !.path = @]
      BY <1>2, <2>1 DEF Canonical
    <2>3. Canonical(link) \in Locations
      BY <2>2 DEF Locations
    <2>4. IsManifestLink(Canonical(link))
      BY <2>1, <2>2 DEF Locations, IsManifestLink, SchemeOf, NormalizeUri
    <2>5. QED BY <2>3, <2>4 DEF LeadsToBytes
  <1>3. CASE SchemeOf(link) # "autonomi"
    BY <1>3 DEF Canonical
  <1>4. QED BY <1>1, <1>2, <1>3

\* The name a file is given from a link hints at what the link does.
LEMMA ChosenIsHint ==
  ASSUME NEW link \in Locations, LeadsToBytes(link)
  PROVE  /\ IsTrusted(Inferred(link)) =>
               Chosen(link, None) # None /\ Chosen(link, None).ext = Inferred(link).ext
         /\ IsTrusted(Chosen(link, None)) =>
               Inferred(link) # None /\ Chosen(link, None).ext = Inferred(link).ext
         /\ Chosen(link, None) \in FileNames \cup {None}
         /\ Inferred(link) \in FileNames \cup {None}
  <1>1. link.path \in FileNames \cup {None} /\ link.query \in FileNames \cup {None}
    BY DEF Locations
  <1>2. \A name \in FileNames : name # None /\ name.ext \in Extensions
    BY NoneAssumption DEF FileNames
  <1>3. CASE SchemeOf(link) = "none"
    <2>1. Inferred(link) = None /\ Chosen(link, None) = None
      BY <1>3 DEF Inferred, Chosen, FirstOf, LastUrlSegment
    <2>2. QED BY <2>1 DEF IsTrusted
  <1>4. CASE SchemeOf(link) \notin {"none", "autonomi"}
    <2>1. Inferred(link) = UrlContext(link)
      BY <1>4 DEF Inferred
    <2>2. CASE link.path = None
      <3>1. Inferred(link) = None /\ Chosen(link, None) = None
        BY <1>4, <2>1, <2>2 DEF UrlContext, Chosen, FirstOf, LastUrlSegment
      <3>2. QED BY <3>1 DEF IsTrusted
    <2>3. CASE link.path # None
      <3>1. link.path \in FileNames /\ Chosen(link, None) = link.path
        BY <1>1, <1>4, <2>3 DEF Chosen, FirstOf, LastUrlSegment
      <3>2. Inferred(link) = [stem |-> "kept", ext |-> Cleaned(link.path.ext)]
        BY <2>1, <2>3 DEF UrlContext
      <3>5. link.path.ext \in Extensions /\ Cleaned(link.path.ext) \in Extensions
        BY <1>2, <3>1, Names
      <3>3. Inferred(link) \in FileNames /\ Inferred(link).ext = Cleaned(link.path.ext)
        BY <3>2, <3>5, Names
      <3>4. QED BY <1>2, <2>3, <3>1, <3>3, Names DEF IsTrusted
    <2>4. QED BY <2>2, <2>3
  <1>5. CASE SchemeOf(link) = "autonomi" /\ link.host = "address"
    <2>1. Inferred(link) = FirstOf(link.path, link.query)
      BY <1>5 DEF Inferred
    <2>2. Chosen(link, None) = Inferred(link)
      BY <1>5, <2>1 DEF Chosen, FirstOf, LastUrlSegment
    <2>3. QED BY <1>1, <2>1, <2>2 DEF IsTrusted, FirstOf
  <1>6. CASE SchemeOf(link) = "autonomi" /\ link.host # "address"
    <2>1. IsManifestLink(link) /\ Inferred(link) = None
      BY <1>6 DEF LeadsToBytes, Inferred
    <2>2. Chosen(link, None) = link.path /\ link.path.ext = ""
      BY <1>6, <2>1 DEF Chosen, FirstOf, LastUrlSegment, IsManifestLink
    <2>3. QED BY <1>1, <2>1, <2>2 DEF IsTrusted, Untrusted
  <1>7. QED BY <1>3, <1>4, <1>5, <1>6

\* A name keeps its extension or loses it, unless sanitising mends or cuts it.
LEMMA SanitizedIs ==
  ASSUME NEW name \in FileNames
  PROVE  \/ Sanitized(name) = None
         \/ /\ Sanitized(name) = [stem |-> Sanitized(name).stem, ext |-> Sanitized(name).ext]
            /\ Sanitized(name).ext \in {"", name.ext, "csv", CutOff(name.ext)}
            /\ Sanitized(name).ext \in Extensions
  <1> DEFINE sane == Sanitized(name)
             ext == IF name.ext = "cs~v" THEN "csv" ELSE name.ext
             left == CutOff(name.ext)
             Is == /\ sane = [stem |-> sane.stem, ext |-> sane.ext]
                   /\ sane.ext \in {"", name.ext, "csv", left} /\ sane.ext \in Extensions
  <1>1. /\ name = [stem |-> name.stem, ext |-> name.ext] /\ name.ext \in Extensions
        /\ name.stem \in {"kept", "dropped", "long", "nearly_long"}
    BY DEF FileNames
  <1>2. "" \in Extensions /\ "csv" \in Extensions /\ left \in Extensions
    BY DEF Extensions, Untrusted, NamedTypes, CutOff
  <1>3. \/ sane = None
        \/ sane = [stem |-> "kept", ext |-> ""]
        \/ sane = [stem |-> "kept", ext |-> left]
        \/ sane = [name EXCEPT !.ext = ext]
    BY <1>1 DEF Sanitized
  <1>4. ext \in Extensions /\ ext \in {"", name.ext, "csv"}
    BY <1>1, <1>2
  <1> HIDE DEF sane, ext, left
  <1>5. ASSUME sane = [stem |-> "kept", ext |-> ""] PROVE Is
    <2>1. sane.stem = "kept" /\ sane.ext = ""
      BY <1>5
    <2>2. QED BY <1>2, <1>5, <2>1
  <1>6. ASSUME sane = [name EXCEPT !.ext = ext] PROVE Is
    <2>1. sane = [stem |-> name.stem, ext |-> ext]
      BY <1>1, <1>6
    <2>2. QED BY <1>4, <2>1
  <1>7. ASSUME sane = [stem |-> "kept", ext |-> left] PROVE Is
    <2>1. sane.stem = "kept" /\ sane.ext = left
      BY <1>7
    <2>2. QED BY <1>2, <1>7, <2>1
  <1>8. QED BY <1>3, <1>5, <1>6, <1>7 DEF sane, left

\* The extension of the name a file is suggested: that of its type, or, where a
\* link gives the name and keeps it, the link's.
LEMMA SuggestedExt ==
  ASSUME NEW link \in Locations, LeadsToBytes(link), IsNamedByLink(link),
         NEW known, Chosen(link, None) # None \/ known = None, NEW mime
  PROVE  LET name == SuggestFilename(link, known, mime)
         IN /\ name = [stem |-> name.stem, ext |-> name.ext] /\ name.ext \in Extensions
            /\ \/ name.ext = ExtensionForMime(mime)
               \/ name.ext \in Untrusted /\ ExtensionForMime(mime) = ""
               \/ IsTrusted(Chosen(link, None)) /\ name.ext = Chosen(link, None).ext
  <1> DEFINE chosen == Chosen(link, None)
             ext == ExtensionForMime(mime)
             sane == Sanitized(chosen)
             name == SuggestFilename(link, known, mime)
  <1>1. Chosen(link, known) = chosen
    BY DEF Chosen, FirstOf
  <1>2. chosen \in FileNames \cup {None}
    BY ChosenIsHint
  <1>3. ext \in Extensions
    BY DEF ExtensionForMime, Extensions, Untrusted
  <1>4. IF chosen = None \/ sane = None THEN name = [stem |-> "kept", ext |-> ext]
        ELSE IF IsTrusted(sane) \/ ext = "" THEN name = sane
        ELSE name = [sane EXCEPT !.ext = ext]
    <2> HIDE DEF chosen, ext, name
    <2>1. name = LET n == IF chosen = None THEN None ELSE sane
                 IN IF n = None THEN [stem |-> "kept", ext |-> ext]
                    ELSE IF IsTrusted(n) \/ ext = "" THEN n
                    ELSE [n EXCEPT !.ext = ext]
      BY <1>1 DEF SuggestFilename, name, ext
    <2>2. QED BY <2>1
  <1>5. chosen # None /\ sane # None =>
           /\ sane = [stem |-> sane.stem, ext |-> sane.ext] /\ sane.ext \in Extensions
           /\ sane.ext \in {"", chosen.ext}
    <2>1. chosen # None /\ sane # None => sane.ext \in {"", chosen.ext}
      BY DEF IsNamedByLink
    <2>2. chosen # None /\ sane # None =>
             sane = [stem |-> sane.stem, ext |-> sane.ext] /\ sane.ext \in Extensions
      <3> HIDE DEF chosen
      <3>1. QED BY <1>2, SanitizedIs DEF sane
    <2>3. QED BY <2>1, <2>2
  <1> HIDE DEF chosen, ext, sane, name
  <1>6. CASE chosen = None \/ sane = None
    <2>1. name = [stem |-> "kept", ext |-> ext]
      BY <1>4, <1>6
    <2>2. name.stem = "kept" /\ name.ext = ext
      BY <2>1
    <2>3. QED BY <1>3, <2>1, <2>2 DEF name, ext
  <1>7. CASE chosen # None /\ sane # None /\ ~IsTrusted(sane) /\ ext # ""
    <2>1. name = [stem |-> sane.stem, ext |-> ext]
      BY <1>4, <1>5, <1>7
    <2>2. QED BY <1>3, <2>1 DEF name, ext
  <1>8. CASE chosen # None /\ sane # None /\ ~IsTrusted(sane) /\ ext = ""
    <2>1. name = sane /\ name.ext \in Untrusted
      BY <1>4, <1>8 DEF IsTrusted
    <2>2. QED BY <1>5, <1>8, <2>1 DEF name, ext
  <1>9. CASE chosen # None /\ sane # None /\ IsTrusted(sane)
    <2>1. name = sane /\ name.ext = chosen.ext /\ IsTrusted(chosen)
      BY <1>4, <1>5, <1>9 DEF IsTrusted, Untrusted
    <2>2. QED BY <1>5, <1>9, <2>1 DEF name, chosen
  <1>10. QED BY <1>6, <1>7, <1>8, <1>9

\* The location of a file that was saved.
OnDisk(name) == [scheme |-> "file", host |-> "other", path |-> name, query |-> None]

\* The hint of a location on disk is the name of the file.
LEMMA OnDiskIs ==
  ASSUME NEW name, name.ext \in Extensions, name # None
  PROVE  /\ Inferred(OnDisk(name)) # None
         /\ Inferred(OnDisk(name)).ext = Cleaned(name.ext)
  <1>1. SchemeOf(OnDisk(name)) = "file" /\ OnDisk(name).path = name
    BY DEF OnDisk, SchemeOf, NormalizeUri
  <1>2. Inferred(OnDisk(name)) = [stem |-> "kept", ext |-> Cleaned(name.ext)]
    BY <1>1 DEF Inferred, UrlContext
  <1>3. Cleaned(name.ext) \in Extensions
    BY Names
  <1>4. [stem |-> "kept", ext |-> Cleaned(name.ext)] \in FileNames
    BY <1>3, Names
  <1>5. QED BY <1>2, <1>4, NoneAssumption

\* A name hints at a type, of bytes that say nothing themselves.
Hints(name) == IsTrusted(name) /\ name.ext \in DOMAIN HintedTypes

\* The extension of a type that says nothing, and what it hints at.
LEMMA GenericExt ==
  /\ ExtensionForMime(OctetStream) = ""
  /\ ExtensionForMime(PlainText) \in DOMAIN HintedTypes =>
        HintedTypes[ExtensionForMime(PlainText)] = PlainText
  /\ ExtensionForMime(PlainText) # ""
  <1>1. ExtensionForMime(OctetStream) = ""
    BY NotHinted DEF ExtensionForMime
  <1>2. "txt" \in DOMAIN NamedTypes /\ NamedTypes["txt"] = PlainText
    BY DEF NamedTypes
  <1>3. /\ ExtensionForMime(PlainText) \in DOMAIN NamedTypes
        /\ NamedTypes[ExtensionForMime(PlainText)] = PlainText
    BY <1>2 DEF ExtensionForMime
  <1>4. "" \in Untrusted
    BY DEF Untrusted
  <1>5. QED BY <1>1, <1>3, <1>4, NamesHintBack

\* The extension of a type that a name hinted at hints at it again.
LEMMA HintedExt ==
  ASSUME NEW hint \in DOMAIN HintedTypes
  PROVE  LET ext == ExtensionForMime(HintedTypes[hint])
         IN /\ ext \notin Untrusted /\ ext \in DOMAIN HintedTypes
            /\ HintedTypes[ext] = HintedTypes[hint]
  <1> DEFINE ext == ExtensionForMime(HintedTypes[hint])
  <1>1. ext \in DOMAIN NamedTypes /\ NamedTypes[ext] = HintedTypes[hint]
    BY HintsAre DEF ExtensionForMime
  <1> HIDE DEF ext
  <1>2. HintedTypes[hint] \notin {<<"text", "css">>, AntManifest}
    BY HintsAre
  <1>3. ext \notin Untrusted /\ ext \in DOMAIN HintedTypes /\ HintedTypes[ext] = HintedTypes[hint]
    BY <1>1, <1>2, NamesHintBack
  <1>4. QED BY <1>3 DEF ext

\* A copy saved under the suggested name is of the type that it was served as.
LEMMA CopyIsSame ==
  ASSUME NEW link \in Locations, LeadsToBytes(link), IsNamedByLink(link), NEW content,
         NEW known, Chosen(link, None) # None \/ known = None
  PROVE  LET mime == DetectMime(content, Inferred(link))
             name == SuggestFilename(link, known, mime)
         IN name # None => DetectMime(content, Inferred(OnDisk(name))) = mime
  <1> DEFINE mime == DetectMime(content, Inferred(link))
             name == SuggestFilename(link, known, mime)
             sniffed == Sniff(content, content.whole, PlainText)
             given == Inferred(link)
             found == Inferred(OnDisk(name))
             chosen == Chosen(link, None)
  <1>1. mime = HintFrom(sniffed, given)
        /\ DetectMime(content, found) = HintFrom(sniffed, found)
    BY DEF DetectMime
  <1>2. /\ name.ext \in Extensions
        /\ \/ name.ext = ExtensionForMime(mime)
           \/ name.ext \in Untrusted /\ ExtensionForMime(mime) = ""
           \/ IsTrusted(chosen) /\ name.ext = chosen.ext
    <2> HIDE DEF mime
    <2>1. QED BY SuggestedExt
  <1>3. /\ IsTrusted(given) => chosen # None /\ chosen.ext = given.ext
        /\ IsTrusted(chosen) => given # None /\ chosen.ext = given.ext
    BY ChosenIsHint
  <1> SUFFICES ASSUME name # None PROVE HintFrom(sniffed, found) = mime
    BY <1>1
  <1>4. found # None /\ found.ext = Cleaned(name.ext)
    <2> HIDE DEF name
    <2>1. QED BY <1>2, OnDiskIs
  <1>5. /\ found.ext \in Untrusted <=> name.ext \in Untrusted
        /\ name.ext \notin Untrusted => found.ext = name.ext
    <2> HIDE DEF name, found
    <2>1. QED BY <1>2, <1>4, Names
  <1> HIDE DEF mime, name, sniffed, given, found, chosen
  <1>6. CASE sniffed \notin {PlainText, OctetStream}
    BY <1>1, <1>6 DEF HintFrom
  <1>7. CASE sniffed \in {PlainText, OctetStream} /\ Hints(given)
    <2>1. given.ext \in DOMAIN HintedTypes /\ mime = HintedTypes[given.ext]
      BY <1>1, <1>7 DEF HintFrom, Hints
    <2>2. /\ ExtensionForMime(mime) \notin Untrusted
          /\ ExtensionForMime(mime) \in DOMAIN HintedTypes
          /\ HintedTypes[ExtensionForMime(mime)] = mime
      BY <2>1, HintedExt
    <2>3. ExtensionForMime(mime) # ""
      BY <2>2 DEF Untrusted
    <2>4. name.ext \in {ExtensionForMime(mime), given.ext}
      BY <1>2, <1>3, <2>3
    <2>5. /\ name.ext \notin Untrusted
          /\ name.ext \in DOMAIN HintedTypes /\ HintedTypes[name.ext] = mime
      BY <1>7, <2>1, <2>2, <2>4 DEF Hints, IsTrusted
    <2>6. IsTrusted(found) /\ found.ext = name.ext
      BY <1>4, <1>5, <2>5 DEF IsTrusted
    <2>7. QED BY <1>7, <2>5, <2>6 DEF HintFrom
  <1>8. CASE sniffed \in {PlainText, OctetStream} /\ ~Hints(given)
    <2>1. mime = sniffed
      BY <1>1, <1>8 DEF HintFrom, Hints
    <2>2. Hints(found) => HintedTypes[found.ext] = sniffed
      <3> SUFFICES ASSUME Hints(found) PROVE HintedTypes[found.ext] = sniffed
        OBVIOUS
      <3>1. name.ext \notin Untrusted /\ found.ext = name.ext /\ name.ext \in DOMAIN HintedTypes
        BY <1>5 DEF Hints, IsTrusted
      <3>2. ~(IsTrusted(chosen) /\ name.ext = chosen.ext)
        BY <1>3, <1>8, <3>1 DEF Hints, IsTrusted
      <3>3. name.ext = ExtensionForMime(sniffed)
        BY <1>2, <2>1, <3>1, <3>2
      <3>4. name.ext # ""
        BY <3>1 DEF Untrusted
      <3>5. sniffed = PlainText
        BY <1>8, <3>3, <3>4, GenericExt
      <3>6. QED BY <3>1, <3>3, <3>5, GenericExt
    <2>3. QED BY <1>8, <2>1, <2>2 DEF HintFrom, Hints
  <1>9. QED BY <1>6, <1>7, <1>8 DEF mime, name, found

\* What a prefix is taken for is what the whole is, or nothing.
LEMMA PrefixIsCautious ==
  ASSUME NEW content, content.mark # None => content.head = content.whole, NEW name
  PROVE  DetectMimePrefix(content, name) \in {DetectMime(content, name), OctetStream}
  <1> DEFINE first == Sniff(content, content.head, OctetStream)
             whole == Sniff(content, content.whole, PlainText)
  <1>1. /\ DetectMimePrefix(content, name) = HintFrom(first, name)
        /\ DetectMime(content, name) = HintFrom(whole, name)
    BY DEF DetectMimePrefix, DetectMime
  <1>2. first = whole \/ (first = OctetStream /\ whole \in {PlainText, OctetStream})
    BY DEF Sniff
  <1> HIDE DEF first, whole
  <1>3. QED BY <1>1, <1>2 DEF HintFrom

\* What is not known is not shown.
LEMMA UnknownIsNotShown == ~IsBrowserRenderable(OctetStream)
  BY DEF IsBrowserRenderable, OctetStream

\* What a row says of a list is what the file holds.
LEMMA IngestIsHonest ==
  ASSUME NEW link, NEW content, IsContent(content), NEW tagged
  PROVE  LET r == Ingest(link, content, tagged)
         IN /\ WindowIsHonest(r.description)
            /\ r.mime = AntManifest => ManifestIsListed(content.manifest, r.description)
            /\ r.mime = WatchList => BundleIsListed(Items(content.archive), r.description)
  <1> DEFINE mime == MimeOf(link, content)
             told == Synthesize(link, content, mime, tagged)
             Honest == /\ WindowIsHonest(told)
                       /\ mime = AntManifest => ManifestIsListed(content.manifest, told)
                       /\ mime = WatchList => BundleIsListed(Items(content.archive), told)
  <1>1. /\ Ingest(link, content, tagged).mime = mime
        /\ Ingest(link, content, tagged).description = told
    BY DEF Ingest
  <1>2. AntManifest # WatchList
    BY DEF AntManifest, WatchList
  <1>3. mime = WatchList => content.archive # None
    BY KnownByBytes DEF MimeOf, IsWatchList
  <1>4. mime = AntManifest => content.manifest # None /\ (Accounted(content.manifest) =>
                                                             IsList(Entries(content.manifest)))
    BY <1>2, KnownByBytes DEF MimeOf, IsContent
  <1> HIDE DEF mime
  <1>5. ASSUME mime = WatchList PROVE Honest
    <2> DEFINE head == HeadChars(0, LastUrlSegment(link)) + (IF tagged THEN TagChars ELSE 0)
               items == Items(content.archive)
               lines == CompactItems(items)
    <2>1. told = Listed(head, 0, lines)
      BY <1>5 DEF Synthesize
    <2> HIDE DEF head, told
    <2>2. IsList(items)
      <3>1. IsList(content.archive.members)
            /\ (content.archive.list = None \/ IsList(content.archive.list))
        BY <1>3, <1>5 DEF IsContent
      <3>2. QED BY <3>1, ItemsAreList
    <2> HIDE DEF items
    <2>3. IsList(lines)
      BY <2>2, CompactIsList
    <2>4. \A i \in DOMAIN items : items[i].title # None =>
             \E k \in DOMAIN lines :
                /\ lines[k].title = items[i].title
                /\ \/ items[i].season = 0
                   \/ <<items[i].season, items[i].episode>> \in lines[k].episodes
                   \/ \E j \in DOMAIN items :
                         items[j].title = items[i].title /\ items[j].season = 0
      BY <2>2, CompactListsAll
    <2> HIDE DEF lines
    <2>5. WindowIsHonest(told) /\ told.lines = lines
      BY <2>1, <2>3, ListedIsHonest
    <2>6. BundleIsListed(items, told)
      BY <2>4, <2>5 DEF BundleIsListed
    <2>7. QED BY <1>2, <1>5, <2>5, <2>6 DEF items
  <1>6. ASSUME mime = AntManifest PROVE Honest
    <2> DEFINE m == content.manifest
               meta == ExtractManifest(m)
               head == HeadChars(meta.title, Inferred(link))
    <2>1. told = IF StoredIncomplete(meta) THEN Listed(head + CountChars, meta.count, << >>)
                 ELSE Listed(head, 0, ManifestPaths(meta))
      BY <1>2, <1>6 DEF Synthesize
    <2>2. /\ IsList(ManifestPaths(meta))
          /\ Accounted(m) => meta.count = Len(Entries(m))
          /\ ~Accounted(m) => ~StoredIncomplete(meta) /\ ManifestPaths(meta) = << >>
          /\ Accounted(m) /\ ~StoredIncomplete(meta) =>
                Len(ManifestPaths(meta)) =
                   Cardinality({i \in DOMAIN Entries(m) : Text(Entries(m)[i], "path") # 0})
      BY <1>4, <1>6, PathsAreKept
    <2> HIDE DEF head, told, meta, m
    <2>3. CASE StoredIncomplete(meta)
      <3>1. told = Listed(head + CountChars, meta.count, << >>)
        BY <2>1, <2>3
      <3>2. WindowIsHonest(told) /\ told.lines = << >> /\ told.count = meta.count
        BY <3>1, EmptyIsList, ListedIsHonest
      <3>3. ManifestIsListed(m, told)
        BY <2>2, <2>3, <3>2 DEF ManifestIsListed
      <3>4. QED BY <1>2, <1>6, <3>2, <3>3 DEF m
    <2>4. CASE ~StoredIncomplete(meta)
      <3>1. told = Listed(head, 0, ManifestPaths(meta))
        BY <2>1, <2>4
      <3>2. WindowIsHonest(told) /\ told.lines = ManifestPaths(meta) /\ told.count = 0
        BY <2>2, <3>1, ListedIsHonest
      <3>3. ManifestIsListed(m, told)
        BY <2>2, <2>4, <3>2 DEF ManifestIsListed
      <3>4. QED BY <1>2, <1>6, <3>2, <3>3 DEF m
    <2>5. QED BY <2>3, <2>4
  <1>7. ASSUME mime \notin {WatchList, AntManifest} PROVE Honest
    <2>1. told = NoLines
      BY <1>7 DEF Synthesize
    <2> HIDE DEF told
    <2>2. told.lines = << >> /\ told.placed = 0 /\ told.more = 0 /\ ~told.cut
      BY <2>1 DEF NoLines
    <2>3. WindowIsHonest(told)
      BY <2>2, EmptyIsList DEF WindowIsHonest
    <2>4. QED BY <1>7, <2>3
  <1>8. QED BY <1>1, <1>5, <1>6, <1>7

-----------------------------------------------------------------------------
(* What was made of the content in hand (AvIngest)                         *)

\* A plan is of the first bytes, of the link they come from.
IsPlanOf(p, i) ==
    /\ p.sniffed => p.mime = DetectMimePrefix(i.content, Inferred(i.link))
    /\ p.renderable = IsBrowserRenderable(p.mime)

\* What is published is of all of them, and of the viewer alone has a name.
IsServedOf(s, i, caller) ==
    /\ ~i.content.empty => s.mime = DetectMime(i.content, Inferred(i.link))
    /\ caller = "page" =>
          /\ ~i.content.empty
          /\ s.inline = IsBrowserRenderable(s.mime)
          /\ \E known : /\ s.name = SuggestFilename(i.link, known, s.mime)
                        /\ s.known = (Chosen(i.link, None) = None /\ known # None)
    /\ caller # "page" => s.name = None

\* A row is of the content, under some link that leads to bytes.
IsRowOf(r, content) ==
    /\ ~content.empty
    /\ r.link \in Locations /\ LeadsToBytes(r.link)
    /\ \E tagged \in BOOLEAN : r = Ingest(r.link, content, tagged)

\* Each paper is of the content in hand, and of the link in hand or one it was
\* known by: nothing is kept of the content before.
PapersAreOfItem ==
    /\ item = None => plan = None /\ served = None /\ copy = None /\ row = None /\ again = None
    /\ item # None => item \in Held /\ LeadsToBytes(item.link) /\ IsContent(item.content)
    /\ plan # None => fetch.caller = "page" /\ IsPlanOf(plan, item)
    /\ served # None => IsServedOf(served, item, fetch.caller)
    /\ copy # None => served # None /\ fetch.caller = "page" /\ copy = served.name
    /\ row # None => IsRowOf(row, item.content)
    /\ again # None => copy # None /\ again = Ingest(OnDisk(copy), item.content, FALSE)

\* A record in hand has a link and a content.
LEMMA HeldIs ==
  ASSUME NEW i \in Held
  PROVE  /\ i # None /\ i = [link |-> i.link, content |-> i.content]
         /\ i.link \in Locations /\ i.content \in {case.content : case \in Cases}
  BY NoneAssumption DEF Held

\* With nothing in hand nothing is made of it.
LEMMA NothingMade == PapersAreOfItem /\ item = None /\ UNCHANGED ingestVars => PapersAreOfItem'
  BY DEF PapersAreOfItem, ingestVars, papers

\* The content comes, in a link's usual spelling.
LEMMA ObtainKeeps == PapersAreOfItem /\ Obtain => PapersAreOfItem'
  <1> SUFFICES ASSUME PapersAreOfItem, Obtain PROVE PapersAreOfItem'
    OBVIOUS
  <1>1. PICK case \in Cases : item' = [case EXCEPT !.link = NormalizeUri(@)]
    BY DEF Obtain
  <1>2. /\ case = [link |-> case.link, content |-> case.content]
        /\ case.link \in Locations /\ LeadsToBytes(case.link) /\ IsContent(case.content)
    BY CasesAssumption DEF IsCase
  <1>3. item' = [link |-> NormalizeUri(case.link), content |-> case.content]
    <2> DEFINE link == NormalizeUri(case.link)
    <2>1. item' = [case EXCEPT !.link = link]
      BY <1>1
    <2> HIDE DEF link
    <2>2. item' = [link |-> link, content |-> case.content]
      BY <1>2, <2>1
    <2>3. QED BY <2>2 DEF link
  <1>4. item'.link = NormalizeUri(case.link) /\ item'.content = case.content
    BY <1>3
  <1>5. item'.link \in Locations /\ LeadsToBytes(item'.link)
    BY <1>2, <1>4, NormalizedIs
  <1>6. item' \in Held
    BY <1>3, <1>4, <1>5 DEF Held
  <1>7. item' # None
    BY <1>6, HeldIs
  <1>8. /\ plan' = None /\ served' = None /\ copy' = None /\ row' = None /\ again' = None
    BY DEF PapersAreOfItem, Obtain, papers
  <1>9. IsContent(item'.content)
    BY <1>2, <1>4
  <1>10. QED BY <1>5, <1>6, <1>7, <1>8, <1>9 DEF PapersAreOfItem

\* The plan is of the first bytes there are, or of the type reported.
LEMMA PlanKeeps == PapersAreOfItem /\ ViewPlan => PapersAreOfItem'
  <1> SUFFICES ASSUME PapersAreOfItem, ViewPlan PROVE PapersAreOfItem'
    OBVIOUS
  <1>1. /\ UNCHANGED <<fetch, item, served, copy, row, again>>
        /\ item # None /\ fetch.caller = "page"
    BY DEF ViewPlan, vars, machine
  <1>2. PICK sniffed \in BOOLEAN, reported \in Reported :
           LET guess == IF ~sniffed THEN reported
                        ELSE DetectMimePrefix(item.content, Inferred(item.link))
           IN plan' = [mime |-> guess, sniffed |-> sniffed,
                       renderable |-> IsBrowserRenderable(guess),
                       name |-> SuggestFilename(item.link, StoredFilename, guess)]
    BY DEF ViewPlan
  <1> DEFINE guess == IF ~sniffed THEN reported
                      ELSE DetectMimePrefix(item.content, Inferred(item.link))
             name == SuggestFilename(item.link, StoredFilename, guess)
  <1>3. plan' = [mime |-> guess, sniffed |-> sniffed,
                 renderable |-> IsBrowserRenderable(guess), name |-> name]
    BY <1>2
  <1>4. sniffed => guess = DetectMimePrefix(item.content, Inferred(item.link))
    OBVIOUS
  <1> HIDE DEF guess, name
  <1>5. IsPlanOf(plan', item)
    BY <1>3, <1>4 DEF IsPlanOf
  <1>6. QED BY <1>1, <1>5 DEF PapersAreOfItem

\* What the viewer publishes is typed by all of the bytes, and named.
LEMMA PublishKeeps == PapersAreOfItem /\ Publish => PapersAreOfItem'
  <1> SUFFICES ASSUME PapersAreOfItem, Publish PROVE PapersAreOfItem'
    OBVIOUS
  <1>1. /\ UNCHANGED <<fetch, item, plan, copy, row, again>>
        /\ item # None /\ fetch.caller = "page" /\ served = None /\ ~item.content.empty
    BY DEF Publish, vars, machine
  <1> DEFINE mime == DetectMime(item.content, Inferred(item.link))
             name == SuggestFilename(item.link, StoredFilename, mime)
             known == Chosen(item.link, None) = None /\ StoredFilename # None
  <1>2. served' = [mime |-> mime, name |-> name, known |-> known,
                   inline |-> IsBrowserRenderable(mime)]
    BY DEF Publish
  <1>3. mime = DetectMime(item.content, Inferred(item.link))
    OBVIOUS
  <1>4. name = SuggestFilename(item.link, StoredFilename, mime)
    OBVIOUS
  <1>5. known = (Chosen(item.link, None) = None /\ StoredFilename # None)
    OBVIOUS
  <1> HIDE DEF mime, name, known
  <1>6. IsServedOf(served', item, fetch.caller)
    BY <1>1, <1>2, <1>3, <1>4, <1>5 DEF IsServedOf
  <1>7. copy = None /\ again = None
    BY <1>1 DEF PapersAreOfItem
  <1>8. QED BY <1>1, <1>6, <1>7 DEF PapersAreOfItem

\* The route answers with the bytes and their type.
LEMMA AnswerKeeps == PapersAreOfItem /\ Download => PapersAreOfItem'
  <1> SUFFICES ASSUME PapersAreOfItem, Download PROVE PapersAreOfItem'
    OBVIOUS
  <1>1. /\ UNCHANGED <<fetch, item, plan, copy, row, again>>
        /\ item # None /\ fetch.caller = "route" /\ served = None
    BY DEF Download, vars, machine
  <1> DEFINE mime == IF item.content.empty THEN OctetStream
                     ELSE DetectMime(item.content, Inferred(item.link))
  <1>2. served' = [mime |-> mime, name |-> None, known |-> FALSE, inline |-> TRUE]
    BY DEF Download
  <1>3. ~item.content.empty => mime = DetectMime(item.content, Inferred(item.link))
    OBVIOUS
  <1> HIDE DEF mime
  <1>4. IsServedOf(served', item, fetch.caller)
    BY <1>1, <1>2, <1>3 DEF IsServedOf
  <1>5. copy = None /\ again = None
    BY <1>1 DEF PapersAreOfItem
  <1>6. QED BY <1>1, <1>4, <1>5 DEF PapersAreOfItem

\* Only the viewer gives a name to save a file under.
LEMMA SaveKeeps == PapersAreOfItem /\ SaveCopy => PapersAreOfItem'
  <1> SUFFICES ASSUME PapersAreOfItem, SaveCopy PROVE PapersAreOfItem'
    OBVIOUS
  <1>1. /\ UNCHANGED <<fetch, item, plan, served, row, again>>
        /\ served # None /\ served.name # None /\ copy' = served.name
    BY DEF SaveCopy, vars, machine
  <1>2. fetch.caller = "page"
    BY <1>1 DEF PapersAreOfItem, IsServedOf
  <1>3. again # None => copy = served.name
    BY DEF PapersAreOfItem
  <1>4. item = None => served = None
    BY DEF PapersAreOfItem
  <1>5. QED BY <1>1, <1>2, <1>3, <1>4 DEF PapersAreOfItem

\* A row is made of the content in hand.
LEMMA IndexKeeps == PapersAreOfItem /\ Index => PapersAreOfItem'
  <1> SUFFICES ASSUME PapersAreOfItem, Index PROVE PapersAreOfItem'
    OBVIOUS
  <1>1. /\ UNCHANGED <<fetch, item, plan, served, copy, again>>
        /\ item # None /\ ~item.content.empty
    BY DEF Index, vars, machine
  <1>2. PICK tagged \in BOOLEAN : row' = Ingest(item.link, item.content, tagged)
    BY DEF Index
  <1>3. row'.link = item.link
    BY <1>2 DEF Ingest
  <1>4. item.link \in Locations /\ LeadsToBytes(item.link)
    BY <1>1, HeldIs DEF PapersAreOfItem
  <1>5. IsRowOf(row', item.content)
    BY <1>1, <1>2, <1>3, <1>4 DEF IsRowOf
  <1>6. QED BY <1>1, <1>5 DEF PapersAreOfItem

\* The copy is indexed as what it is: a file of the name it was saved under.
LEMMA AgainKeeps == PapersAreOfItem /\ IndexCopy => PapersAreOfItem'
  <1> SUFFICES ASSUME PapersAreOfItem, IndexCopy PROVE PapersAreOfItem'
    OBVIOUS
  <1>1. /\ UNCHANGED <<fetch, item, plan, served, copy, row>>
        /\ copy # None /\ again' = Ingest(OnDisk(copy), item.content, FALSE)
    BY DEF IndexCopy, vars, machine, OnDisk
  <1>2. item # None
    BY <1>1 DEF PapersAreOfItem
  <1>3. QED BY <1>1, <1>2 DEF PapersAreOfItem

\* The content is asked for once more, where its row says it is.
LEMMA FollowKeeps == PapersAreOfItem /\ Follow => PapersAreOfItem'
  <1> SUFFICES ASSUME PapersAreOfItem, Follow PROVE PapersAreOfItem'
    OBVIOUS
  <1>1. /\ row # None /\ row.canonical # None
        /\ item' = [item EXCEPT !.link = row.canonical]
        /\ plan' = None /\ served' = None /\ copy' = None /\ again' = None
        /\ UNCHANGED <<fetch, row>>
    BY DEF Follow, vars, machine
  <1>2. item # None /\ item \in Held /\ IsContent(item.content) /\ IsRowOf(row, item.content)
    BY <1>1 DEF PapersAreOfItem
  <1>3. row.canonical = Canonical(row.link)
    <2>1. PICK tagged \in BOOLEAN : row = Ingest(row.link, item.content, tagged)
      BY <1>2 DEF IsRowOf
    <2> DEFINE r == Ingest(row.link, item.content, tagged)
    <2>2. r.canonical = Canonical(row.link)
      BY DEF Ingest
    <2> HIDE DEF r
    <2>3. row = r
      BY <2>1 DEF r
    <2>4. QED BY <2>2, <2>3
  <1>4. row.canonical \in Locations /\ LeadsToBytes(row.canonical)
    BY <1>1, <1>2, <1>3, CanonicalIs DEF IsRowOf
  <1>5. item' = [link |-> row.canonical, content |-> item.content]
    BY <1>1, <1>2, HeldIs
  <1>6. item'.link = row.canonical /\ item'.content = item.content
    BY <1>5
  <1>7. item' \in Held
    BY <1>2, <1>4, <1>5, HeldIs DEF Held
  <1>8. item' # None
    BY <1>7, HeldIs
  <1>9. QED BY <1>1, <1>2, <1>4, <1>6, <1>7, <1>8 DEF PapersAreOfItem

\* Every step keeps the papers those of the content in hand.
LEMMA IngestStep ==
  PapersAreOfItem /\ [IngestNext]_<<vars, ingestVars>> => PapersAreOfItem'
  <1> SUFFICES ASSUME PapersAreOfItem, [IngestNext]_<<vars, ingestVars>> PROVE PapersAreOfItem'
    OBVIOUS
  <1>1. CASE item = None /\ Next /\ UNCHANGED ingestVars
    BY <1>1, NothingMade
  <1>2. CASE Obtain
    BY <1>2, ObtainKeeps
  <1>3. CASE ViewPlan
    BY <1>3, PlanKeeps
  <1>4. CASE Publish
    BY <1>4, PublishKeeps
  <1>5. CASE Download
    BY <1>5, AnswerKeeps
  <1>6. CASE SaveCopy
    BY <1>6, SaveKeeps
  <1>7. CASE Index
    BY <1>7, IndexKeeps
  <1>8. CASE IndexCopy
    BY <1>8, AgainKeeps
  <1>9. CASE Follow
    BY <1>9, FollowKeeps
  <1>10. CASE UNCHANGED <<vars, ingestVars>>
    BY <1>10 DEF PapersAreOfItem, vars, machine, ingestVars, papers
  <1>11. QED
    BY <1>1, <1>2, <1>3, <1>4, <1>5, <1>6, <1>7, <1>8, <1>9, <1>10 DEF IngestNext

\* At first there is nothing in hand.
LEMMA IngestInitially == IngestInit => PapersAreOfItem
  BY DEF IngestInit, PapersAreOfItem

\* A type that is not a bundle's is what the bytes and the link's hint say.
LEMMA RowType ==
  ASSUME NEW link, NEW content, NEW tagged, Ingest(link, content, tagged).mime # WatchList
  PROVE  Ingest(link, content, tagged).mime = DetectMime(content, Inferred(link))
  <1>1. Ingest(link, content, tagged).mime = MimeOf(link, content)
    BY DEF Ingest
  <1>2. QED BY <1>1 DEF MimeOf

\* The types of a row, of what is served and of the copy are one.
LEMMA PapersAgree == PapersAreOfItem => OneTypePerRecord
  <1> SUFFICES ASSUME PapersAreOfItem PROVE OneTypePerRecord
    OBVIOUS
  <1>1. ASSUME served # None, row # None, row.link = item.link, row.mime # WatchList
        PROVE  row.mime = served.mime
    <2>1. IsServedOf(served, item, fetch.caller) /\ IsRowOf(row, item.content)
      BY <1>1 DEF PapersAreOfItem
    <2>2. served.mime = DetectMime(item.content, Inferred(item.link))
      BY <2>1 DEF IsServedOf, IsRowOf
    <2>3. PICK tagged \in BOOLEAN : row = Ingest(item.link, item.content, tagged)
      BY <1>1, <2>1 DEF IsRowOf
    <2>4. QED BY <1>1, <2>2, <2>3, RowType
  <1>2. ASSUME again # None, again.mime # WatchList, ~served.known, IsNamedByLink(item.link)
        PROVE  again.mime = served.mime
    <2>1. /\ copy # None /\ served # None /\ copy = served.name /\ fetch.caller = "page"
          /\ again = Ingest(OnDisk(copy), item.content, FALSE)
          /\ IsServedOf(served, item, fetch.caller)
      BY <1>2 DEF PapersAreOfItem
    <2>2. item # None
      BY <2>1 DEF PapersAreOfItem
    <2>3. item.link \in Locations /\ LeadsToBytes(item.link)
      BY <2>2, HeldIs DEF PapersAreOfItem
    <2>4. again.mime = DetectMime(item.content, Inferred(OnDisk(copy)))
      BY <1>2, <2>1, RowType
    <2>5. served.mime = DetectMime(item.content, Inferred(item.link))
      BY <2>1 DEF IsServedOf
    <2>6. PICK known : /\ copy = SuggestFilename(item.link, known, served.mime)
                       /\ served.known = (Chosen(item.link, None) = None /\ known # None)
      BY <2>1 DEF IsServedOf
    <2>7. Chosen(item.link, None) # None \/ known = None
      BY <1>2, <2>6
    <2>8. copy # None => DetectMime(item.content, Inferred(OnDisk(copy))) = served.mime
      BY <1>2, <2>3, <2>5, <2>6, <2>7, CopyIsSame
    <2>9. QED BY <2>1, <2>4, <2>8
  <1>3. QED BY <1>1, <1>2 DEF OneTypePerRecord

\* A plan from the first bytes says no more than all of them do.
LEMMA PapersAreCautious == PapersAreOfItem => PlanIsCautious
  <1> SUFFICES ASSUME PapersAreOfItem, plan # None, plan.sniffed, served # None,
                      item.content.mark # None => item.content.head = item.content.whole
               PROVE  /\ plan.mime \in {served.mime, OctetStream}
                      /\ plan.renderable => served.inline
    BY DEF PlanIsCautious
  <1>1. /\ plan.mime = DetectMimePrefix(item.content, Inferred(item.link))
        /\ plan.renderable = IsBrowserRenderable(plan.mime)
        /\ fetch.caller = "page"
    BY DEF PapersAreOfItem, IsPlanOf
  <1>2. /\ served.mime = DetectMime(item.content, Inferred(item.link))
        /\ served.inline = IsBrowserRenderable(served.mime)
    BY <1>1 DEF PapersAreOfItem, IsServedOf
  <1>3. plan.mime \in {served.mime, OctetStream}
    BY <1>1, <1>2, PrefixIsCautious
  <1>4. plan.renderable => plan.mime # OctetStream
    BY <1>1, UnknownIsNotShown
  <1>5. plan.mime = served.mime => plan.renderable = served.inline
    BY <1>1, <1>2
  <1>6. QED BY <1>3, <1>4, <1>5

\* A row says of a list what the content in hand holds.
LEMMA PapersAreHonest == PapersAreOfItem => ListingIsHonest
  <1> SUFFICES ASSUME PapersAreOfItem, NEW r \in {row, again} \ {None}
               PROVE  /\ WindowIsHonest(r.description)
                      /\ r.mime = AntManifest =>
                            ManifestIsListed(item.content.manifest, r.description)
                      /\ r.mime = WatchList =>
                            BundleIsListed(Items(item.content.archive), r.description)
    BY DEF ListingIsHonest
  <1>1. \E link, tagged : r = Ingest(link, item.content, tagged)
    BY DEF PapersAreOfItem, IsRowOf
  <1>2. item # None
    BY DEF PapersAreOfItem
  <1>3. IsContent(item.content)
    BY <1>2 DEF PapersAreOfItem
  <1>4. PICK link, tagged : r = Ingest(link, item.content, tagged)
    BY <1>1
  <1>5. QED BY <1>3, <1>4, IngestIsHonest

(***************************************************************************)
(* What is served and what is indexed have one type, whatever links there  *)
(* are and whatever is behind them, if it is no bundle; and so has the     *)
(* copy that a user saved and indexed again, if besides the link, and not  *)
(* the row, gave the name, and sanitising left its extension alone or      *)
(* nothing of it (mime.rs, filename.rs: the hint, the suggested name and   *)
(* the table of extensions).                                               *)
(***************************************************************************)
THEOREM TypesAgree == IngestSpec => []OneTypePerRecord
  BY IngestInitially, IngestStep, PapersAgree, PTL DEF IngestSpec

(***************************************************************************)
(* What the page is told from the first bytes is what the whole file turns *)
(* out to be, or nothing (detect_mime_prefix, view_plan).                  *)
(***************************************************************************)
THEOREM PlansAreCautious == IngestSpec => []PlanIsCautious
  BY IngestInitially, IngestStep, PapersAreCautious, PTL DEF IngestSpec

(***************************************************************************)
(* A description lists what a manifest or a bundle holds, or counts it,    *)
(* for any of either, any window and any caps (extract_ant_manifest,       *)
(* compact_items, fill_into_window): where it lists a part, the marker     *)
(* that counts the rest is whole.  Files without a stem, and episodes of a *)
(* series that shares its title with a film, are excepted, as the property *)
(* says.                                                                   *)
(***************************************************************************)
THEOREM ListingsAreHonest == IngestSpec => []ListingIsHonest
  BY IngestInitially, IngestStep, PapersAreHonest, PTL DEF IngestSpec

\* With the content in hand the fetch, its feed and its tailer are gone.
LEMMA ObtainReads == ProgressInv /\ DownloadInv /\ Obtain => ProgressInv' /\ DownloadInv'
  <1> SUFFICES ASSUME ProgressInv, DownloadInv, Obtain PROVE Fresh' /\ DownloadInv'
    BY FreshReads, PTL
  <1>1. /\ fetch' = [at |-> "ok", caller |-> fetch.caller, last |-> FALSE, len |-> 0,
                     held |-> FALSE]
        /\ UNCHANGED <<antd, ant, knows, changes>>
    BY DEF Obtain, machine
  <1>2. fetch.caller \in CallerKinds
    BY DEF ProgressInv, DownloadTypeOK, FetchState
  <1>3. fetch' \in FetchState
    <2> DEFINE caller == fetch.caller
    <2>1. fetch' = [at |-> "ok", caller |-> caller, last |-> FALSE, len |-> 0, held |-> FALSE]
      BY <1>1
    <2>2. caller \in CallerKinds
      BY <1>2
    <2> HIDE DEF caller
    <2>3. QED BY <2>1, <2>2 DEF FetchState, Ended
  <1>4. fetch'.at = "ok" /\ fetch'.last = FALSE /\ fetch'.held = FALSE
    BY <1>1
  <1>5. Unfed'
    BY DEF Obtain, Unfed
  <1>6. Fresh'
    BY <1>1, <1>3, <1>4, <1>5 DEF Fresh, ProgressInv, DownloadTypeOK
  <1>7. DownloadInv'
    BY <1>1, <1>4 DEF DownloadInv, Shaped, HeldIsThere, DetectionAgrees, At
  <1>8. QED BY <1>6, <1>7

\* Every step of a content keeps what is true of the downloads.
LEMMA IngestReads ==
  ProgressInv /\ DownloadInv /\ [IngestNext]_<<vars, ingestVars>> => ProgressInv' /\ DownloadInv'
  <1> SUFFICES ASSUME ProgressInv, DownloadInv, [IngestNext]_<<vars, ingestVars>>
               PROVE  ProgressInv' /\ DownloadInv'
    OBVIOUS
  <1>1. CASE [Next]_vars
    BY <1>1, ProgressStep, DownloadStep
  <1>2. CASE Obtain
    BY <1>2, ObtainReads
  <1>3. UNCHANGED vars \/ Next \/ Obtain
    BY DEF IngestNext, ViewPlan, Publish, Download, SaveCopy, Index, IndexCopy, Follow
  <1>4. QED BY <1>1, <1>2, <1>3

(***************************************************************************)
(* The same where the bytes are made something of: each content comes with *)
(* a download of its own (download.rs), which tells its progress and finds *)
(* ant as it did.                                                          *)
(***************************************************************************)
THEOREM DownloadsOfContents == IngestSpec => [](ProgressIsTrue /\ DetectionAgrees)
  <1>1. IngestInit => ProgressInv /\ DownloadInv
    BY ProgressInit, DownloadInit DEF IngestInit
  <1>2. ProgressInv /\ DownloadInv => ProgressIsTrue /\ DetectionAgrees
    BY InvTells DEF DownloadInv
  <1>3. QED BY <1>1, <1>2, IngestReads, PTL DEF IngestSpec

==============================================================================
