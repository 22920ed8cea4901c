-------------------------- MODULE AvStartersProofs --------------------------
(***************************************************************************)
(* Opening a database, and with it the migrations, for any number of       *)
(* connections, migrations and attempts; and seeding, for any number of    *)
(* starters, servers, other commands and restarts, with deaths and         *)
(* failures anywhere: each migration runs once and in order, what a pass   *)
(* commits is whole, and it lands only where there was room.               *)
(***************************************************************************)
EXTENDS AvStarters, TLAPS

-----------------------------------------------------------------------------
(* Migrate                                                                 *)

\* What holds of each connection, relative to the file.
ConnOK(c) ==
    /\ conn[c].at \in {"table", "check", "begin", "recheck", "apply", "commit", "open"}
          => wal
    /\ \A k \in 1 .. Last : k < conn[c].next => k \in applied
    /\ conn[c].at \in {"begin", "recheck", "apply", "commit"} => conn[c].next \in Migrations
    /\ conn[c].at = "apply" => conn[c].next \notin applied
    /\ conn[c].at = "commit" => (conn[c].done <=> conn[c].next \notin applied)
    /\ conn[c].done => conn[c].at = "commit"
    /\ conn[c].at = "open" => conn[c].next = Last + 1
    /\ conn[c].at \in {"recheck", "apply", "commit"} => writer = c
    /\ conn[c].at \in {"closed", "wal"} => conn[c].attempt < Attempts
    /\ conn[c].at = "failed" => c \in MayTimeOut \/ conn[c].attempt = Attempts

\* The inductive invariant: only the holder of the write lock knows that its
\* migration is pending, and it alone changes what is applied.
MigrateInv ==
    /\ TypeOK
    /\ ExactlyOnce
    /\ InOrder
    /\ \A c \in Conns : ConnOK(c)

\* The invariant implies what the runs check.
LEMMA InvariantSuffices ==
    MigrateInv => OpenIsMigrated /\ LosersSucceed
  <1>1. SUFFICES ASSUME MigrateInv PROVE OpenIsMigrated /\ LosersSucceed
    OBVIOUS
  <1>2. OpenIsMigrated
    <2>1. SUFFICES ASSUME NEW c \in Conns, At(c, "open")
                   PROVE  wal /\ applied = Migrations
      BY DEF OpenIsMigrated
    <2>2. wal /\ conn[c].next = Last + 1
      BY <1>1, <2>1 DEF MigrateInv, ConnOK, At
    <2>3. \A k \in 1 .. Last : k \in applied
      BY <1>1, <2>2, LastAssumption DEF MigrateInv, ConnOK
    <2>4. QED BY <1>1, <2>2, <2>3 DEF MigrateInv, TypeOK, Migrations
  <1>3. LosersSucceed
    BY <1>1 DEF LosersSucceed, MigrateInv, ConnOK, At
  <1>4. QED BY <1>2, <1>3

\* A database nobody has opened satisfies the invariant.
LEMMA MigrateInitially == Init => MigrateInv
  <1>1. SUFFICES ASSUME Init PROVE MigrateInv
    OBVIOUS
  <1>2. /\ Closed \in ConnState
        /\ Closed.at = "closed" /\ Closed.next = 1 /\ Closed.attempt = 0 /\ ~Closed.done
    BY LastAssumption, AttemptsAssumption DEF Closed, ConnState, Steps
  <1>3. TypeOK
    BY <1>1, <1>2 DEF Init, TypeOK, Migrations
  <1>4. ExactlyOnce /\ InOrder
    BY <1>1 DEF Init, ExactlyOnce, InOrder
  <1>5. \A c \in Conns : ConnOK(c)
    <2>1. SUFFICES ASSUME NEW c \in Conns PROVE ConnOK(c)
      OBVIOUS
    <2>2. conn[c].at = "closed" /\ conn[c].next = 1 /\ conn[c].attempt = 0 /\ ~conn[c].done
          /\ writer # c
      BY <1>1, <1>2, NoneIsNoConn DEF Init
    <2>3. QED BY <2>2, AttemptsAssumption DEF ConnOK
  <1>6. QED BY <1>3, <1>4, <1>5 DEF MigrateInv

\* Only connection c moves.
Moves(c) ==
    /\ conn' \in [Conns -> ConnState]
    /\ \A d \in Conns \ {c} : conn'[d] = conn[d]

LEMMA BecomeMoves ==
  ASSUME conn \in [Conns -> ConnState], NEW c \in Conns, NEW state \in ConnState,
         Become(c, state)
  PROVE  Moves(c) /\ conn'[c] = state
  BY DEF Become, Moves

LEMMA GotoMoves ==
  ASSUME conn \in [Conns -> ConnState], NEW c \in Conns, NEW s \in Steps, Goto(c, s)
  PROVE  /\ Moves(c)
         /\ conn'[c].at = s /\ conn'[c].attempt = conn[c].attempt
         /\ conn'[c].next = conn[c].next /\ conn'[c].done = conn[c].done
  <1>1. /\ [conn[c] EXCEPT !.at = s] \in ConnState
        /\ [conn[c] EXCEPT !.at = s].at = s
        /\ [conn[c] EXCEPT !.at = s].attempt = conn[c].attempt
        /\ [conn[c] EXCEPT !.at = s].next = conn[c].next
        /\ [conn[c] EXCEPT !.at = s].done = conn[c].done
    BY DEF ConnState
  <1>2. Become(c, [conn[c] EXCEPT !.at = s])
    BY DEF Goto
  <1>3. QED BY <1>1, <1>2, BecomeMoves

\* A step that leaves the tables alone, and moves one connection, keeps the
\* invariant when it keeps that connection in order.
LEMMA LocalStep ==
  ASSUME MigrateInv, NEW c \in Conns, Moves(c),
         wal => wal', wal' \in BOOLEAN, walOwner' \in Conns \cup {None},
         table' \in BOOLEAN, writer' \in Conns \cup {None},
         applied' = applied, ran' = ran,
         \A d \in Conns \ {c} : writer' = d <=> writer = d,
         ConnOK(c)'
  PROVE  MigrateInv'
  <1>1. TypeOK'
    BY DEF MigrateInv, TypeOK, Moves
  <1>2. ExactlyOnce' /\ InOrder'
    BY DEF MigrateInv, ExactlyOnce, InOrder
  <1>3. ASSUME NEW d \in Conns \ {c} PROVE ConnOK(d)'
    <2>1. conn'[d] = conn[d]
      BY DEF Moves
    <2>2. ConnOK(d)
      BY DEF MigrateInv
    <2>3. writer' = d <=> writer = d
      OBVIOUS
    <2>4. QED BY <2>1, <2>2, <2>3 DEF ConnOK
  <1>4. QED BY <1>1, <1>2, <1>3 DEF MigrateInv

\* Every action keeps the invariant.
LEMMA MigrateStep == MigrateInv /\ [Next]_vars => MigrateInv'
  <1>1. SUFFICES ASSUME MigrateInv, [Next]_vars PROVE MigrateInv'
    OBVIOUS
  <1>2. TypeOK /\ ExactlyOnce /\ InOrder /\ \A d \in Conns : ConnOK(d)
    BY <1>1 DEF MigrateInv
  <1>3. conn \in [Conns -> ConnState]
    BY <1>2 DEF TypeOK
  <1>4. /\ wal \in BOOLEAN /\ walOwner \in Conns \cup {None} /\ table \in BOOLEAN
        /\ writer \in Conns \cup {None} /\ applied \subseteq Migrations
    BY <1>2 DEF TypeOK
  <1>5. /\ Closed \in ConnState
        /\ Closed.at = "closed" /\ Closed.next = 1 /\ Closed.attempt = 0 /\ ~Closed.done
        /\ [Closed EXCEPT !.at = "dead"] \in ConnState
        /\ [Closed EXCEPT !.at = "dead"].at = "dead"
        /\ [Closed EXCEPT !.at = "dead"].next = 1 /\ ~[Closed EXCEPT !.at = "dead"].done
    <2>1. /\ Closed \in ConnState
          /\ Closed.at = "closed" /\ Closed.next = 1 /\ Closed.attempt = 0 /\ ~Closed.done
      BY LastAssumption, AttemptsAssumption DEF Closed, ConnState, Steps
    <2>2. /\ [Closed EXCEPT !.at = "dead"] \in ConnState
          /\ [Closed EXCEPT !.at = "dead"].at = "dead"
          /\ [Closed EXCEPT !.at = "dead"].next = 1 /\ ~[Closed EXCEPT !.at = "dead"].done
      BY <2>1 DEF ConnState, Steps
    <2>3. QED BY <2>1, <2>2
  <1>6. ASSUME NEW c \in Conns, Step(c) \/ BeginTimedOut(c) \/ Close(c) \/ Die(c)
        PROVE  MigrateInv'
    <2>1. /\ conn[c] \in ConnState /\ ConnOK(c)
          /\ conn[c].at \in Steps /\ conn[c].next \in 1 .. Last + 1
          /\ conn[c].attempt \in 0 .. Attempts /\ conn[c].done \in BOOLEAN
      BY <1>2, <1>3, <1>6 DEF ConnState
    <2>2. CASE Open(c)
      <3>1. Goto(c, IF wal THEN "table" ELSE "wal") /\ At(c, "closed")
            /\ UNCHANGED <<wal, walOwner, table, applied, ran, writer>>
        BY <2>2 DEF Open
      <3>2. PICK s \in {"table", "wal"} : Goto(c, s) /\ (s = "table" => wal)
        BY <3>1
      <3>3. /\ Moves(c) /\ conn'[c].at = s /\ conn'[c].next = conn[c].next
            /\ conn'[c].attempt = conn[c].attempt /\ conn'[c].done = conn[c].done
        BY <1>3, <3>2, GotoMoves DEF Steps
      <3>4. ConnOK(c)'
        BY <2>1, <3>1, <3>2, <3>3 DEF ConnOK, At
      <3>5. QED BY <1>1, <1>4, <3>1, <3>3, <3>4, LocalStep
    <2>3. CASE SwitchToWal(c)
      <3>1. Goto(c, "switch") /\ At(c, "wal") /\ walOwner' = c
            /\ UNCHANGED <<wal, table, applied, ran, writer>>
        BY <2>3 DEF SwitchToWal
      <3>2. /\ Moves(c) /\ conn'[c].at = "switch" /\ conn'[c].next = conn[c].next
            /\ conn'[c].done = conn[c].done
        BY <1>3, <3>1, GotoMoves DEF Steps
      <3>3. ConnOK(c)'
        BY <2>1, <3>1, <3>2 DEF ConnOK, At
      <3>4. QED BY <1>1, <1>4, <3>1, <3>2, <3>3, LocalStep
    <2>4. CASE Switched(c)
      <3>1. Goto(c, "table") /\ At(c, "switch") /\ wal' = TRUE /\ walOwner' = None
            /\ UNCHANGED <<table, applied, ran, writer>>
        BY <2>4 DEF Switched
      <3>2. /\ Moves(c) /\ conn'[c].at = "table" /\ conn'[c].next = conn[c].next
            /\ conn'[c].done = conn[c].done
        BY <1>3, <3>1, GotoMoves DEF Steps
      <3>3. ConnOK(c)'
        BY <2>1, <3>1, <3>2 DEF ConnOK, At
      <3>4. QED BY <1>1, <1>4, <3>1, <3>2, <3>3, LocalStep
    <2>5. CASE AlreadyWal(c)
      <3>1. Goto(c, "table") /\ At(c, "wal") /\ wal
            /\ UNCHANGED <<wal, walOwner, table, applied, ran, writer>>
        BY <2>5 DEF AlreadyWal
      <3>2. /\ Moves(c) /\ conn'[c].at = "table" /\ conn'[c].next = conn[c].next
            /\ conn'[c].done = conn[c].done
        BY <1>3, <3>1, GotoMoves DEF Steps
      <3>3. ConnOK(c)'
        BY <2>1, <3>1, <3>2 DEF ConnOK, At
      <3>4. QED BY <1>1, <1>4, <3>1, <3>2, <3>3, LocalStep
    <2>6. CASE WalBusy(c)
      <3> DEFINE state == [conn[c] EXCEPT !.attempt = @ + 1,
                                          !.at = IF conn[c].attempt + 1 = Attempts
                                                 THEN "failed" ELSE "wal"]
      <3>1. At(c, "wal") /\ Become(c, state)
            /\ UNCHANGED <<wal, walOwner, table, applied, ran, writer>>
        BY <2>6 DEF WalBusy
      <3>2. conn[c].attempt + 1 \in 0 .. Attempts
        BY <2>1, <3>1, AttemptsAssumption DEF ConnOK, At
      <3>3. /\ state \in ConnState /\ state.next = conn[c].next /\ state.done = conn[c].done
            /\ state.at \in {"failed", "wal"}
            /\ state.attempt = conn[c].attempt + 1
            /\ state.at = "failed" <=> state.attempt = Attempts
        BY <2>1, <3>2 DEF ConnState, Steps
      <3> HIDE DEF state
      <3>4. Moves(c) /\ conn'[c] = state
        BY <1>3, <3>1, <3>3, BecomeMoves
      <3>5. ConnOK(c)'
        BY <2>1, <3>1, <3>2, <3>3, <3>4, AttemptsAssumption DEF ConnOK, At
      <3>6. QED BY <1>1, <1>4, <3>1, <3>4, <3>5, LocalStep
    <2>7. CASE CreateTable(c)
      <3>1. Goto(c, "check") /\ At(c, "table") /\ table' = TRUE
            /\ UNCHANGED <<wal, walOwner, applied, ran, writer>>
        BY <2>7 DEF CreateTable
      <3>2. /\ Moves(c) /\ conn'[c].at = "check" /\ conn'[c].next = conn[c].next
            /\ conn'[c].done = conn[c].done
        BY <1>3, <3>1, GotoMoves DEF Steps
      <3>3. ConnOK(c)'
        BY <2>1, <3>1, <3>2 DEF ConnOK, At
      <3>4. QED BY <1>1, <1>4, <3>1, <3>2, <3>3, LocalStep
    <2>8. CASE CheckApplied(c)
      <3>1. At(c, "check") /\ UNCHANGED <<wal, walOwner, table, applied, ran, writer>>
        BY <2>8 DEF CheckApplied
      <3>2. CASE conn[c].next > Last
        <4>1. Goto(c, "open")
          BY <2>8, <3>2 DEF CheckApplied
        <4>2. /\ Moves(c) /\ conn'[c].at = "open" /\ conn'[c].next = conn[c].next
              /\ conn'[c].done = conn[c].done
          BY <1>3, <4>1, GotoMoves DEF Steps
        <4>3. ConnOK(c)'
          BY <2>1, <3>1, <3>2, <4>2, LastAssumption DEF ConnOK, At
        <4>4. QED BY <1>1, <1>4, <3>1, <4>2, <4>3, LocalStep
      <3>3. CASE conn[c].next \in 1 .. Last /\ conn[c].next \in applied
        <4> DEFINE state == [conn[c] EXCEPT !.next = @ + 1]
        <4>1. Become(c, state)
          BY <2>8, <3>3, LastAssumption DEF CheckApplied
        <4>2. /\ state \in ConnState /\ state.at = "check"
              /\ state.next = conn[c].next + 1 /\ state.done = conn[c].done
          BY <2>1, <3>1, <3>3, LastAssumption DEF ConnState, At
        <4> HIDE DEF state
        <4>3. Moves(c) /\ conn'[c] = state
          BY <1>3, <4>1, <4>2, BecomeMoves
        <4>4. ConnOK(c)'
          <5>1. \A k \in 1 .. Last : k < conn'[c].next => k \in applied'
            BY <2>1, <3>1, <3>3, <4>2, <4>3, LastAssumption DEF ConnOK
          <5>2. QED BY <2>1, <3>1, <4>2, <4>3, <5>1 DEF ConnOK, At
        <4>5. QED BY <1>1, <1>4, <3>1, <4>3, <4>4, LocalStep
      <3>4. CASE conn[c].next \in 1 .. Last /\ conn[c].next \notin applied
        <4>1. Goto(c, "begin")
          BY <2>8, <3>4, LastAssumption DEF CheckApplied
        <4>2. /\ Moves(c) /\ conn'[c].at = "begin" /\ conn'[c].next = conn[c].next
              /\ conn'[c].done = conn[c].done
          BY <1>3, <4>1, GotoMoves DEF Steps
        <4>3. ConnOK(c)'
          BY <2>1, <3>1, <3>4, <4>2 DEF ConnOK, At, Migrations
        <4>4. QED BY <1>1, <1>4, <3>1, <4>2, <4>3, LocalStep
      <3>5. QED BY <2>1, <3>2, <3>3, <3>4, LastAssumption
    <2>9. CASE BeginImmediate(c)
      <3>1. Goto(c, "recheck") /\ At(c, "begin") /\ writer = None /\ writer' = c
            /\ UNCHANGED <<wal, walOwner, table, applied, ran>>
        BY <2>9 DEF BeginImmediate
      <3>2. /\ Moves(c) /\ conn'[c].at = "recheck" /\ conn'[c].next = conn[c].next
            /\ conn'[c].done = conn[c].done
        BY <1>3, <3>1, GotoMoves DEF Steps
      <3>3. ConnOK(c)'
        BY <2>1, <3>1, <3>2 DEF ConnOK, At
      <3>4. \A d \in Conns \ {c} : writer' = d <=> writer = d
        BY <3>1, NoneIsNoConn
      <3>5. QED BY <1>1, <1>4, <3>1, <3>2, <3>3, <3>4, LocalStep
    <2>10. CASE Recheck(c)
      <3>1. At(c, "recheck") /\ UNCHANGED <<wal, walOwner, table, applied, ran, writer>>
            /\ Goto(c, IF conn[c].next \in applied THEN "commit" ELSE "apply")
        BY <2>10 DEF Recheck
      <3>2. PICK s \in {"commit", "apply"} :
               Goto(c, s) /\ (s = "commit" <=> conn[c].next \in applied)
        BY <3>1
      <3>3. /\ Moves(c) /\ conn'[c].at = s /\ conn'[c].next = conn[c].next
            /\ conn'[c].done = conn[c].done
        BY <1>3, <3>2, GotoMoves DEF Steps
      <3>4. ConnOK(c)'
        BY <2>1, <3>1, <3>2, <3>3 DEF ConnOK, At
      <3>5. QED BY <1>1, <1>4, <3>1, <3>3, <3>4, LocalStep
    <2>11. CASE Apply(c)
      <3> DEFINE state == [conn[c] EXCEPT !.at = "commit", !.done = TRUE]
      <3>1. At(c, "apply") /\ UNCHANGED <<wal, walOwner, table, applied, ran>>
        BY <2>11 DEF Apply
      <3>2. conn[c].next \in Migrations /\ conn[c].next \notin applied
        BY <2>1, <3>1 DEF ConnOK, At
      <3>3. ran[conn[c].next] = 0
        BY <1>2, <3>2 DEF ExactlyOnce
      <3>4. Become(c, state) /\ UNCHANGED writer
        BY <2>11, <3>3 DEF Apply
      <3>5. /\ state \in ConnState /\ state.at = "commit" /\ state.done = TRUE
            /\ state.next = conn[c].next
        BY <2>1 DEF ConnState, Steps
      <3> HIDE DEF state
      <3>6. Moves(c) /\ conn'[c] = state
        BY <1>3, <3>4, <3>5, BecomeMoves
      <3>7. ConnOK(c)'
        BY <2>1, <3>1, <3>2, <3>4, <3>5, <3>6 DEF ConnOK, At
      <3>8. QED BY <1>1, <1>4, <3>1, <3>4, <3>6, <3>7, LocalStep
    <2>12. CASE Commit(c)
      <3> DEFINE state == [conn[c] EXCEPT !.at = "check", !.next = @ + 1, !.done = FALSE]
      <3>1. /\ At(c, "commit") /\ Become(c, state) /\ writer' = None
            /\ UNCHANGED <<wal, walOwner, table>>
        BY <2>12 DEF Commit
      <3>2. PICK m \in Migrations :
               /\ m = conn[c].next /\ wal /\ writer = c
               /\ \A k \in 1 .. Last : k < m => k \in applied
               /\ conn[c].done <=> m \notin applied
        BY <2>1, <3>1 DEF ConnOK, At
      <3>3. /\ state \in ConnState /\ state.at = "check" /\ state.next = m + 1
            /\ ~state.done
        <4>1. m + 1 \in 1 .. Last + 1
          BY LastAssumption DEF Migrations
        <4>2. state \in ConnState
          BY <2>1, <3>2, <4>1 DEF ConnState, Steps
        <4>3. state.at = "check" /\ state.next = m + 1 /\ ~state.done
          BY <2>1, <3>2 DEF ConnState
        <4>4. QED BY <4>2, <4>3
      <3> HIDE DEF state
      <3>4. Moves(c) /\ conn'[c] = state
        BY <1>3, <3>1, <3>3, BecomeMoves
      <3>5. applied' = applied \cup {m}
        BY <2>12, <3>2 DEF Commit
      <3>6. ran' = [ran EXCEPT ![m] = 1]
        <4>1. /\ ran \in [Migrations -> Nat]
              /\ ran[m] = IF m \in applied THEN 1 ELSE 0
          BY <1>2 DEF TypeOK, ExactlyOnce
        <4>2. CASE m \in applied
          BY <2>12, <3>2, <4>1, <4>2 DEF Commit
        <4>3. CASE m \notin applied
          <5>1. ran' = [ran EXCEPT ![m] = ran[m] + 1]
            BY <2>12, <3>2, <4>3 DEF Commit
          <5>2. ran[m] + 1 = 1
            BY <4>1, <4>3
          <5>3. QED BY <5>1, <5>2
        <4>4. QED BY <4>2, <4>3
      <3>7. TypeOK'
        BY <1>2, <3>1, <3>2, <3>4, <3>5, <3>6 DEF TypeOK, Moves
      <3>8. ExactlyOnce'
        BY <1>2, <3>2, <3>5, <3>6 DEF TypeOK, ExactlyOnce
      <3>9. InOrder'
        <4>1. SUFFICES ASSUME NEW i \in applied', NEW k \in 1 .. i PROVE k \in applied'
          BY DEF InOrder
        <4>2. CASE i = m
          BY <3>2, <3>5, <4>1, <4>2, LastAssumption DEF Migrations
        <4>3. CASE i \in applied
          BY <1>2, <3>5, <4>3 DEF InOrder
        <4>4. QED BY <3>5, <4>2, <4>3
      <3>10. ConnOK(c)'
        <4>1. \A k \in 1 .. Last : k < conn'[c].next => k \in applied'
          BY <3>2, <3>3, <3>4, <3>5, LastAssumption DEF Migrations
        <4>2. QED BY <3>1, <3>2, <3>3, <3>4, <4>1, NoneIsNoConn DEF ConnOK
      <3>11. ASSUME NEW d \in Conns \ {c} PROVE ConnOK(d)'
        <4>1. conn'[d] = conn[d]
          BY <3>4 DEF Moves
        <4>2. ConnOK(d)
          BY <1>2
        <4>3. conn[d].at \notin {"recheck", "apply", "commit"}
          BY <3>2, <4>2 DEF ConnOK
        <4>4. QED BY <3>1, <3>5, <4>1, <4>2, <4>3, NoneIsNoConn DEF ConnOK
      <3>12. QED BY <3>7, <3>8, <3>9, <3>10, <3>11 DEF MigrateInv
    <2>13. CASE BeginTimedOut(c)
      <3>1. Goto(c, "failed") /\ At(c, "begin") /\ c \in MayTimeOut
            /\ UNCHANGED <<wal, walOwner, table, applied, ran, writer>>
        BY <2>13 DEF BeginTimedOut
      <3>2. /\ Moves(c) /\ conn'[c].at = "failed" /\ conn'[c].next = conn[c].next
            /\ conn'[c].done = conn[c].done
        BY <1>3, <3>1, GotoMoves DEF Steps
      <3>3. ConnOK(c)'
        BY <2>1, <3>1, <3>2 DEF ConnOK, At
      <3>4. QED BY <1>1, <1>4, <3>1, <3>2, <3>3, LocalStep
    <2>14. CASE Close(c)
      <3>1. Become(c, Closed) /\ At(c, "open")
            /\ UNCHANGED <<wal, walOwner, table, applied, ran, writer>>
        BY <2>14 DEF Close
      <3>2. Moves(c) /\ conn'[c] = Closed
        BY <1>3, <1>5, <3>1, BecomeMoves
      <3>3. ConnOK(c)'
        BY <1>5, <2>1, <3>1, <3>2, AttemptsAssumption DEF ConnOK, At
      <3>4. QED BY <1>1, <1>4, <3>1, <3>2, <3>3, LocalStep
    <2>15. CASE Die(c)
      <3> DEFINE state == [Closed EXCEPT !.at = "dead"]
      <3>1. /\ Become(c, state) /\ UNCHANGED <<wal, table, applied, ran>>
            /\ writer' = IF writer = c THEN None ELSE writer
            /\ walOwner' = IF walOwner = c THEN None ELSE walOwner
        BY <2>15 DEF Die
      <3> HIDE DEF state
      <3>2. Moves(c) /\ conn'[c] = state /\ state.at = "dead" /\ state.next = 1 /\ ~state.done
        BY <1>3, <1>5, <3>1, BecomeMoves DEF state
      <3>3. ConnOK(c)'
        BY <3>1, <3>2, NoneIsNoConn DEF ConnOK
      <3>4. \A d \in Conns \ {c} : writer' = d <=> writer = d
        BY <3>1, NoneIsNoConn
      <3>5. QED BY <1>1, <1>4, <3>1, <3>2, <3>3, <3>4, LocalStep
    <2>16. QED BY <1>6, <2>2, <2>3, <2>4, <2>5, <2>6, <2>7, <2>8, <2>9, <2>10, <2>11,
                  <2>12, <2>13, <2>14, <2>15 DEF Step
  <1>7. CASE UNCHANGED vars
    <2>1. TypeOK' /\ ExactlyOnce' /\ InOrder'
      BY <1>2, <1>7 DEF vars, TypeOK, ExactlyOnce, InOrder
    <2>2. \A c \in Conns : ConnOK(c)'
      BY <1>2, <1>7 DEF vars, ConnOK
    <2>3. QED BY <2>1, <2>2 DEF MigrateInv
  <1>8. QED BY <1>1, <1>6, <1>7 DEF Next

\* Migrations are exactly once, in order, and complete when `open` returns,
\* and no connection fails on account of losing a race.
THEOREM MigrationIsSafe ==
    Spec => [](ExactlyOnce /\ InOrder /\ OpenIsMigrated /\ LosersSucceed)
  <1>1. MigrateInv => ExactlyOnce /\ InOrder /\ OpenIsMigrated /\ LosersSucceed
    BY InvariantSuffices DEF MigrateInv
  <1>2. QED BY <1>1, MigrateInitially, MigrateStep, PTL DEF Spec

-----------------------------------------------------------------------------
(* AvStarters                                                              *)

Seeding == {"marker", "row", "blocked", "insert", "embed", "mark"}

Active(c) == pass[c].at \in Seeding

InTransaction(c) == conn[c].at \in {"recheck", "apply", "commit"}

\* The fields the steps update.
Located(f) ==
    /\ DOMAIN f = Starters
    /\ \A l \in Starters : {"row", "whole", "marked", "blocked"} \subseteq DOMAIN f[l]

ConnShaped == \A c \in Conns : c \in DOMAIN conn /\ "at" \in DOMAIN conn[c]

PassShaped ==
    \A c \in Conns :
        /\ c \in DOMAIN pass
        /\ {"at", "left", "on"} \subseteq DOMAIN pass[c]
        /\ pass[c].at \in Seeding \cup {"idle", "user_embed", "booted"}

\* A migration that is being applied, and a pass, hold the write lock; a pass
\* has a connection that was opened; without one there is no draft.
Locked ==
    /\ \A c \in Conns : InTransaction(c) => writer = c
    /\ \A c \in Conns : Active(c) => At(c, "open") /\ writer = c
    /\ (\A c \in Conns : ~Active(c)) => draft = store

\* What a pass has read still holds: of the starters it has not come to, and of
\* the one it is at until it stores it.
PassOK(c) ==
    Active(c) =>
        /\ pass[c].left \subseteq Starters
        /\ pass[c].on \in Starters \/ (pass[c].on = None /\ pass[c].at = "marker")
        /\ pass[c].on \notin pass[c].left
        /\ \A l \in pass[c].left : draft[l] = store[l]
        /\ pass[c].at \in {"row", "blocked", "insert"} \/ (pass[c].at = "marker" /\ pass[c].on # None)
              => draft[pass[c].on] = store[pass[c].on]
        /\ pass[c].at \in {"row", "blocked", "insert"} => ~draft[pass[c].on].marked
        /\ pass[c].at \in {"blocked", "insert"} => draft[pass[c].on].row = "none"
        /\ pass[c].at = "insert" => ~draft[pass[c].on].blocked
        /\ pass[c].at \in {"embed", "mark"} => draft[pass[c].on].row = "starter"
        /\ pass[c].at = "mark" => draft[pass[c].on].whole

HasRoom(l) == store[l].row = "none" /\ ~store[l].marked /\ ~store[l].blocked

\* The draft holds a new starter only where there is room for it, and holds it
\* whole and marked but for the one a pass is storing.
Fits == \A l \in Starters : draft[l].row = "starter" /\ store[l].row # "starter" => HasRoom(l)

Storing(l) == \E c \in Conns : pass[c].at \in {"embed", "mark"} /\ pass[c].on = l

DraftIsWhole ==
    \A l \in Starters :
        draft[l].row = "starter" => (draft[l].whole /\ draft[l].marked) \/ Storing(l)

SeedInv ==
    /\ Located(store) /\ Located(draft) /\ ConnShaped /\ PassShaped
    /\ Locked
    /\ \A c \in Conns : PassOK(c)
    /\ Fits
    /\ DraftIsWhole
    /\ SeededIsWhole

\* A file with no starters satisfies the invariant.
LEMMA SeedInitially == StartersInit => SeedInv
  <1>1. SUFFICES ASSUME StartersInit PROVE SeedInv
    OBVIOUS
  <1>2. /\ conn = [c \in Conns |-> Closed] /\ draft = store
        /\ store = [l \in Starters |-> Fresh] /\ pass = [c \in Conns |-> NoPass]
    BY <1>1 DEF StartersInit, Init
  <1>3. \A c \in Conns : ~Active(c) /\ pass[c].at = "idle"
    BY <1>2 DEF Active, NoPass, Seeding
  <1>4. Located(store) /\ Located(draft) /\ ConnShaped /\ PassShaped
    BY <1>2 DEF Located, ConnShaped, PassShaped, Closed, Fresh, NoPass
  <1>5. Locked
    BY <1>2, <1>3 DEF Locked, InTransaction, Closed
  <1>6. \A c \in Conns : PassOK(c)
    BY <1>3 DEF PassOK
  <1>7. Fits /\ DraftIsWhole /\ SeededIsWhole
    BY <1>2 DEF Fits, DraftIsWhole, SeededIsWhole, Fresh
  <1>8. QED BY <1>4, <1>5, <1>6, <1>7 DEF SeedInv

\* Two passes are never open at once.
LEMMA OnePass ==
  ASSUME SeedInv, NEW c \in Conns, NEW d \in Conns, Active(c), Active(d)
  PROVE  c = d
  BY DEF SeedInv, Locked

\* Without a pass, what is drafted is what is stored.
LEMMA NoDraft ==
  ASSUME SeedInv, writer = None
  PROVE  draft = store /\ \A c \in Conns : ~Active(c)
  BY NoneIsNoConn DEF SeedInv, Locked

-----------------------------------------------------------------------------
(* Opening and migrating                                                   *)

\* A connection that steps inside open touches no other, keeps the lock in
\* order, and has no pass.
LEMMA StepLocks ==
  ASSUME SeedInv, NEW c \in Conns, Step(c) \/ BeginTimedOut(c) \/ (Close(c) /\ In(c, "idle"))
  PROVE  /\ ConnShaped'
         /\ \A d \in Conns \ {c} : conn'[d] = conn[d] /\ (writer' = d <=> writer = d)
         /\ InTransaction(c)' => writer' = c
         /\ ~Active(c)
  <1>1. ConnShaped /\ (InTransaction(c) => writer = c) /\ (Active(c) => At(c, "open"))
    BY DEF SeedInv, Locked
  <1>2. ASSUME NEW s, Goto(c, s)
        PROVE  /\ ConnShaped' /\ conn'[c].at = s
               /\ \A d \in Conns \ {c} : conn'[d] = conn[d]
    BY <1>1, <1>2 DEF ConnShaped, Goto, Become
  <1>3. ASSUME NEW r, Become(c, r), "at" \in DOMAIN r
        PROVE  /\ ConnShaped' /\ conn'[c] = r
               /\ \A d \in Conns \ {c} : conn'[d] = conn[d]
    BY <1>1, <1>3 DEF ConnShaped, Become
  <1>4. CASE Open(c) \/ SwitchToWal(c) \/ Switched(c) \/ AlreadyWal(c) \/ CreateTable(c) \/ BeginTimedOut(c)
    BY <1>1, <1>2, <1>4 DEF Open, SwitchToWal, Switched, AlreadyWal, CreateTable, BeginTimedOut,
       InTransaction, At
  <1>5. CASE WalBusy(c)
    <2> DEFINE s == IF conn[c].attempt + 1 = Attempts THEN "failed" ELSE "wal"
               r == [conn[c] EXCEPT !.attempt = @ + 1, !.at = s]
    <2>1. s \in {"failed", "wal"} /\ r.at = s /\ "at" \in DOMAIN r
      BY <1>1 DEF ConnShaped
    <2>2. At(c, "wal") /\ Become(c, r) /\ UNCHANGED writer
      BY <1>5 DEF WalBusy
    <2> HIDE DEF s, r
    <2>3. conn'[c].at = s /\ ConnShaped' /\ \A d \in Conns \ {c} : conn'[d] = conn[d]
      BY <1>3, <2>1, <2>2
    <2>4. QED BY <1>1, <2>1, <2>2, <2>3 DEF InTransaction, At, Active
  <1>6. CASE CheckApplied(c)
    <2>1. \/ Goto(c, "open") \/ Goto(c, "begin")
          \/ Become(c, [conn[c] EXCEPT !.next = @ + 1])
      BY <1>6 DEF CheckApplied
    <2>2. CASE Become(c, [conn[c] EXCEPT !.next = @ + 1])
      <3>1. conn'[c].at = conn[c].at /\ ConnShaped' /\ \A d \in Conns \ {c} : conn'[d] = conn[d]
        BY <1>1, <1>3, <2>2 DEF ConnShaped
      <3>2. QED BY <1>1, <1>6, <3>1 DEF CheckApplied, InTransaction, At
    <2>3. CASE Goto(c, "open") \/ Goto(c, "begin")
      BY <1>1, <1>2, <1>6, <2>3 DEF CheckApplied, InTransaction, At
    <2>4. QED BY <2>1, <2>2, <2>3
  <1>7. CASE BeginImmediate(c)
    BY <1>1, <1>2, <1>7, NoneIsNoConn DEF BeginImmediate, InTransaction, At
  <1>8. CASE Recheck(c)
    BY <1>1, <1>2, <1>8 DEF Recheck, InTransaction, At
  <1>9. CASE Apply(c)
    <2>1. writer = c /\ ~Active(c)
      BY <1>1, <1>9 DEF Apply, InTransaction, At
    <2>2. CASE Goto(c, "failed") /\ writer' = None
      BY <1>2, <2>1, <2>2, NoneIsNoConn DEF InTransaction
    <2>3. CASE Become(c, [conn[c] EXCEPT !.at = "commit", !.done = TRUE]) /\ UNCHANGED writer
      BY <1>1, <1>3, <2>1, <2>3 DEF ConnShaped
    <2>4. QED BY <1>9, <2>2, <2>3 DEF Apply
  <1>10. CASE Commit(c)
    <2>1. writer = c /\ ~Active(c) /\ writer' = None
      BY <1>1, <1>10 DEF Commit, InTransaction, At
    <2> DEFINE r == [conn[c] EXCEPT !.at = "check", !.next = @ + 1, !.done = FALSE]
    <2>2. r.at = "check" /\ "at" \in DOMAIN r
      BY <1>1 DEF ConnShaped
    <2>3. Become(c, r)
      BY <1>10 DEF Commit
    <2> HIDE DEF r
    <2>4. conn'[c].at = "check" /\ ConnShaped' /\ \A d \in Conns \ {c} : conn'[d] = conn[d]
      BY <1>3, <2>2, <2>3
    <2>5. QED BY <2>1, <2>4, NoneIsNoConn DEF InTransaction
  <1>11. CASE Close(c) /\ In(c, "idle")
    BY <1>1, <1>3, <1>11 DEF Close, In, Closed, InTransaction, Active, Seeding
  <1>12. QED
    BY <1>4, <1>5, <1>6, <1>7, <1>8, <1>9, <1>10, <1>11 DEF Step

\* The lock and the passes do not meet while a connection opens.
LEMMA OpeningKeeps == ASSUME NEW c \in Conns PROVE SeedInv /\ Opening(c) => SeedInv'
  <1>1. SUFFICES ASSUME SeedInv, Opening(c) PROVE SeedInv'
    OBVIOUS
  <1>2. CASE (Step(c) \/ BeginTimedOut(c) \/ (Close(c) /\ In(c, "idle"))) /\ UNCHANGED starterVars
    <2>1. /\ ConnShaped'
          /\ \A d \in Conns \ {c} : conn'[d] = conn[d] /\ (writer' = d <=> writer = d)
          /\ InTransaction(c)' => writer' = c
          /\ ~Active(c)
      BY <1>1, <1>2, StepLocks
    <2>2. Locked'
      <3>1. /\ \A d \in Conns : Active(d)' <=> Active(d)
            /\ \A d \in Conns \ {c} : InTransaction(d)' <=> InTransaction(d)
            /\ \A d \in Conns \ {c} : At(d, "open")' <=> At(d, "open")
        BY <1>2, <2>1 DEF Active, InTransaction, At, starterVars
      <3>2. QED BY <1>1, <1>2, <2>1, <3>1 DEF SeedInv, Locked, starterVars
    <2>3. QED
      BY <1>1, <1>2, <2>1, <2>2 DEF SeedInv, Located, PassShaped, PassOK, Active, Fits, HasRoom,
         DraftIsWhole, Storing, SeededIsWhole, starterVars
  <1>3. CASE /\ Die(c)
             /\ draft' = IF writer = c THEN store ELSE draft
             /\ pass' = [pass EXCEPT ![c] = NoPass]
             /\ UNCHANGED <<store, boots>>
    <2>1. /\ ConnShaped' /\ conn'[c].at = "dead"
          /\ \A d \in Conns \ {c} : conn'[d] = conn[d]
      BY <1>1, <1>3 DEF SeedInv, ConnShaped, Die, Become, Closed
    <2>2. /\ PassShaped' /\ ~Active(c)' /\ pass'[c].at = "idle"
          /\ \A d \in Conns \ {c} : pass'[d] = pass[d]
      BY <1>1, <1>3 DEF SeedInv, PassShaped, NoPass, Active, Seeding
    <2>3. \A d \in Conns \ {c} : writer' = d <=> writer = d
      BY <1>3, NoneIsNoConn DEF Die
    <2>4. CASE writer = c
      <3>1. draft' = store' /\ \A d \in Conns : ~Active(d)'
        BY <1>1, <1>3, <2>2, <2>4 DEF SeedInv, Locked, Active
      <3>2. Locked'
        BY <1>1, <2>1, <2>3, <3>1 DEF SeedInv, Locked, InTransaction
      <3>3. \A d \in Conns : PassOK(d)'
        BY <3>1 DEF PassOK
      <3>4. Located(store)' /\ Located(draft)' /\ Fits' /\ DraftIsWhole' /\ SeededIsWhole'
        BY <1>1, <1>3, <3>1 DEF SeedInv, Located, Fits, DraftIsWhole, SeededIsWhole
      <3>5. QED BY <2>1, <2>2, <3>2, <3>3, <3>4 DEF SeedInv
    <2>5. CASE writer # c
      <3>1. draft' = draft /\ store' = store /\ ~Active(c)
        BY <1>1, <1>3, <2>5 DEF SeedInv, Locked
      <3>2. Locked'
        BY <1>1, <2>1, <2>2, <2>3, <3>1 DEF SeedInv, Locked, InTransaction, Active, At
      <3>3. \A d \in Conns : PassOK(d)'
        BY <1>1, <2>2, <3>1 DEF SeedInv, PassOK, Active
      <3>4. \A l \in Starters : Storing(l) => Storing(l)'
        BY <2>2, <3>1 DEF Storing, Active, Seeding
      <3>5. Located(store)' /\ Located(draft)' /\ Fits' /\ DraftIsWhole' /\ SeededIsWhole'
        BY <1>1, <3>1, <3>4 DEF SeedInv, Located, Fits, HasRoom, DraftIsWhole, SeededIsWhole
      <3>6. QED BY <2>1, <2>2, <3>2, <3>3, <3>5 DEF SeedInv
    <2>6. QED BY <2>4, <2>5
  <1>4. QED BY <1>1, <1>2, <1>3 DEF Opening
-----------------------------------------------------------------------------
(* A pass                                                                  *)

\* Only the pass of connection c moves, to state p, with the lock it holds.
Passes(c, p) ==
    /\ pass' = [pass EXCEPT ![c] = p]
    /\ {"at", "left", "on"} \subseteq DOMAIN p
    /\ p.at \in Seeding
    /\ UNCHANGED <<conn, writer, store>>

\* A step inside a pass keeps the invariant when it keeps that pass in order and
\* the draft fit to be committed.
LEMMA WithinPass ==
  ASSUME SeedInv, NEW c \in Conns, NEW p, Passes(c, p), At(c, "open"), writer = c,
         Located(draft)', PassOK(c)', Fits', DraftIsWhole'
  PROVE  SeedInv'
  <1>1. /\ pass'[c] = p /\ Active(c)'
        /\ \A d \in Conns \ {c} : pass'[d] = pass[d] /\ ~Active(d) /\ ~Active(d)'
    BY DEF SeedInv, Passes, PassShaped, Locked, Active
  <1>2. PassShaped' /\ ConnShaped' /\ Located(store)' /\ SeededIsWhole'
    BY <1>1 DEF SeedInv, Passes, PassShaped, ConnShaped, Located, SeededIsWhole, Active
  <1>3. Locked'
    BY <1>1 DEF SeedInv, Passes, Locked, InTransaction, At
  <1>4. \A d \in Conns : PassOK(d)'
    BY <1>1 DEF PassOK
  <1>5. QED BY <1>2, <1>3, <1>4 DEF SeedInv

\* What is known at any statement of a pass, and where Advance leads.
LEMMA InsidePass ==
  ASSUME SeedInv, NEW c \in Conns, Active(c)
  PROVE  /\ At(c, "open") /\ writer = c /\ Located(draft) /\ Located(store)
         /\ c \in DOMAIN pass /\ {"at", "left", "on"} \subseteq DOMAIN pass[c]
         /\ \A l \in Starters : Storing(l) =>
                pass[c].at \in {"embed", "mark"} /\ pass[c].on = l
  BY DEF SeedInv, Locked, PassShaped, Storing, Active, Seeding

LEMMA AdvancePasses ==
  ASSUME SeedInv, NEW c \in Conns, Active(c), NEW s \in Seeding, Advance(c, s),
         UNCHANGED <<conn, writer, store>>
  PROVE  \E p : Passes(c, p) /\ pass'[c] = p /\ p.at = s /\ p.on = pass[c].on
                 /\ p.left = pass[c].left
  <1> DEFINE p == [pass[c] EXCEPT !.at = s]
  <1>1. /\ {"at", "left", "on"} \subseteq DOMAIN p
        /\ p.at = s /\ p.on = pass[c].on /\ p.left = pass[c].left
    BY InsidePass
  <1>2. pass' = [pass EXCEPT ![c] = p]
    BY DEF Advance
  <1>3. pass'[c] = p
    BY <1>2, InsidePass
  <1> HIDE DEF p
  <1>4. QED BY <1>1, <1>2, <1>3 DEF Passes

\* The pass comes to another starter, or to its end.
LEMMA NextPasses ==
  ASSUME SeedInv, NEW c \in Conns, Active(c), NextStarter(c),
         UNCHANGED <<conn, writer, store>>
  PROVE  \E p : /\ Passes(c, p) /\ pass'[c] = p /\ p.at = "marker"
                /\ p.left \subseteq pass[c].left /\ p.on \notin p.left
                /\ p.on \in pass[c].left \/ (p.on = None /\ p.left = {})
  <1>1. CASE \E l \in pass[c].left :
               pass' = [pass EXCEPT ![c] = [at |-> "marker", left |-> @.left \ {l}, on |-> l]]
    <2>1. PICK l \in pass[c].left :
             pass' = [pass EXCEPT ![c] = [at |-> "marker", left |-> pass[c].left \ {l}, on |-> l]]
      BY <1>1
    <2> DEFINE p == [at |-> "marker", left |-> pass[c].left \ {l}, on |-> l]
    <2>2. pass' = [pass EXCEPT ![c] = p] /\ pass'[c] = p
      BY <2>1, InsidePass
    <2>3. /\ {"at", "left", "on"} \subseteq DOMAIN p /\ p.at = "marker"
          /\ p.left \subseteq pass[c].left /\ p.on \notin p.left /\ p.on \in pass[c].left
      OBVIOUS
    <2> HIDE DEF p
    <2>4. QED BY <2>2, <2>3 DEF Passes, Seeding
  <1>2. CASE pass' = [pass EXCEPT ![c] = [at |-> "marker", left |-> {}, on |-> None]]
    <2> DEFINE p == [at |-> "marker", left |-> {}, on |-> None]
    <2>1. pass' = [pass EXCEPT ![c] = p] /\ pass'[c] = p
      BY <1>2, InsidePass
    <2>2. /\ {"at", "left", "on"} \subseteq DOMAIN p /\ p.at = "marker"
          /\ p.left = {} /\ p.on = None
      OBVIOUS
    <2> HIDE DEF p
    <2>3. QED BY <2>1, <2>2 DEF Passes, Seeding
  <1>3. QED BY <1>1, <1>2 DEF NextStarter

\* A pass begins with nothing drafted, and with the lock.
LEMMA BeginKeeps == ASSUME NEW c \in Conns PROVE SeedInv /\ BeginPass(c) => SeedInv'
  <1>1. SUFFICES ASSUME SeedInv, BeginPass(c) PROVE SeedInv'
    OBVIOUS
  <1>2. draft = store /\ \A d \in Conns : ~Active(d)
    BY <1>1, NoDraft DEF BeginPass
  <1>3. PICK l \in Starters :
           pass' = [pass EXCEPT ![c] = [at |-> "marker", left |-> Starters \ {l}, on |-> l]]
    BY <1>1 DEF BeginPass
  <1>4. /\ pass'[c] = [at |-> "marker", left |-> Starters \ {l}, on |-> l]
        /\ \A d \in Conns \ {c} : pass'[d] = pass[d]
        /\ PassShaped'
    BY <1>1, <1>3 DEF SeedInv, PassShaped, Seeding
  <1>5. Active(c)' /\ \A d \in Conns \ {c} : ~Active(d)'
    BY <1>2, <1>4 DEF Active, Seeding
  <1>6. /\ draft' = store /\ store' = store /\ conn' = conn /\ writer' = c
        /\ At(c, "open") /\ writer = None
    BY <1>1 DEF BeginPass
  <1>7. Locked'
    BY <1>1, <1>5, <1>6, NoneIsNoConn DEF SeedInv, Locked, InTransaction, At
  <1>8. PassOK(c)'
    BY <1>4, <1>6 DEF PassOK
  <1>9. Located(store)' /\ Located(draft)' /\ ConnShaped' /\ SeededIsWhole'
    BY <1>1, <1>2, <1>6 DEF SeedInv, Located, ConnShaped, SeededIsWhole
  <1>10. Fits' /\ DraftIsWhole'
    BY <1>1, <1>6 DEF SeedInv, Fits, DraftIsWhole, SeededIsWhole
  <1>11. QED BY <1>4, <1>5, <1>7, <1>8, <1>9, <1>10 DEF SeedInv, PassOK

\* The three reads of a pass: the marker, the row, the block.
LEMMA ReadsKeep ==
  ASSUME NEW c \in Conns
  PROVE  SeedInv /\ (IsSeeded(c) \/ SkipBlocked(c) \/ (Adopt(c) /\ UNCHANGED draft)) => SeedInv'
  <1>1. SUFFICES ASSUME SeedInv, IsSeeded(c) \/ SkipBlocked(c) \/ (Adopt(c) /\ UNCHANGED draft)
                 PROVE  SeedInv'
    OBVIOUS
  <1>2. /\ pass[c].at \in {"marker", "row", "blocked"} /\ Active(c) /\ PassOK(c)
        /\ UNCHANGED <<conn, writer, store, draft>>
    BY <1>1 DEF IsSeeded, SkipBlocked, Adopt, In, Active, Seeding, SeedInv, vars
  <1>3. /\ At(c, "open") /\ writer = c /\ Located(draft)'
        /\ \A l \in Starters : ~Storing(l)
    BY <1>1, <1>2, InsidePass DEF Located
  <1>4. Fits' /\ DraftIsWhole'
    BY <1>1, <1>2, <1>3 DEF SeedInv, Fits, HasRoom, DraftIsWhole
  <1>5. CASE NextStarter(c)
    <2>1. PICK p : /\ Passes(c, p) /\ pass'[c] = p /\ p.at = "marker"
                   /\ p.left \subseteq pass[c].left /\ p.on \notin p.left
                   /\ p.on \in pass[c].left \/ (p.on = None /\ p.left = {})
      BY <1>1, <1>2, <1>5, NextPasses
    <2>2. PassOK(c)'
      BY <1>2, <2>1 DEF PassOK
    <2>3. QED BY <1>1, <1>3, <1>4, <2>1, <2>2, WithinPass
  <1>6. ASSUME NEW s \in {"row", "blocked", "insert"}, Advance(c, s),
               \/ s = "row" /\ IsSeeded(c) /\ ~Here(c).marked
               \/ s = "blocked" /\ Adopt(c) /\ Here(c).row = "none"
               \/ s = "insert" /\ SkipBlocked(c) /\ ~Here(c).blocked
        PROVE  SeedInv'
    <2>1. PICK p : /\ Passes(c, p) /\ pass'[c] = p /\ p.at = s /\ p.on = pass[c].on
                   /\ p.left = pass[c].left
      BY <1>1, <1>2, <1>6, AdvancePasses DEF Seeding
    <2>2. PassOK(c)'
      BY <1>2, <1>6, <2>1 DEF PassOK, IsSeeded, SkipBlocked, Adopt, In, Here
    <2>3. QED BY <1>1, <1>3, <1>4, <2>1, <2>2, WithinPass
  <1>7. CASE IsSeeded(c)
    BY <1>5, <1>6, <1>7 DEF IsSeeded
  <1>8. CASE SkipBlocked(c)
    BY <1>5, <1>6, <1>8 DEF SkipBlocked
  <1>9. CASE Adopt(c) /\ Here(c).row = "none"
    BY <1>5, <1>6, <1>9 DEF Adopt
  <1>10. CASE Adopt(c) /\ UNCHANGED draft /\ Here(c).row # "none"
    BY <1>5, <1>10 DEF Adopt
  <1>11. QED BY <1>1, <1>7, <1>8, <1>9, <1>10

\* A statement of the pass changes the draft of its starter, to location v.
LEMMA PutChanges ==
  ASSUME SeedInv, NEW c \in Conns, Active(c), pass[c].on \in Starters, NEW v, Put(c, v),
         {"row", "whole", "marked", "blocked"} \subseteq DOMAIN v
  PROVE  /\ Located(draft)' /\ draft'[pass[c].on] = v
         /\ \A l \in Starters \ {pass[c].on} : draft'[l] = draft[l]
  BY InsidePass DEF Put, Located

\* The starter is stored, whole from the next statement on, marked at the last.
LEMMA StoringKeeps ==
  ASSUME NEW c \in Conns
  PROVE  SeedInv /\ (InsertStarter(c) \/ EmbedStarter(c)) => SeedInv'
  <1>1. SUFFICES ASSUME SeedInv, InsertStarter(c) \/ EmbedStarter(c) PROVE SeedInv'
    OBVIOUS
  <1>2. /\ pass[c].at \in {"insert", "embed"} /\ Active(c) /\ PassOK(c)
        /\ UNCHANGED <<conn, writer, store>>
    BY <1>1 DEF InsertStarter, EmbedStarter, In, Active, Seeding, SeedInv, vars
  <1> DEFINE on == pass[c].on
  <1>3. /\ on \in Starters /\ on \notin pass[c].left /\ pass[c].left \subseteq Starters
        /\ \A l \in pass[c].left : draft[l] = store[l]
    BY <1>2 DEF PassOK
  <1>4. /\ At(c, "open") /\ writer = c /\ Located(draft) /\ Located(store)
        /\ \A l \in Starters : Storing(l) => l = on
    BY <1>1, <1>2, InsidePass
  <1>5. CASE InsertStarter(c)
    <2> DEFINE v == [draft[on] EXCEPT !.row = "starter", !.whole = FALSE]
    <2>1. v.row = "starter" /\ {"row", "whole", "marked", "blocked"} \subseteq DOMAIN v
      BY <1>3, <1>4 DEF Located
    <2>2. Put(c, v) /\ Advance(c, "embed")
      BY <1>5 DEF InsertStarter, Here
    <2> HIDE DEF v
    <2>3. Located(draft)' /\ draft'[on].row = "starter"
          /\ \A l \in Starters \ {on} : draft'[l] = draft[l]
      BY <1>1, <1>2, <1>3, <2>1, <2>2, PutChanges
    <2>4. PICK p : /\ Passes(c, p) /\ pass'[c] = p /\ p.at = "embed" /\ p.on = on
                   /\ p.left = pass[c].left
      BY <1>1, <1>2, <2>2, AdvancePasses DEF Seeding
    <2>5. HasRoom(on)
      BY <1>2, <1>3, <1>5 DEF PassOK, HasRoom, InsertStarter, In
    <2>6. Fits'
      BY <1>1, <1>2, <2>3, <2>5 DEF SeedInv, Fits, HasRoom
    <2>7. \A l \in Starters : l = on => Storing(l)'
      BY <2>4 DEF Storing
    <2>8. DraftIsWhole'
      BY <1>1, <1>4, <2>3, <2>7 DEF SeedInv, DraftIsWhole
    <2>9. PassOK(c)'
      BY <1>2, <1>3, <2>3, <2>4 DEF PassOK
    <2>10. QED BY <1>1, <1>4, <2>3, <2>4, <2>6, <2>8, <2>9, WithinPass
  <1>6. CASE EmbedStarter(c)
    <2> DEFINE v == [draft[on] EXCEPT !.whole = TRUE]
    <2>1. /\ v.row = draft[on].row /\ v.whole
          /\ {"row", "whole", "marked", "blocked"} \subseteq DOMAIN v
      BY <1>3, <1>4 DEF Located
    <2>2. Put(c, v) /\ Advance(c, "mark")
      BY <1>6 DEF EmbedStarter, Here
    <2> HIDE DEF v
    <2>3. /\ Located(draft)' /\ draft'[on].row = draft[on].row /\ draft'[on].whole
          /\ \A l \in Starters \ {on} : draft'[l] = draft[l]
      BY <1>1, <1>2, <1>3, <2>1, <2>2, PutChanges
    <2>4. PICK p : /\ Passes(c, p) /\ pass'[c] = p /\ p.at = "mark" /\ p.on = on
                   /\ p.left = pass[c].left
      BY <1>1, <1>2, <2>2, AdvancePasses DEF Seeding
    <2>5. draft[on].row = "starter"
      BY <1>2, <1>6 DEF PassOK, EmbedStarter, In
    <2>6. Fits'
      BY <1>1, <1>2, <2>3 DEF SeedInv, Fits, HasRoom
    <2>7. \A l \in Starters : l = on => Storing(l)'
      BY <2>4 DEF Storing
    <2>8. DraftIsWhole'
      BY <1>1, <1>4, <2>3, <2>7 DEF SeedInv, DraftIsWhole
    <2>9. PassOK(c)'
      BY <1>2, <1>3, <2>3, <2>4, <2>5 DEF PassOK
    <2>10. QED BY <1>1, <1>4, <2>3, <2>4, <2>6, <2>8, <2>9, WithinPass
  <1>7. QED BY <1>1, <1>5, <1>6

\* A location is marked: of a row that was there, or of the starter just stored.
LEMMA MarksKeep ==
  ASSUME NEW c \in Conns
  PROVE  SeedInv /\ (MarkSeeded(c) \/ (Adopt(c) /\ Here(c).row # "none")) => SeedInv'
  <1>1. SUFFICES ASSUME SeedInv, MarkSeeded(c) \/ (Adopt(c) /\ Here(c).row # "none")
                 PROVE  SeedInv'
    OBVIOUS
  <1> DEFINE on == pass[c].on
             v == [draft[on] EXCEPT !.marked = TRUE]
  <1>2. /\ pass[c].at \in {"row", "mark"} /\ Active(c) /\ PassOK(c)
        /\ UNCHANGED <<conn, writer, store>> /\ Put(c, v) /\ NextStarter(c)
    BY <1>1 DEF MarkSeeded, Adopt, Here, In, Active, Seeding, SeedInv, vars
  <1>3. /\ on \in Starters /\ on \notin pass[c].left /\ pass[c].left \subseteq Starters
        /\ \A l \in pass[c].left : draft[l] = store[l]
    BY <1>2 DEF PassOK
  <1>4. /\ At(c, "open") /\ writer = c /\ Located(draft) /\ Located(store)
        /\ \A l \in Starters : Storing(l) => pass[c].at = "mark" /\ l = on
    BY <1>1, <1>2, InsidePass
  <1>5. /\ v.row = draft[on].row /\ v.whole = draft[on].whole /\ v.marked
        /\ {"row", "whole", "marked", "blocked"} \subseteq DOMAIN v
    BY <1>3, <1>4 DEF Located
  <1> HIDE DEF v
  <1>6. /\ Located(draft)' /\ draft'[on] = v
        /\ \A l \in Starters \ {on} : draft'[l] = draft[l]
    BY <1>1, <1>2, <1>3, <1>5, PutChanges
  <1>7. PICK p : /\ Passes(c, p) /\ pass'[c] = p /\ p.at = "marker"
                 /\ p.left \subseteq pass[c].left /\ p.on \notin p.left
                 /\ p.on \in pass[c].left \/ (p.on = None /\ p.left = {})
    BY <1>1, <1>2, NextPasses
  <1>8. PassOK(c)'
    BY <1>2, <1>3, <1>6, <1>7 DEF PassOK
  <1>9. Fits'
    BY <1>1, <1>2, <1>5, <1>6 DEF SeedInv, Fits, HasRoom
  <1>10. draft[on].row = "starter" => draft[on].whole
    BY <1>1, <1>2, <1>3, <1>4 DEF PassOK, SeedInv, DraftIsWhole
  <1>11. DraftIsWhole'
    BY <1>1, <1>4, <1>5, <1>6, <1>10 DEF SeedInv, DraftIsWhole
  <1>12. QED BY <1>1, <1>4, <1>6, <1>7, <1>8, <1>9, <1>11, WithinPass

\* A pass ends, with all of its draft committed or none of it.
LEMMA EndKeeps ==
  ASSUME NEW c \in Conns
  PROVE  SeedInv /\ (CommitPass(c) \/ (c \in Servers /\ AbortPass(c))) => SeedInv'
  <1>1. SUFFICES ASSUME SeedInv, CommitPass(c) \/ AbortPass(c) PROVE SeedInv'
    OBVIOUS
  <1>2. /\ Active(c) /\ conn' = conn /\ writer' = None /\ draft' = store'
        /\ pass' = [pass EXCEPT ![c] = [NoPass EXCEPT !.at = "booted"]]
    BY <1>1 DEF CommitPass, AbortPass, In, Active, Seeding, SeedInv, PassShaped
  <1>3. At(c, "open") /\ writer = c /\ Located(draft) /\ Located(store)
    BY <1>1, <1>2, InsidePass
  <1>4. \A d \in Conns \ {c} : ~Active(d)
    BY <1>1, <1>2, OnePass
  <1>5. PassShaped' /\ \A d \in Conns : ~Active(d)'
    BY <1>1, <1>2, <1>4 DEF SeedInv, PassShaped, NoPass, Active, Seeding
  <1>6. Locked'
    BY <1>1, <1>2, <1>3, <1>5 DEF SeedInv, Locked, InTransaction, At
  <1>7. Located(store)' /\ Located(draft)' /\ ConnShaped'
    BY <1>1, <1>2, <1>3 DEF CommitPass, AbortPass, SeedInv, Located, ConnShaped
  <1>8. SeededIsWhole'
    <2>1. CASE AbortPass(c)
      BY <1>1, <2>1 DEF AbortPass, SeedInv, SeededIsWhole
    <2>2. CASE CommitPass(c)
      <3>1. \A l \in Starters : ~Storing(l)
        BY <1>1, <1>2, <2>2, InsidePass DEF CommitPass, In
      <3>2. QED BY <1>1, <2>2, <3>1 DEF CommitPass, SeedInv, DraftIsWhole, SeededIsWhole
    <2>3. QED BY <1>1, <2>1, <2>2
  <1>9. Fits' /\ DraftIsWhole'
    BY <1>2, <1>8 DEF Fits, DraftIsWhole, SeededIsWhole
  <1>10. QED BY <1>5, <1>6, <1>7, <1>8, <1>9 DEF SeedInv, PassOK

\* The server is stopped with no pass open.
LEMMA RestartKeeps == ASSUME NEW c \in Conns PROVE SeedInv /\ Restart(c) => SeedInv'
  <1>1. SUFFICES ASSUME SeedInv, Restart(c) PROVE SeedInv'
    OBVIOUS
  <1>2. /\ ~Active(c) /\ pass[c].at = "booted" /\ UNCHANGED <<writer, store, draft>>
        /\ conn' = [conn EXCEPT ![c] = Closed] /\ pass' = [pass EXCEPT ![c] = NoPass]
    BY <1>1 DEF Restart, In, Active, Seeding, Become
  <1>3. /\ ConnShaped' /\ ~InTransaction(c)'
        /\ \A d \in Conns \ {c} : conn'[d] = conn[d]
    BY <1>1, <1>2 DEF SeedInv, ConnShaped, Closed, InTransaction
  <1>4. /\ PassShaped' /\ ~Active(c)'
        /\ \A d \in Conns \ {c} : pass'[d] = pass[d]
    BY <1>1, <1>2 DEF SeedInv, PassShaped, NoPass, Active, Seeding
  <1>5. Locked'
    BY <1>1, <1>2, <1>3, <1>4 DEF SeedInv, Locked, InTransaction, Active, At
  <1>6. \A d \in Conns : PassOK(d)'
    BY <1>1, <1>2, <1>4 DEF SeedInv, PassOK, Active
  <1>7. \A l \in Starters : Storing(l) => Storing(l)'
    BY <1>2, <1>4 DEF Storing
  <1>8. Located(store)' /\ Located(draft)' /\ Fits' /\ DraftIsWhole' /\ SeededIsWhole'
    BY <1>1, <1>2, <1>7 DEF SeedInv, Located, Fits, HasRoom, DraftIsWhole, SeededIsWhole
  <1>9. QED BY <1>3, <1>4, <1>5, <1>6, <1>8 DEF SeedInv

-----------------------------------------------------------------------------
(* The other commands                                                      *)

\* One statement of another connection, which waits for the lock, makes no
\* starter, and leaves one that is there whole.
LEMMA WriteKeeps ==
  ASSUME NEW c \in Conns, NEW l, NEW v, SeedInv, Write(c, l, v),
         {"row", "whole", "marked", "blocked"} \subseteq DOMAIN v,
         v.row = "starter" /\ l \in Starters => store[l].row = "starter" /\ v.whole /\ v.marked,
         PassShaped', \A d \in Conns : ~Active(d)'
  PROVE  /\ SeedInv'
         /\ \A k \in Starters : store'[k].row = "starter" => store[k].row = "starter"
  <1>1. /\ UNCHANGED <<conn, writer>> /\ draft' = store'
        /\ store' = [store EXCEPT ![l] = v]
    BY DEF Write, vars
  <1>2. Located(store)
    BY DEF SeedInv
  <1>3. \A k \in Starters : (k = l /\ store'[k] = v) \/ store'[k] = store[k]
    BY <1>1, <1>2 DEF Located
  <1>4. Located(store)' /\ Located(draft)'
    BY <1>1, <1>2, <1>3 DEF Located
  <1>5. ConnShaped' /\ Locked'
    BY <1>1 DEF SeedInv, ConnShaped, Locked, InTransaction
  <1>6. /\ SeededIsWhole'
        /\ \A k \in Starters : store'[k].row = "starter" => store[k].row = "starter"
    BY <1>3 DEF SeedInv, SeededIsWhole
  <1>7. Fits' /\ DraftIsWhole'
    BY <1>1, <1>6 DEF Fits, DraftIsWhole, SeededIsWhole
  <1>8. QED BY <1>4, <1>5, <1>6, <1>7 DEF SeedInv, PassOK

LEMMA CommandKeeps ==
  ASSUME NEW c \in Conns
  PROVE  SeedInv /\ Command(c) =>
            /\ SeedInv'
            /\ \A k \in Starters : store'[k].row = "starter" => store[k].row = "starter"
  <1>1. SUFFICES ASSUME SeedInv, Command(c)
                 PROVE  /\ SeedInv'
                        /\ \A k \in Starters : store'[k].row = "starter" => store[k].row = "starter"
    OBVIOUS
  <1>2. writer = None
    BY <1>1 DEF Command, UserStores, UserEmbeds, Purge, SetBlock, Write
  <1>3. /\ Located(store) /\ PassShaped /\ SeededIsWhole
        /\ \A d \in Conns : ~Active(d)
    BY <1>1, <1>2, NoDraft DEF SeedInv
  <1>4. CASE UserEmbeds(c)
    <2> DEFINE l == pass[c].on
               v == [store[l] EXCEPT !.whole = (store[l].row # "none")]
    <2>1. Write(c, l, v) /\ pass' = [pass EXCEPT ![c] = NoPass]
      BY <1>4 DEF UserEmbeds
    <2>2. PassShaped' /\ \A d \in Conns : ~Active(d)'
      BY <1>3, <2>1 DEF PassShaped, Active, NoPass, Seeding
    <2>3. CASE l \in Starters
      <3>1. /\ {"row", "whole", "marked", "blocked"} \subseteq DOMAIN v
            /\ v.row = store[l].row /\ v.marked = store[l].marked
            /\ v.whole = (store[l].row # "none")
        BY <1>3, <2>3 DEF Located
      <3> HIDE DEF v, l
      <3>2. v.row = "starter" => store[l].row = "starter" /\ v.whole /\ v.marked
        BY <1>3, <2>3, <3>1 DEF SeededIsWhole
      <3>3. QED BY <1>1, <2>1, <2>2, <3>1, <3>2, WriteKeeps
    <2>4. CASE l \notin Starters
      <3>1. Write(c, l, Fresh)
        BY <1>3, <2>1, <2>4 DEF Write, Located
      <3>2. {"row", "whole", "marked", "blocked"} \subseteq DOMAIN Fresh /\ Fresh.row # "starter"
        BY DEF Fresh
      <3>3. QED BY <1>1, <2>2, <3>1, <3>2, WriteKeeps
    <2>5. QED BY <2>3, <2>4
  <1>5. ASSUME NEW l \in Starters, UserStores(c, l) \/ Purge(c, l) \/ SetBlock(c, l)
        PROVE  /\ SeedInv'
               /\ \A k \in Starters : store'[k].row = "starter" => store[k].row = "starter"
    <2>1. {"row", "whole", "marked", "blocked"} \subseteq DOMAIN store[l]
      BY <1>3 DEF Located
    <2>2. CASE UserStores(c, l)
      <3> DEFINE v == [store[l] EXCEPT !.row = "users", !.whole = FALSE]
                 p == [NoPass EXCEPT !.at = "user_embed", !.on = l]
      <3>1. Write(c, l, v) /\ pass' = [pass EXCEPT ![c] = p]
        BY <2>2 DEF UserStores
      <3>2. v.row # "starter" /\ {"row", "whole", "marked", "blocked"} \subseteq DOMAIN v
        BY <2>1
      <3>3. PassShaped' /\ \A d \in Conns : ~Active(d)'
        BY <1>3, <3>1 DEF PassShaped, Active, NoPass, Seeding
      <3> HIDE DEF v, p
      <3>4. QED BY <1>1, <3>1, <3>2, <3>3, WriteKeeps
    <2>3. CASE Purge(c, l)
      <3> DEFINE v == [store[l] EXCEPT !.row = "none", !.whole = FALSE]
      <3>1. Write(c, l, v) /\ UNCHANGED pass
        BY <2>3 DEF Purge
      <3>2. v.row # "starter" /\ {"row", "whole", "marked", "blocked"} \subseteq DOMAIN v
        BY <2>1
      <3>3. PassShaped' /\ \A d \in Conns : ~Active(d)'
        BY <1>3, <3>1 DEF PassShaped, Active
      <3> HIDE DEF v
      <3>4. QED BY <1>1, <3>1, <3>2, <3>3, WriteKeeps
    <2>4. CASE SetBlock(c, l)
      <3> DEFINE v == [store[l] EXCEPT !.blocked = ~@]
      <3>1. Write(c, l, v) /\ UNCHANGED pass
        BY <2>4 DEF SetBlock
      <3>2. /\ {"row", "whole", "marked", "blocked"} \subseteq DOMAIN v
            /\ v.row = store[l].row /\ v.whole = store[l].whole /\ v.marked = store[l].marked
        BY <2>1
      <3>3. PassShaped' /\ \A d \in Conns : ~Active(d)'
        BY <1>3, <3>1 DEF PassShaped, Active
      <3> HIDE DEF v
      <3>4. v.row = "starter" => store[l].row = "starter" /\ v.whole /\ v.marked
        BY <1>3, <3>2 DEF SeededIsWhole
      <3>5. QED BY <1>1, <3>1, <3>2, <3>3, <3>4, WriteKeeps
    <2>5. QED BY <1>5, <2>2, <2>3, <2>4
  <1>6. QED BY <1>1, <1>4, <1>5 DEF Command

-----------------------------------------------------------------------------
\* Every step keeps the invariant.
LEMMA SeedStepKeeps == SeedInv /\ [StartersNext]_allVars => SeedInv'
  <1>1. SUFFICES ASSUME SeedInv, [StartersNext]_allVars PROVE SeedInv'
    OBVIOUS
  <1>2. CASE \E c \in Conns : Opening(c)
    BY <1>1, <1>2, OpeningKeeps
  <1>3. ASSUME NEW c \in Servers, SeedStep(c) \/ AbortPass(c) \/ Restart(c) PROVE SeedInv'
    <2>1. c \in Conns
      BY RolesAssumption
    <2>2. CASE Adopt(c)
      <3>1. UNCHANGED draft \/ Here(c).row # "none"
        BY <2>2 DEF Adopt
      <3>2. QED BY <1>1, <2>1, <2>2, <3>1, ReadsKeep, MarksKeep
    <2>3. CASE BeginPass(c) \/ IsSeeded(c) \/ SkipBlocked(c)
      BY <1>1, <2>1, <2>3, BeginKeeps, ReadsKeep
    <2>4. CASE InsertStarter(c) \/ EmbedStarter(c) \/ MarkSeeded(c)
      BY <1>1, <2>1, <2>4, StoringKeeps, MarksKeep
    <2>5. CASE CommitPass(c) \/ AbortPass(c) \/ Restart(c)
      BY <1>1, <1>3, <2>1, <2>5, EndKeeps, RestartKeeps
    <2>6. QED BY <1>3, <2>2, <2>3, <2>4, <2>5 DEF SeedStep
  <1>4. CASE \E c \in Others : Command(c)
    BY <1>1, <1>4, CommandKeeps, RolesAssumption
  <1>5. CASE UNCHANGED allVars
    BY <1>1, <1>5 DEF allVars, vars, starterVars, SeedInv, Located, ConnShaped, PassShaped, Locked,
       InTransaction, Active, At, PassOK, Fits, HasRoom, DraftIsWhole, Storing, SeededIsWhole
  <1>6. QED BY <1>1, <1>2, <1>3, <1>4, <1>5 DEF StartersNext

\* What a step may add to the committed starters.
Lands ==
    \A l \in Starters : store[l].row # "starter" /\ store'[l].row = "starter" => HasRoom(l)

\* Only a commit adds one, and what it commits fits.
LEMMA StepLands == SeedInv /\ [StartersNext]_allVars => Lands
  <1>1. SUFFICES ASSUME SeedInv, [StartersNext]_allVars PROVE Lands
    OBVIOUS
  <1>2. CASE UNCHANGED store
    BY <1>2 DEF Lands
  <1>3. CASE \E c \in Servers : CommitPass(c)
    BY <1>1, <1>3 DEF CommitPass, SeedInv, Fits, Lands
  <1>4. CASE \E c \in Others : Command(c)
    BY <1>1, <1>4, CommandKeeps, RolesAssumption DEF Lands
  <1>5. CASE \E c \in Conns : Opening(c)
    BY <1>2, <1>5 DEF Opening, starterVars
  <1>6. CASE \E c \in Servers : (SeedStep(c) \/ AbortPass(c)) \/ Restart(c)
    BY <1>2, <1>3, <1>6 DEF SeedStep, BeginPass, IsSeeded, Adopt, SkipBlocked, InsertStarter,
       EmbedStarter, MarkSeeded, AbortPass, Restart
  <1>7. CASE UNCHANGED allVars
    BY <1>2, <1>7 DEF allVars, starterVars
  <1>8. QED BY <1>1, <1>4, <1>5, <1>6, <1>7 DEF StartersNext

(***************************************************************************)
(* A starter that is stored is found by search and is marked, wherever a   *)
(* pass of ensure_seeded failed or its server died (starters.rs).          *)
(***************************************************************************)
THEOREM SeedingIsWhole == StartersSpec => []SeededIsWhole
  <1>1. SeedInv => SeededIsWhole
    BY DEF SeedInv
  <1>2. QED BY <1>1, SeedInitially, SeedStepKeeps, PTL DEF StartersSpec

(***************************************************************************)
(* A starter lands only on a location with no row, not settled before and  *)
(* not blocked at the instant of the COMMIT: what the pass read a          *)
(* transaction ago still holds, because it has held the lock ever since.   *)
(***************************************************************************)
THEOREM StartersLandInRoom == StartersSpec => LandsWhereThereIsRoom
  <1>1. SeedInv /\ [StartersNext]_allVars =>
           [\A l \in Starters :
               store[l].row # "starter" /\ store'[l].row = "starter" =>
                   store[l].row = "none" /\ ~store[l].marked /\ ~store[l].blocked]_allVars
    BY StepLands DEF Lands, HasRoom
  <1>2. QED BY <1>1, SeedInitially, SeedStepKeeps, PTL DEF StartersSpec, LandsWhereThereIsRoom

-----------------------------------------------------------------------------
(* The migrations while servers seed                                       *)

\* Nobody is in the middle of a migration when the lock is free, or held by one
\* whose connection is open.
LEMMA LockOfOthers ==
  ASSUME MigrateInv, NEW c \in Conns, writer = None \/ (writer = c /\ At(c, "open")),
         NEW d \in Conns
  PROVE  conn[d].at \notin {"recheck", "apply", "commit"}
  BY NoneIsNoConn DEF MigrateInv, ConnOK, At

\* What leaves the connections and the file alone, and takes or frees the lock
\* while nobody migrates, keeps the invariant of the migrations.
LEMMA LockKeeps ==
  ASSUME MigrateInv, NEW c \in Conns, writer = None \/ (writer = c /\ At(c, "open")),
         UNCHANGED <<wal, walOwner, table, applied, ran, conn>>, writer' \in Conns \cup {None}
  PROVE  MigrateInv'
  <1>1. TypeOK' /\ ExactlyOnce' /\ InOrder'
    BY DEF MigrateInv, TypeOK, ExactlyOnce, InOrder
  <1>2. ASSUME NEW d \in Conns PROVE ConnOK(d)'
    <2>1. ConnOK(d) /\ conn[d].at \notin {"recheck", "apply", "commit"}
      BY LockOfOthers DEF MigrateInv
    <2>2. QED BY <2>1 DEF ConnOK
  <1>3. QED BY <1>1, <1>2 DEF MigrateInv

\* A server that starts again opens the file anew.
LEMMA RestartMigrates == ASSUME NEW c \in Conns PROVE MigrateInv /\ Restart(c) => MigrateInv'
  <1>1. SUFFICES ASSUME MigrateInv, Restart(c) PROVE MigrateInv'
    OBVIOUS
  <1>2. /\ Become(c, Closed) /\ UNCHANGED <<wal, walOwner, table, applied, ran, writer>>
        /\ conn \in [Conns -> ConnState] /\ TypeOK
    BY <1>1 DEF Restart, MigrateInv, TypeOK
  <1>3. /\ Closed \in ConnState
        /\ Closed.at = "closed" /\ Closed.next = 1 /\ Closed.attempt = 0 /\ ~Closed.done
    BY LastAssumption, AttemptsAssumption DEF Closed, ConnState, Steps
  <1>4. Moves(c) /\ conn'[c] = Closed
    BY <1>2, <1>3, BecomeMoves
  <1>5. ConnOK(c)'
    BY <1>3, <1>4, AttemptsAssumption DEF ConnOK
  <1>6. QED BY <1>1, <1>2, <1>4, <1>5, LocalStep DEF TypeOK

\* No step of a server or of a command disturbs the migrations: a pass holds the
\* lock only while its own connection is open.
LEMMA StartersMigrate == MigrateInv /\ SeedInv /\ [StartersNext]_allVars => MigrateInv'
  <1>1. SUFFICES ASSUME MigrateInv, SeedInv, [StartersNext]_allVars PROVE MigrateInv'
    OBVIOUS
  <1>2. CASE \E c \in Conns : Opening(c)
    <2>1. [Next]_vars
      BY <1>2 DEF Opening, Next
    <2>2. QED BY <1>1, <2>1, MigrateStep
  <1>3. CASE \E c \in Servers : BeginPass(c)
    <2>1. PICK c \in Conns : BeginPass(c)
      BY <1>3, RolesAssumption
    <2>2. QED BY <1>1, <2>1, LockKeeps DEF BeginPass
  <1>4. CASE \E c \in Servers : CommitPass(c) \/ AbortPass(c)
    <2>1. PICK c \in Conns : CommitPass(c) \/ AbortPass(c)
      BY <1>4, RolesAssumption
    <2>2. Active(c)
      BY <1>1, <2>1 DEF CommitPass, AbortPass, In, Active, Seeding, SeedInv, PassShaped
    <2>3. writer = c /\ At(c, "open")
      BY <1>1, <2>2 DEF SeedInv, Locked
    <2>4. writer' = None /\ UNCHANGED <<wal, walOwner, table, applied, ran, conn>>
      BY <2>1 DEF CommitPass, AbortPass
    <2>5. QED BY <1>1, <2>3, <2>4, LockKeeps
  <1>5. CASE \E c \in Servers : Restart(c)
    BY <1>1, <1>5, RestartMigrates, RolesAssumption
  <1>6. CASE UNCHANGED vars
    BY <1>1, <1>6, MigrateStep
  <1>7. CASE \E c \in Servers : SeedStep(c) /\ ~BeginPass(c) /\ ~CommitPass(c)
    <2>1. UNCHANGED vars
      BY <1>7 DEF SeedStep, IsSeeded, Adopt, SkipBlocked, InsertStarter, EmbedStarter, MarkSeeded
    <2>2. QED BY <1>6, <2>1
  <1>8. CASE \E c \in Others : Command(c)
    <2>1. UNCHANGED vars
      BY <1>8 DEF Command, UserEmbeds, UserStores, Purge, SetBlock, Write
    <2>2. QED BY <1>6, <2>1
  <1>9. CASE UNCHANGED allVars
    BY <1>6, <1>9 DEF allVars
  <1>10. QED BY <1>1, <1>2, <1>3, <1>4, <1>5, <1>7, <1>8, <1>9 DEF StartersNext

(***************************************************************************)
(* Each migration runs exactly once, in order, before `open` returns, and  *)
(* no connection fails for having lost a race, while servers seed and      *)
(* restart and commands write: the lock of db.rs is also theirs.           *)
(***************************************************************************)
THEOREM MigrationsBesideSeeding ==
    StartersSpec => [](ExactlyOnce /\ InOrder /\ OpenIsMigrated /\ LosersSucceed)
  <1>1. MigrateInv => ExactlyOnce /\ InOrder /\ OpenIsMigrated /\ LosersSucceed
    BY InvariantSuffices DEF MigrateInv
  <1>2. StartersInit => MigrateInv /\ SeedInv
    BY MigrateInitially, SeedInitially DEF StartersInit
  <1>3. MigrateInv /\ SeedInv /\ [StartersNext]_allVars => (MigrateInv /\ SeedInv)'
    BY StartersMigrate, SeedStepKeeps
  <1>4. QED BY <1>1, <1>2, <1>3, PTL DEF StartersSpec

-----------------------------------------------------------------------------
(* Type correctness                                                        *)

\* The part of StartersTypeOK that is not of Migrate.
SeedTyped ==
    /\ store \in [Starters -> Location]
    /\ draft \in [Starters -> Location]
    /\ pass \in [Conns -> PassState]
    /\ boots \in 0 .. MaxBoots

\* A location that is written somewhere, or nowhere: `on` may be None.
LEMMA PutTyped ==
  ASSUME NEW f \in [Starters -> Location], NEW l, NEW v, l \in Starters => v \in Location
  PROVE  [f EXCEPT ![l] = v] \in [Starters -> Location]
  OBVIOUS

\* The columns of a location are written one by one.
LEMMA LocationTyped ==
  ASSUME NEW v \in Location, NEW w \in BOOLEAN,
         NEW row \in {"none", "users", "starter"}
  PROVE  /\ [v EXCEPT !.marked = TRUE] \in Location
         /\ [v EXCEPT !.whole = w] \in Location
         /\ [v EXCEPT !.row = row, !.whole = FALSE] \in Location
         /\ [v EXCEPT !.blocked = ~@] \in Location
  BY DEF Location

\* A connection that is given up, or that begins something, has a typed pass.
LEMMA PassTyped ==
  ASSUME NEW c \in Conns, pass \in [Conns -> PassState],
         NEW q \in PassState, pass' = [pass EXCEPT ![c] = q]
  PROVE  pass' \in [Conns -> PassState]
  OBVIOUS

\* The passes that are written as constants.
LEMMA NoPassTyped ==
  /\ NoPass \in PassState
  /\ [NoPass EXCEPT !.at = "booted"] \in PassState
  /\ \A l \in Starters : [NoPass EXCEPT !.at = "user_embed", !.on = l] \in PassState
  /\ \A l \in Starters, S \in SUBSET Starters :
        [at |-> "marker", left |-> S, on |-> l] \in PassState
  BY DEF NoPass, PassState

\* Going on to the next starter, or to the next statement.
LEMMA GoesOnTyped ==
  ASSUME NEW c \in Conns, pass \in [Conns -> PassState],
         \/ NextStarter(c)
         \/ \E s \in {"row", "blocked", "insert", "embed", "mark"} : Advance(c, s)
  PROVE  pass' \in [Conns -> PassState]
  <1>1. pass[c] \in PassState
    OBVIOUS
  <1>2. CASE NextStarter(c)
    <2>1. CASE \E l \in pass[c].left :
                  pass' = [pass EXCEPT ![c] = [at |-> "marker", left |-> @.left \ {l}, on |-> l]]
      BY <1>1, <2>1 DEF PassState
    <2>2. CASE pass' = [pass EXCEPT ![c] = [at |-> "marker", left |-> {}, on |-> None]]
      BY <1>1, <2>2 DEF PassState
    <2>3. QED BY <1>2, <2>1, <2>2 DEF NextStarter
  <1>3. CASE \E s \in {"row", "blocked", "insert", "embed", "mark"} : Advance(c, s)
    BY <1>1, <1>3 DEF PassState, Advance
  <1>4. QED BY <1>2, <1>3

\* The statements of the pass.
LEMMA PassStepTyped ==
  ASSUME SeedTyped, NEW c \in Conns, SeedStep(c) \/ AbortPass(c), UNCHANGED boots
  PROVE  SeedTyped'
  <1>1. pass[c].on \in Starters => Here(c) \in Location
    BY DEF SeedTyped, Here
  <1>2. CASE BeginPass(c)
    <2>1. PICK l \in Starters :
              pass' = [pass EXCEPT ![c] = [at |-> "marker", left |-> Starters \ {l}, on |-> l]]
      BY <1>2 DEF BeginPass
    <2>2. pass' \in [Conns -> PassState]
      BY <2>1, NoPassTyped, PassTyped DEF SeedTyped
    <2>3. QED BY <1>2, <2>2 DEF BeginPass, SeedTyped
  <1>3. CASE IsSeeded(c) \/ SkipBlocked(c)
    <2>1. pass' \in [Conns -> PassState]
      BY <1>3, GoesOnTyped DEF IsSeeded, SkipBlocked, SeedTyped
    <2>2. QED BY <1>3, <2>1 DEF IsSeeded, SkipBlocked, SeedTyped
  <1>4. CASE Adopt(c)
    <2>1. pass' \in [Conns -> PassState]
      BY <1>4, GoesOnTyped DEF Adopt, SeedTyped
    <2>2. draft' \in [Starters -> Location]
      BY <1>1, <1>4, LocationTyped, PutTyped DEF Adopt, Put, SeedTyped
    <2>3. QED BY <1>4, <2>1, <2>2 DEF Adopt, SeedTyped
  <1>5. CASE InsertStarter(c) \/ EmbedStarter(c) \/ MarkSeeded(c)
    <2>1. pass' \in [Conns -> PassState]
      BY <1>5, GoesOnTyped DEF InsertStarter, EmbedStarter, MarkSeeded, SeedTyped
    <2>2. draft' \in [Starters -> Location]
      <3>1. \E v : Put(c, v) /\ (pass[c].on \in Starters => v \in Location)
        <4>1. CASE InsertStarter(c)
          BY <1>1, <4>1, LocationTyped DEF InsertStarter
        <4>2. CASE EmbedStarter(c)
          BY <1>1, <4>2, LocationTyped DEF EmbedStarter
        <4>3. CASE MarkSeeded(c)
          BY <1>1, <4>3, LocationTyped DEF MarkSeeded
        <4>4. QED BY <1>5, <4>1, <4>2, <4>3
      <3>2. QED BY <3>1, PutTyped DEF Put, SeedTyped
    <2>3. QED BY <1>5, <2>1, <2>2 DEF InsertStarter, EmbedStarter, MarkSeeded, SeedTyped
  <1>6. CASE CommitPass(c) \/ AbortPass(c)
    <2>1. pass' \in [Conns -> PassState]
      BY <1>6, NoPassTyped, PassTyped DEF CommitPass, AbortPass, SeedTyped
    <2>2. QED BY <1>6, <2>1 DEF CommitPass, AbortPass, SeedTyped
  <1>7. QED BY <1>2, <1>3, <1>4, <1>5, <1>6 DEF SeedStep

\* The other commands.
LEMMA CommandTyped ==
  ASSUME SeedTyped, NEW c \in Conns, Command(c), UNCHANGED boots
  PROVE  SeedTyped'
  <1>1. CASE UserEmbeds(c)
    <2> DEFINE l == pass[c].on
               v == [store[l] EXCEPT !.whole = (store[l].row # "none")]
    <2>1. l \in Starters => v \in Location
      BY LocationTyped DEF SeedTyped
    <2>2. store' = [store EXCEPT ![l] = v] /\ draft' = store'
      BY <1>1 DEF UserEmbeds, Write
    <2>3. pass' \in [Conns -> PassState]
      BY <1>1, NoPassTyped, PassTyped DEF UserEmbeds, SeedTyped
    <2> HIDE DEF l, v
    <2>4. QED BY <2>1, <2>2, <2>3, PutTyped DEF SeedTyped
  <1>2. ASSUME NEW l \in Starters, UserStores(c, l) PROVE SeedTyped'
    <2>1. [store[l] EXCEPT !.row = "users", !.whole = FALSE] \in Location
      BY LocationTyped DEF SeedTyped
    <2>2. pass' \in [Conns -> PassState]
      BY <1>2, NoPassTyped, PassTyped DEF UserStores, SeedTyped
    <2>3. QED BY <1>2, <2>1, <2>2, PutTyped DEF UserStores, Write, SeedTyped
  <1>3. ASSUME NEW l \in Starters, Purge(c, l) PROVE SeedTyped'
    <2>1. [store[l] EXCEPT !.row = "none", !.whole = FALSE] \in Location
      BY LocationTyped DEF SeedTyped
    <2>2. QED BY <1>3, <2>1, PutTyped DEF Purge, Write, SeedTyped
  <1>4. ASSUME NEW l \in Starters, SetBlock(c, l) PROVE SeedTyped'
    <2>1. [store[l] EXCEPT !.blocked = ~@] \in Location
      BY LocationTyped DEF SeedTyped
    <2>2. QED BY <1>4, <2>1, PutTyped DEF SetBlock, Write, SeedTyped
  <1>5. QED BY <1>1, <1>2, <1>3, <1>4 DEF Command

\* Every step.
LEMMA SeedTypedStep == SeedTyped /\ [StartersNext]_allVars => SeedTyped'
  <1>1. SUFFICES ASSUME SeedTyped, [StartersNext]_allVars PROVE SeedTyped'
    OBVIOUS
  <1>2. ASSUME NEW c \in Conns, Opening(c) PROVE SeedTyped'
    <2>1. CASE UNCHANGED starterVars
      BY <1>1, <2>1 DEF starterVars, SeedTyped
    <2>2. CASE /\ draft' = IF writer = c THEN store ELSE draft
               /\ pass' = [pass EXCEPT ![c] = NoPass]
               /\ UNCHANGED <<store, boots>>
      BY <1>1, <2>2, NoPassTyped, PassTyped DEF SeedTyped
    <2>3. QED BY <1>2, <2>1, <2>2 DEF Opening
  <1>3. ASSUME NEW c \in Servers, Restart(c) PROVE SeedTyped'
    <2>1. c \in Conns
      BY RolesAssumption
    <2>2. pass' \in [Conns -> PassState]
      BY <1>1, <1>3, <2>1, NoPassTyped, PassTyped DEF Restart, SeedTyped
    <2>3. boots' \in 0 .. MaxBoots
      BY <1>1, <1>3, BootsAssumption DEF Restart, SeedTyped
    <2>4. QED BY <1>1, <1>3, <2>2, <2>3 DEF Restart, SeedTyped
  <1>4. CASE UNCHANGED allVars
    BY <1>1, <1>4 DEF allVars, starterVars, SeedTyped
  <1>5. QED BY <1>1, <1>2, <1>3, <1>4, PassStepTyped, CommandTyped, RolesAssumption
            DEF StartersNext

(***************************************************************************)
(* Whatever servers and commands do to the file, both halves of the state  *)
(* keep their types: what is committed about a starter, the draft of the   *)
(* open transaction, and where every pass of ensure_seeded is.             *)
(***************************************************************************)
THEOREM StartersTypeCorrect == StartersSpec => []StartersTypeOK
  <1>1. StartersInit => SeedTyped
    <2>1. Fresh \in Location
      BY DEF Fresh, Location
    <2>2. NoPass \in PassState
      BY NoPassTyped
    <2>3. MaxBoots \in 0 .. MaxBoots
      BY BootsAssumption
    <2>4. QED BY <2>1, <2>2, <2>3 DEF StartersInit, SeedTyped
  <1>2. StartersInit => MigrateInv /\ SeedInv
    BY MigrateInitially, SeedInitially DEF StartersInit
  <1>3. MigrateInv /\ SeedInv /\ [StartersNext]_allVars => (MigrateInv /\ SeedInv)'
    BY StartersMigrate, SeedStepKeeps
  <1>4. MigrateInv /\ SeedTyped => StartersTypeOK
    BY DEF MigrateInv, SeedTyped, StartersTypeOK
  <1>5. QED BY <1>1, <1>2, <1>3, <1>4, SeedTypedStep, PTL DEF StartersSpec

=============================================================================
