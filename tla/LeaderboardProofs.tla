-------------------------- MODULE LeaderboardProofs --------------------------
(***************************************************************************)
(* Proofs about Leaderboard, for any players, bets and failures.           *)
(***************************************************************************)
EXTENDS Leaderboard, TLAPS

LEMMA InitType == Init => TypeOK
BY PlayersAssumption DEF Init, TypeOK, Writers, Seen

(***************************************************************************)
(* The type invariant, one group of actions at a time.                     *)
(***************************************************************************)
LEMMA WorldType == TypeOK /\ World => TypeOK'
<1> SUFFICES ASSUME TypeOK, World PROVE TypeOK'
  OBVIOUS
<1> USE DEF TypeOK, negev, table, fetch, scan, watch, daemon
<1>1. CASE Publish
  BY <1>1 DEF Publish
<1>2. CASE Whistle
  BY <1>2 DEF Whistle
<1>3. ASSUME NEW b \in Bets, Resolve(b) PROVE TypeOK'
  BY <1>3 DEF Resolve
<1> QED BY <1>1, <1>2, <1>3 DEF World

LEMMA CopyType ==
  ASSUME TypeOK,
         Fetch \/ Prune \/ \E p \in Players : Upsert(p) \/ UpsertFails(p)
  PROVE  TypeOK'
<1> USE DEF TypeOK, negev, table, scan, watch, daemon
<1>1. CASE Fetch
  BY <1>1 DEF Fetch
<1>2. CASE Prune
  <2>1. members' \subseteq Players /\ faults' \in Nat
    BY <1>2 DEF Prune, Fault
  <2>2. pc' = "pruned" /\ pc = "writing"
    BY <1>2 DEF Prune
  <2>3. UNCHANGED <<version, roster, resolved, at, mine, got, gotRoster, todo, done,
                    shells, known, left, bet, state, notified, alerts, scored, dpc, total>>
    BY <1>2 DEF Prune, fetch
  <2> QED BY <2>1, <2>2, <2>3
<1>3. ASSUME NEW p \in Players, Upsert(p) PROVE TypeOK'
  <2>1. mine' \in Writers /\ at' \in [Players -> Nat] /\ members' \subseteq Players
    BY <1>3 DEF Upsert, Writers
  <2>2. todo' \subseteq gotRoster /\ done' \subseteq gotRoster
    BY <1>3 DEF Upsert
  <2>3. UNCHANGED <<version, roster, resolved, pc, got, gotRoster, shells, known, left, bet,
                    state, notified, alerts, scored, dpc, total, faults>>
    BY <1>3 DEF Upsert
  <2> QED BY <2>1, <2>2, <2>3
<1>4. ASSUME NEW p \in Players, UpsertFails(p) PROVE TypeOK'
  BY <1>4 DEF UpsertFails, Fault
<1> QED BY <1>1, <1>2, <1>3, <1>4

LEMMA ScanType ==
  ASSUME TypeOK,
         Scan \/ ScanFails \/ Alert \/ Finish \/ Killed
         \/ \E b \in Bets : Persist(b) \/ PersistFails(b)
  PROVE  TypeOK'
<1> USE PlayersAssumption DEF TypeOK, negev, table, fetch, daemon
<1>1. CASE Scan
  BY <1>1 DEF Scan, watch
<1>2. CASE ScanFails
  BY <1>2 DEF ScanFails, Fault, scan, watch
<1>3. CASE Alert
  <2>1. pc = "alerting" /\ bet \in Bets
    BY <1>3 DEF Alert
  <2>2. alerts' \in [Bets -> Nat]
    <3>1. alerts' = [alerts EXCEPT ![bet] = @ + 1] \/ alerts' = alerts
      BY <1>3 DEF Alert
    <3> QED BY <2>1, <3>1
  <2>3. notified' \subseteq Bets /\ faults' \in Nat
    BY <1>3, <2>1 DEF Alert, Fault
  <2>4. bet' = NoBet /\ pc' = "bets"
    BY <1>3 DEF Alert
  <2>5. UNCHANGED <<version, roster, resolved, members, at, mine, got, gotRoster, todo, done,
                    shells, known, left, state, scored, dpc, total>>
    BY <1>3 DEF Alert
  <2> QED BY <2>2, <2>3, <2>4, <2>5
<1>4. CASE Finish
  BY <1>4 DEF Finish, scan, watch
<1>5. CASE Killed
  BY <1>5 DEF Killed, Fault, watch
<1>6. ASSUME NEW b \in Bets, Persist(b) PROVE TypeOK'
  <2>1. state' \in [Bets -> Seen] /\ left' \subseteq Bets
    BY <1>6 DEF Persist, Seen
  <2>2. pc = "bets" /\ bet = NoBet
    BY <1>6 DEF Persist
  <2>3. \/ bet' = b /\ pc' = "alerting"
        \/ bet' = bet /\ pc' = pc
    BY <1>6 DEF Persist
  <2>4. UNCHANGED <<version, roster, resolved, members, at, mine, got, gotRoster, todo, done,
                    shells, known, notified, alerts, scored, dpc, total, faults>>
    BY <1>6 DEF Persist
  <2> QED BY <2>1, <2>2, <2>3, <2>4
<1>7. ASSUME NEW b \in Bets, PersistFails(b) PROVE TypeOK'
  BY <1>7 DEF PersistFails, Fault, watch
<1> QED BY <1>1, <1>2, <1>3, <1>4, <1>5, <1>6, <1>7

LEMMA TickType == TypeOK /\ Tick => TypeOK'
<1> SUFFICES ASSUME TypeOK, Tick PROVE TypeOK'
  OBVIOUS
<1> USE PlayersAssumption DEF TypeOK, negev, table, fetch, scan, watch, daemon
<1>1. \A n \in Nat : Store(n) => /\ members' \subseteq Players /\ at' \in [Players -> Nat]
                                /\ mine' \in Writers
  BY DEF Store, Writers
<1>2. CASE LocalUpdate
  BY <1>1, <1>2 DEF LocalUpdate
<1>3. CASE LocalRead
  BY <1>3 DEF LocalRead, Fault, MayWrite
<1>4. CASE LocalWrite
  BY <1>1, <1>4 DEF LocalWrite
<1> QED BY <1>2, <1>3, <1>4 DEF Tick

LEMMA StepType == TypeOK /\ [Next]_vars => TypeOK'
<1> SUFFICES ASSUME TypeOK, [Next]_vars PROVE TypeOK'
  OBVIOUS
<1>1. CASE World
  BY <1>1, WorldType
<1>2. CASE Fetch \/ Job \/ Trouble
  BY <1>2, CopyType, ScanType DEF Job, Trouble
<1>3. CASE Tick
  BY <1>3, TickType
<1>4. CASE UNCHANGED vars
  BY <1>4 DEF vars, TypeOK
<1> QED BY <1>1, <1>2, <1>3, <1>4 DEF Next

(***************************************************************************)
(* Every variable keeps its type.                                          *)
(***************************************************************************)
THEOREM TypeCorrect == Spec => []TypeOK
BY InitType, StepType, PTL DEF Spec

-----------------------------------------------------------------------------
(***************************************************************************)
(* The removal spares who was in the answer, and the tick writes Me's row  *)
(* only: what the copy has written is still there when it is over.         *)
(***************************************************************************)
THEOREM CopyHolds == Spec => []CopyFaithful
<1>1. Init => CopyFaithful
  BY DEF Init, CopyFaithful
<1>2. TypeOK /\ CopyFaithful /\ [Next]_vars => CopyFaithful'
  <2> SUFFICES ASSUME TypeOK, CopyFaithful, [Next]_vars PROVE CopyFaithful'
    OBVIOUS
  <2>1. ASSUME NEW p \in Players, Upsert(p) PROVE CopyFaithful'
    <3>1. /\ pc = "writing" /\ got' = got /\ done' = done \cup {p}
          /\ members' = members \cup {p} /\ at' = [at EXCEPT ![p] = got]
          /\ at \in [Players -> Nat] /\ done \subseteq Players
      BY <2>1 DEF Upsert, TypeOK
    <3>2. \A q \in done : q \in members /\ (q # Me => at[q] = got)
      BY <3>1 DEF CopyFaithful
    <3>3. \A q \in done' : q \in members' /\ (q # Me => at'[q] = got)
      BY <3>1, <3>2
    <3> QED BY <3>1, <3>3 DEF CopyFaithful
  <2>2. CASE Fetch
    BY <2>2 DEF Fetch, CopyFaithful
  <2>3. CASE Prune
    <3>1. pc = "writing" /\ UNCHANGED <<at, got, done>>
      BY <2>3 DEF Prune, fetch
    <3>2. done \cap Stale = {}
      BY DEF Stale, TypeOK
    <3>3. \A q \in members : q \notin Stale => q \in members'
      BY <2>3 DEF Prune
    <3> QED BY <3>1, <3>2, <3>3 DEF CopyFaithful
  <2>4. CASE Tick
    <3>1. ASSUME NEW n \in Nat, Store(n), UNCHANGED <<pc, got, done>>
          PROVE  CopyFaithful'
      <4>1. /\ members' = members \cup {Me} /\ at' = [at EXCEPT ![Me] = n]
            /\ at \in [Players -> Nat] /\ done \subseteq Players
        BY <3>1 DEF Store, TypeOK
      <4> QED BY <3>1, <4>1 DEF CopyFaithful
    <3>2. scored \in Nat /\ total \in Nat
      BY DEF TypeOK
    <3>3. LocalRead => CopyFaithful'
      BY DEF LocalRead, table, fetch, CopyFaithful
    <3> QED BY <2>4, <3>1, <3>2, <3>3 DEF Tick, LocalUpdate, LocalWrite, fetch
  <2>5. CASE World \/ Scan \/ Alert \/ Finish \/ Trouble \/ UNCHANGED vars
             \/ \E b \in Bets : Persist(b)
    <3>1. UNCHANGED <<members, at, got, done>>
      BY <2>5 DEF World, Publish, Whistle, Resolve, Scan, Alert, Finish, Trouble, UpsertFails,
                  ScanFails, Killed, PersistFails, Persist, vars, table, fetch
    <3>2. pc' \in {"writing", "pruned"} => pc \in {"writing", "pruned"}
      BY <2>5 DEF World, Publish, Whistle, Resolve, Scan, Alert, Finish, Trouble, UpsertFails,
                  ScanFails, Killed, PersistFails, Persist, vars
    <3> QED BY <3>1, <3>2 DEF CopyFaithful
  <2> QED BY <2>1, <2>2, <2>3, <2>4, <2>5 DEF Next, Job
<1> QED
  BY <1>1, <1>2, TypeCorrect, PTL DEF Spec

(***************************************************************************)
(* No step removes Me's row.                                               *)
(***************************************************************************)
THEOREM MyRowHolds == Spec => MyRowStays
<1>1. [Next]_vars => [(Me \in members) => (Me \in members')]_vars
  <2> SUFFICES ASSUME [Next]_vars, Me \in members PROVE Me \in members'
    OBVIOUS
  <2>1. CASE Prune
    BY <2>1 DEF Prune, Stale
  <2>2. ASSUME NEW p \in Players, Upsert(p) PROVE Me \in members'
    BY <2>2 DEF Upsert
  <2>3. CASE Tick
    BY <2>3 DEF Tick, LocalUpdate, LocalRead, LocalWrite, Store, table
  <2>4. CASE World \/ Fetch \/ Scan \/ Alert \/ Finish \/ Trouble \/ UNCHANGED vars
             \/ \E b \in Bets : Persist(b)
    BY <2>4 DEF World, Publish, Whistle, Resolve, Fetch, Scan, Alert, Finish, Trouble,
                UpsertFails, ScanFails, Killed, PersistFails, Persist, vars, table
  <2> QED BY <2>1, <2>2, <2>3, <2>4 DEF Next, Job
<1> QED BY <1>1, PTL DEF Spec, MyRowStays

-----------------------------------------------------------------------------
(***************************************************************************)
(* What is stored as resolved is resolved and was not alerted about by     *)
(* accident; a bet still to be looked at is as it was when the state was   *)
(* read; and the bet in hand has been stored, and not alerted about.       *)
(***************************************************************************)
Watched ==
  /\ \A b \in Bets : /\ alerts[b] <= 1
                     /\ alerts[b] # 0 => state[b] = "resolved"
                     /\ state[b] = "resolved" => b \in resolved
  /\ shells \subseteq resolved
  /\ pc \in {"bets", "alerting"} =>
       \A b \in left : state[b] = "resolved" => b \in known /\ b \in shells
  /\ pc = "alerting" => state[bet] = "resolved" /\ alerts[bet] = 0

LEMMA StepWatched == TypeOK /\ Watched /\ [Next]_vars => Watched'
<1> SUFFICES ASSUME TypeOK, Watched, [Next]_vars PROVE Watched'
  OBVIOUS
<1>0. /\ state \in [Bets -> Seen] /\ alerts \in [Bets -> Nat]
      /\ left \subseteq Bets /\ shells \subseteq Bets
      /\ pc = "alerting" => bet \in Bets
  BY DEF TypeOK
<1>1. ASSUME NEW b \in Bets, Resolve(b) PROVE Watched'
  BY <1>1 DEF Resolve, Watched, scan, watch
<1>2. CASE Scan
  <2>1. /\ shells' = resolved /\ known' = {b \in Bets : state[b] = "resolved"}
        /\ pc' = "bets" /\ left' = Bets /\ UNCHANGED <<state, alerts, resolved>>
    BY <1>2 DEF Scan, watch, negev
  <2> QED BY <2>1 DEF Watched
<1>3. ASSUME NEW b \in Bets, Persist(b) PROVE Watched'
  <2>1. /\ pc = "bets" /\ b \in left /\ left' = left \ {b}
        /\ UNCHANGED <<shells, known, alerts, resolved>>
        /\ \A c \in Bets : c # b => state'[c] = state[c]
        /\ state'[b] = IF b \in shells THEN "resolved" ELSE "open"
    BY <1>0, <1>3 DEF Persist, negev
  <2>2. \A c \in Bets : /\ alerts'[c] <= 1
                        /\ alerts'[c] # 0 => state'[c] = "resolved"
                        /\ state'[c] = "resolved" => c \in resolved'
    <3> SUFFICES ASSUME NEW c \in Bets
                 PROVE  /\ alerts'[c] <= 1
                        /\ alerts'[c] # 0 => state'[c] = "resolved"
                        /\ state'[c] = "resolved" => c \in resolved'
      OBVIOUS
    <3>1. CASE c # b
      BY <2>1, <3>1 DEF Watched
    <3>2. CASE c = b
      BY <2>1, <3>2 DEF Watched
    <3> QED BY <3>1, <3>2
  <2>3. \A c \in left' : state'[c] = "resolved" => c \in known' /\ c \in shells'
    BY <1>0, <2>1 DEF Watched
  <2>4. pc' = "alerting" => state'[bet'] = "resolved" /\ alerts'[bet'] = 0
    <3> SUFFICES ASSUME pc' = "alerting"
                 PROVE  state'[bet'] = "resolved" /\ alerts'[bet'] = 0
      OBVIOUS
    <3>1. bet' = b /\ b \in shells /\ b \notin known
      BY <1>3, <2>1 DEF Persist, IsNew
    <3>2. state[b] # "resolved"
      BY <2>1, <3>1 DEF Watched
    <3>3. alerts[b] = 0
      BY <1>0, <3>2 DEF Watched
    <3> QED BY <2>1, <3>1, <3>3
  <2>5. shells' \subseteq resolved'
    BY <2>1 DEF Watched
  <2> QED BY <2>2, <2>3, <2>4, <2>5 DEF Watched
<1>4. CASE Alert
  <2>1. /\ pc = "alerting" /\ pc' = "bets"
        /\ UNCHANGED <<shells, known, left, state, resolved>>
        /\ alerts' = [alerts EXCEPT ![bet] = @ + 1] \/ alerts' = alerts
    BY <1>4 DEF Alert, negev
  <2>2. bet \in Bets /\ state[bet] = "resolved" /\ alerts[bet] = 0
    BY <1>0, <2>1 DEF Watched
  <2>3. \A b \in Bets : alerts'[b] <= 1 /\ (alerts'[b] # 0 => state[b] = "resolved")
    <3>1. CASE alerts' = alerts
      BY <3>1 DEF Watched
    <3>2. CASE alerts' = [alerts EXCEPT ![bet] = @ + 1]
      <4>1. alerts'[bet] = 1 /\ \A b \in Bets : b # bet => alerts'[b] = alerts[b]
        BY <1>0, <2>2, <3>2
      <4> QED BY <2>2, <4>1 DEF Watched
    <3> QED BY <2>1, <3>1, <3>2
  <2> QED BY <2>1, <2>3 DEF Watched
<1>5. CASE Publish \/ Whistle \/ Fetch \/ Prune \/ Finish \/ ScanFails \/ Killed \/ Tick
           \/ (\E p \in Players : Upsert(p) \/ UpsertFails(p)) \/ UNCHANGED vars
  <2>1. UNCHANGED <<state, alerts, shells, known, left, resolved>>
    BY <1>5 DEF Publish, Whistle, Fetch, Prune, Finish, ScanFails, Killed, Tick, LocalUpdate,
                LocalRead, LocalWrite, Upsert, UpsertFails, vars, scan, watch, negev
  <2>2. /\ pc' \in {"bets", "alerting"} => pc \in {"bets", "alerting"}
        /\ pc' = "alerting" => pc = "alerting" /\ bet' = bet
    BY <1>5 DEF Publish, Whistle, Fetch, Prune, Finish, ScanFails, Killed, Tick, LocalUpdate,
                LocalRead, LocalWrite, Upsert, UpsertFails, vars, scan
  <2> QED BY <2>1, <2>2 DEF Watched
<1>6. ASSUME NEW b \in Bets, PersistFails(b) PROVE Watched'
  BY <1>6 DEF PersistFails, Watched, watch, negev
<1> QED
  BY <1>1, <1>2, <1>3, <1>4, <1>5, <1>6 DEF Next, World, Job, Trouble

(***************************************************************************)
(* No resolution is alerted about twice: the state is stored before the    *)
(* alert, and only a bet not stored as resolved is new.                    *)
(***************************************************************************)
THEOREM AlertHolds == Spec => []AlertedOnce
<1>1. Init => Watched
  BY PlayersAssumption DEF Init, Watched
<1>2. Watched => AlertedOnce
  BY DEF Watched, AlertedOnce
<1> QED
  BY <1>1, <1>2, StepWatched, TypeCorrect, PTL DEF Spec
-----------------------------------------------------------------------------
(***************************************************************************)
(* The safety half of EventuallyMirrored: after the last publication a      *)
(* table that mirrors it stays so.  Later runs write the same rows again    *)
(* and find nobody to remove, and the tick sees a row that is worth          *)
(* something.  That a run without a failure comes about is what TLC adds.   *)
(***************************************************************************)

\* Negev's points of Me are worth something.
MyPointsCount == Me \in roster /\ version >= NegevPays

\* Mirrored, and neither writer is about to write from anything older.
Settled ==
  /\ Mirrored /\ version = MaxVersion
  /\ pc = "writing" => got = version /\ gotRoster = roster
  /\ dpc = "writing" => ~MyPointsCount

\* A row with a writer is there.
MineIsThere == mine # "nobody" => Me \in members

LEMMA StepMine == MineIsThere /\ [Next]_vars => MineIsThere'
<1> SUFFICES ASSUME MineIsThere, [Next]_vars PROVE MineIsThere'
  OBVIOUS
<1>1. CASE Prune
  BY <1>1 DEF Prune, Stale, MineIsThere
<1>2. ASSUME NEW p \in Players, Upsert(p) PROVE MineIsThere'
  BY <1>2 DEF Upsert, MineIsThere
<1>3. CASE Tick
  BY <1>3 DEF Tick, LocalUpdate, LocalRead, LocalWrite, Store, table, MineIsThere
<1>4. CASE World \/ Fetch \/ Scan \/ Alert \/ Finish \/ Trouble \/ UNCHANGED vars
           \/ \E b \in Bets : Persist(b)
  BY <1>4 DEF World, Publish, Whistle, Resolve, Fetch, Scan, Alert, Finish, Trouble,
              UpsertFails, ScanFails, Killed, PersistFails, Persist, vars, table, MineIsThere
<1> QED BY <1>1, <1>2, <1>3, <1>4 DEF Next, Job

LEMMA StepSettled ==
  ASSUME TypeOK, MineIsThere, Settled, [Next]_vars
  PROVE  Settled'
<1>0. /\ members \subseteq Players /\ roster \subseteq Players /\ todo \subseteq gotRoster
      /\ at \in [Players -> Nat] /\ version \in Nat /\ scored \in Nat /\ total \in Nat
      /\ Me \in Players
  BY PlayersAssumption DEF TypeOK
<1>1. ASSUME UNCHANGED <<version, roster, members, at, mine>>,
             pc' = "writing" => got' = version /\ gotRoster' = roster,
             dpc' = "writing" => ~MyPointsCount
      PROVE  Settled'
  BY <1>1 DEF Settled, Mirrored, MyPointsCount
\* The tick: with points of Negev's in the row it has nothing to write.
<1>2. CASE Tick
  <2>1. MyPointsCount => WorthSomething
    BY DEF MyPointsCount, WorthSomething, Settled, Mirrored, MineIsThere
  <2>2. CASE LocalRead
    <3>1. ~MyPointsCount
      BY <2>1, <2>2 DEF LocalRead, MayWrite
    <3> QED BY <1>1, <2>2, <3>1 DEF LocalRead, negev, table, fetch, Settled
  <2>3. ASSUME NEW n \in Nat, Store(n), ~MyPointsCount, UNCHANGED <<negev, pc, fetch>>,
               dpc' = "idle" \/ dpc' = dpc
        PROVE  Settled'
    <3>1. /\ members' \ {Me} = members \ {Me}
          /\ \A p \in Players \ {Me} : at'[p] = at[p]
          /\ UNCHANGED <<version, roster, got, gotRoster>>
      BY <1>0, <2>3 DEF Store, negev, fetch
    <3> QED BY <1>0, <2>3, <3>1 DEF Settled, Mirrored, MyPointsCount
  <2>4. CASE LocalUpdate
    <3>1. ~MyPointsCount
      BY <2>1, <2>4 DEF LocalUpdate, MayWrite
    <3> QED BY <1>0, <2>3, <2>4, <3>1 DEF LocalUpdate, daemon
  <2>5. CASE LocalWrite
    <3>1. ~MyPointsCount
      BY <2>5 DEF LocalWrite, Settled
    <3> QED BY <1>0, <2>3, <2>5, <3>1 DEF LocalWrite
  <2> QED BY <1>2, <2>2, <2>4, <2>5 DEF Tick
\* The next copy writes what is there.
<1>3. ASSUME NEW p \in Players, Upsert(p) PROVE Settled'
  <2>1. /\ p \in roster /\ got = version
        /\ UNCHANGED <<version, roster, pc, got, gotRoster, dpc>>
        /\ members' = members \cup {p} /\ at' = [at EXCEPT ![p] = version]
        /\ mine' = IF p = Me THEN "negev" ELSE mine
    BY <1>0, <1>3 DEF Upsert, Settled, negev, daemon
  <2>2. members' \ {Me} = roster \ {Me}
    BY <2>1 DEF Settled, Mirrored
  <2>3. \A q \in roster \ {Me} : at'[q] = version
    BY <1>0, <2>1 DEF Settled, Mirrored
  <2>4. Me \in roster /\ version >= NegevPays => mine' = "negev" /\ at'[Me] = version
    BY <1>0, <2>1 DEF Settled, Mirrored
  <2> QED BY <2>1, <2>2, <2>3, <2>4 DEF Settled, Mirrored, MyPointsCount
<1>4. CASE Prune
  <2>1. Stale = {}
    BY <1>4 DEF Prune, Stale, Settled, Mirrored
  <2>2. members' = members
    BY <1>4, <2>1 DEF Prune
  <2> QED BY <1>1, <1>4, <2>2 DEF Prune, negev, daemon, Settled
<1>5. CASE Fetch
  BY <1>1, <1>5 DEF Fetch, negev, table, daemon, Settled
<1>6. CASE Publish
  BY <1>0, <1>6 DEF Publish, Settled
<1>7. CASE Whistle \/ \E b \in Bets : Resolve(b)
  BY <1>1, <1>7 DEF Whistle, Resolve, negev, table, fetch, daemon, Settled
<1>8. CASE Scan \/ Alert \/ Finish \/ Trouble \/ \E b \in Bets : Persist(b)
  <2>1. UNCHANGED <<version, roster, members, at, mine, got, gotRoster, dpc>>
    BY <1>8 DEF Scan, Alert, Finish, Trouble, UpsertFails, ScanFails, Killed, PersistFails,
                Persist, negev, table, fetch, daemon
  <2>2. pc' = "writing" => pc = "writing"
    BY <1>8 DEF Scan, Alert, Finish, Trouble, UpsertFails, ScanFails, Killed, PersistFails,
                Persist
  <2> QED BY <1>1, <2>1, <2>2 DEF Settled
<1>9. CASE UNCHANGED vars
  BY <1>1, <1>9 DEF vars, Settled
<1> QED BY <1>2, <1>3, <1>4, <1>5, <1>6, <1>7, <1>8, <1>9 DEF Next, World, Job

\* Once the table mirrors the last publication, no run, failure, kill or tick changes that
\* (standings_writer.py:104-121: the daemon does not undo the sync).
THEOREM MirrorStays == Spec => [](Settled => []Mirrored)
<1>1. Init => MineIsThere
  BY DEF Init, MineIsThere
<1>2. TypeOK /\ MineIsThere /\ Settled /\ [Next]_vars => Settled'
  BY StepSettled
<1>3. Settled => Mirrored
  BY DEF Settled
<1>4. Spec => []MineIsThere
  BY <1>1, StepMine, PTL DEF Spec
<1>5. []TypeOK /\ []MineIsThere /\ [][Next]_vars => [](Settled => []Settled)
  BY <1>2, PTL
<1> QED BY <1>3, <1>4, <1>5, TypeCorrect, PTL DEF Spec
=============================================================================
