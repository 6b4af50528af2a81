---------------------------- MODULE ResultsProofs ----------------------------
(***************************************************************************)
(* Theorems about Results, for any number of matches, any results and any   *)
(* interleaving of the two writers.  Finding a row by its teams needs no    *)
(* two matches of the same teams: PairsDiffer, a hypothesis of the theorems *)
(* that speak of results.                                                   *)
(***************************************************************************)
EXTENDS Results, TLAPS

LEMMA FullTimeIsScore == \A m \in Matches : FullTime(m) \in Scores
<1> SUFFICES ASSUME NEW m \in Matches PROVE FullTime(m) \in Scores
  OBVIOUS
<1>1. PICK h \in Nat, a \in Nat : Final[m] = <<h, a>>
  BY ResultConstants DEF Scores
<1>2. CASE Pens[m] = None
  BY <1>1, <1>2 DEF FullTime, Scores
<1>3. CASE Pens[m] # None
  <2>1. PICK ph \in Nat, pa \in Nat : Pens[m] = <<ph, pa>>
    BY <1>3, ResultConstants DEF Scores
  <2> QED
    BY <1>1, <1>3, <2>1 DEF FullTime, Plus, Scores
<1> QED
  BY <1>2, <1>3

\* What _extract_120min_and_pens makes of an answer about a finished match: if nothing is
\* left open, the result after 120 minutes.
LEMMA ShootoutTakenOff ==
  ASSUME NEW m \in Matches, feed[m] = "FINISHED", NEW x \in Answers(m)
  PROVE  /\ x.named /\ x.status = "FINISHED"
         /\ Extract120(x.obj).goals \in {None, FullTime(m), Final[m]}
         /\ Extract120(x.obj).pens \in {None, Pens[m]}
         /\ x.obj.full = None => Extract120(x.obj).goals = None
         /\ x.obj.full # None => Extract120(x.obj).goals # None
         /\ x.obj.full # None /\ (Pens[m] = None \/ (x.obj.shootout /\ x.obj.pens # None))
              => Extract120(x.obj).goals = Final[m]
<1>1. x.named /\ x.status = "FINISHED" /\ x.obj \in ScoreObjects(m, "FINISHED")
  BY DEF Answers
<1>2. /\ x.obj.full \in {FullTime(m), None} /\ x.obj.pens \in {Pens[m], None}
      /\ x.obj.shootout \in BOOLEAN
  <2>1. CASE x.obj = [full |-> FullTime(m), pens |-> Pens[m], shootout |-> Pens[m] # None]
    BY <2>1
  <2>2. CASE x.obj \in [full : {FullTime(m), None}, pens : {Pens[m], None},
                        shootout : {Pens[m] # None, FALSE}]
    BY <2>2
  <2> QED
    BY <1>1, <2>1, <2>2 DEF ScoreObjects
<1>3. FullTime(m) # None /\ Final[m] # None
  BY FullTimeIsScore, ResultConstants
<1>4. CASE x.obj.shootout /\ x.obj.pens # None /\ x.obj.full # None
  <2>1. PICK h \in Nat, a \in Nat : Final[m] = <<h, a>>
    BY ResultConstants DEF Scores
  <2>2. Pens[m] # None /\ x.obj.pens = Pens[m] /\ x.obj.full = FullTime(m)
    BY <1>2, <1>4
  <2>3. PICK ph \in Nat, pa \in Nat : Pens[m] = <<ph, pa>>
    BY <2>2, ResultConstants DEF Scores
  <2>4. Minus(x.obj.full, x.obj.pens) = <<(h + ph) - ph, (a + pa) - pa>>
    BY <2>1, <2>2, <2>3 DEF FullTime, Plus, Minus
  <2>5. Minus(x.obj.full, x.obj.pens) = Final[m]
    BY <2>1, <2>4
  <2> QED
    BY <1>1, <1>3, <1>4, <2>2, <2>5 DEF Extract120
<1>5. CASE ~(x.obj.shootout /\ x.obj.pens # None /\ x.obj.full # None)
  <2>1. Extract120(x.obj) = [goals |-> x.obj.full, pens |-> None]
    BY <1>5 DEF Extract120
  <2>2. Pens[m] = None => FullTime(m) = Final[m]
    BY DEF FullTime
  <2> QED
    BY <1>1, <1>2, <1>3, <1>5, <2>1, <2>2
<1> QED
  BY <1>4, <1>5

\* Any other answer has no shootout.
LEMMA NoShootoutYet ==
  ASSUME NEW m \in Matches, feed[m] \in StatusSet, feed[m] # "FINISHED", NEW x \in Answers(m)
  PROVE  /\ x.named \in BOOLEAN /\ x.status = feed[m]
         /\ Extract120(x.obj) = [goals |-> x.obj.full, pens |-> None]
         /\ x.obj.full \in Scores \cup {None}
<1>1. x.named \in BOOLEAN /\ x.status = feed[m] /\ x.obj \in ScoreObjects(m, feed[m])
  BY DEF Answers
<1>2. x.obj.pens = None /\ x.obj.full \in Scores \cup {None}
  <2>1. CASE feed[m] = "SCHEDULED"
    BY <1>1, <2>1 DEF ScoreObjects
  <2>2. CASE feed[m] = "IN_PLAY"
    <3>1. PICK s \in Partial[m] \cup {None} : x.obj = [full |-> s, pens |-> None, shootout |-> FALSE]
      BY <1>1, <2>2 DEF ScoreObjects
    <3>2. Partial[m] \subseteq Scores
      BY ResultConstants
    <3> QED
      BY <3>1, <3>2
  <2> QED
    BY <2>1, <2>2 DEF StatusSet
<1> QED
  BY <1>1, <1>2 DEF Extract120

-----------------------------------------------------------------------------
LEMMA TypeInit == Init => TypeOK
BY DEF Init, TypeOK, StatusSet

LEMMA IngestType == TypeOK /\ Ingest => TypeOK'
<1> SUFFICES ASSUME TypeOK, Ingest PROVE TypeOK'
  OBVIOUS
<1> USE DEF TypeOK
<1>1. PICK a \in [Matches -> UNION {Answers(m) : m \in Matches}] :
        Tells(a)
  BY DEF Ingest
<1>2. ASSUME NEW m \in Matches
      PROVE  /\ a[m].status \in StatusSet
             /\ Extract120(a[m].obj).goals \in Scores \cup {None}
             /\ Extract120(a[m].obj).pens \in Scores \cup {None}
  <2>0. a[m] \in Answers(m)
    BY <1>1 DEF Tells
  <2>1. CASE feed[m] = "FINISHED"
    BY <2>0, <2>1, ShootoutTakenOff, FullTimeIsScore, ResultConstants DEF StatusSet
  <2>2. CASE feed[m] # "FINISHED"
    <3>1. feed[m] \in StatusSet
      OBVIOUS
    <3>2. /\ a[m].status = feed[m] /\ a[m].obj.full \in Scores \cup {None}
          /\ Extract120(a[m].obj) = [goals |-> a[m].obj.full, pens |-> None]
      BY <2>0, <2>2, <3>1, NoShootoutYet
    <3> QED
      BY <3>1, <3>2
  <2> QED
    BY <2>1, <2>2
<1>3. status' \in [Matches -> StatusSet \cup {None}] /\ named' \subseteq Matches
  BY <1>1, <1>2 DEF Tells, Upsert
<1>4. goals' \in [Matches -> Scores \cup {None}]
  BY <1>1, <1>2 DEF Tells, Upsert, Coalesce
<1>5. pens' \in [Matches -> Scores \cup {None}] /\ doubt' \subseteq Matches
  BY <1>1, <1>2 DEF Tells, Upsert, Coalesce
<1> QED
  BY <1>3, <1>4, <1>5 DEF Ingest, worldVars

LEMMA SyncType == TypeOK /\ SyncResults => TypeOK'
<1> SUFFICES ASSUME TypeOK, SyncResults PROVE TypeOK'
  OBVIOUS
<1> USE ResultConstants DEF TypeOK
<1>0. PICK from \in UNION {[R -> {m \in Matches : truth[m] = "FINISHED"}] : R \in SUBSET named} :
       SyncFrom(from) /\ \E untold \in Untold(from) : TallyFrom(from, untold)
  BY DEF SyncResults
<1>1. PICK R \in SUBSET named : from \in [R -> {m \in Matches : truth[m] = "FINISHED"}]
  OBVIOUS
<1>2. \A r \in DOMAIN from : from[r] \in Matches
  BY <1>1
<1>3. status' \in [Matches -> StatusSet \cup {None}]
  BY <1>0 DEF SyncFrom, StatusSet
<1>4. goals' \in [Matches -> Scores \cup {None}] /\ doubt' \subseteq Matches
  BY <1>0, <1>2 DEF SyncFrom
<1>5. pens' \in [Matches -> Scores \cup {None}]
  BY <1>0, <1>2 DEF TallyFrom
<1> QED
  BY <1>3, <1>4, <1>5 DEF SyncResults, worldVars, daemonVars

LEMMA TypeNext == TypeOK /\ [Next]_vars => TypeOK'
<1> SUFFICES ASSUME TypeOK, [Next]_vars PROVE TypeOK'
  OBVIOUS
<1> USE DEF TypeOK, worldVars, rowVars, daemonVars
<1>1. CASE World
  BY <1>1 DEF World, Draw, KickOff, Whistle, Publish, StatusSet
<1>2. CASE UpdateStandings
  <2>1. counted' \subseteq Matches /\ DOMAIN points' = {"group", "ko"}
    BY <1>2 DEF UpdateStandings, Finished, Totals
  <2> QED
    BY <1>2, <2>1 DEF UpdateStandings
<1>3. CASE Tag \/ NoRefresh \/ TickEnd \/ Crash
  BY <1>3 DEF Tag, NoRefresh, TickEnd, Crash
<1>4. CASE UNCHANGED vars
  BY <1>4 DEF vars
<1> QED
  BY <1>1, <1>2, <1>3, <1>4, IngestType, SyncType DEF Next

\* The type invariant of the rows and of the points; with _extract_120min_and_pens it
\* says that taking the shootout off never leaves a negative score.
THEOREM TypeCorrect == Spec => []TypeOK
BY TypeInit, TypeNext, PTL DEF Spec

-----------------------------------------------------------------------------
\* The inductive invariant.
IInv == TypeOK /\ Upkeep /\ ScoreRight

LEMMA IInvInit == Init => IInv
BY TypeInit, ResultConstants DEF Init, IInv, StatusSet, Upkeep, ScoreRight

LEMMA IngestKeeps ==
  TypeOK /\ Upkeep /\ ScoreRight /\ Ingest => Upkeep' /\ ScoreRight'
<1> SUFFICES ASSUME TypeOK, Upkeep, ScoreRight, Ingest PROVE Upkeep' /\ ScoreRight'
  OBVIOUS
<1>1. PICK a \in [Matches -> UNION {Answers(m) : m \in Matches}] :
        Tells(a)
  BY DEF Ingest
<1>2. UNCHANGED <<truth, feed, det>> /\ fresh' = FALSE
  BY DEF Ingest, worldVars
<1> SUFFICES ASSUME NEW m \in Matches
             PROVE  /\ feed'[m] = "FINISHED" => truth'[m] = "FINISHED"
                    /\ status'[m] = "FINISHED" =>
                         /\ m \in named' /\ truth'[m] = "FINISHED"
                         /\ goals'[m] = Final[m] \/ m \in doubt'
                    /\ pens'[m] \in {None, Pens[m]}
                    /\ m \in det' => Pair[m] \in Detonators
  BY <1>2 DEF Upkeep, ScoreRight
<1>0. a[m] \in Answers(m)
  BY <1>1 DEF Tells
<1>3. CASE feed[m] = "FINISHED"
  <2> DEFINE e == Extract120(a[m].obj)
  <2>1. /\ a[m].named /\ a[m].status = "FINISHED" /\ e.pens \in {None, Pens[m]}
        /\ a[m].obj.full = None => e.goals = None
        /\ a[m].obj.full # None /\ (Pens[m] = None \/ (a[m].obj.shootout /\ a[m].obj.pens # None))
             => e.goals = Final[m]
    BY <1>0, <1>3, ShootoutTakenOff
  <2>2. /\ m \in named' /\ goals'[m] = Coalesce(e.goals, goals[m])
        /\ pens'[m] = Coalesce(e.pens, pens[m])
        /\ (m \in doubt' <=> LeavesOpen(m, a[m]))
    BY <1>1, <2>1 DEF Tells, Upsert
  <2>3. pens'[m] \in {None, Pens[m]}
    <3>1. pens[m] \in {None, Pens[m]}
      BY DEF ScoreRight
    <3>2. pens'[m] = e.pens \/ pens'[m] = pens[m]
      BY <2>2 DEF Coalesce
    <3>3. e.pens \in {None, Pens[m]}
      BY <2>1
    <3> HIDE DEF e
    <3> QED
      BY <3>1, <3>2, <3>3
  \* Nothing left open: a score that is whole, or none for a row that has it.
  <2>4. ASSUME m \notin doubt' PROVE goals'[m] = Final[m]
    <3>1. CASE a[m].obj.full = None
      <4>1. status[m] = "FINISHED" /\ m \notin doubt
        BY <2>1, <2>2, <2>4, <3>1 DEF LeavesOpen
      <4> QED
        BY <2>1, <2>2, <3>1, <4>1 DEF Coalesce, ScoreRight
    <3>2. CASE a[m].obj.full # None
      <4>1. e.goals = Final[m] /\ Final[m] # None
        BY <2>1, <2>2, <2>4, <3>2, ResultConstants DEF LeavesOpen
      <4> QED
        BY <2>2, <4>1 DEF Coalesce
    <3> QED
      BY <3>1, <3>2
  <2> QED
    BY <1>2, <1>3, <2>2, <2>3, <2>4 DEF Upkeep
<1>4. CASE feed[m] # "FINISHED"
  <2>1. a[m].status # "FINISHED" /\ Extract120(a[m].obj).pens = None
    <3>1. feed[m] \in StatusSet
      BY DEF TypeOK
    <3>2. /\ a[m].status = feed[m]
          /\ Extract120(a[m].obj) = [goals |-> a[m].obj.full, pens |-> None]
      BY <1>0, <1>4, <3>1, NoShootoutYet
    <3> QED
      BY <1>4, <3>2
  <2>2. status'[m] # "FINISHED" /\ pens'[m] = pens[m]
    BY <1>1, <2>1 DEF Tells, Upsert, Coalesce
  <2> QED
    BY <1>2, <1>4, <2>2 DEF Upkeep, ScoreRight
<1> QED
  BY <1>3, <1>4

LEMMA SyncKeeps ==
  TypeOK /\ PairsDiffer /\ Upkeep /\ ScoreRight /\ SyncResults => Upkeep' /\ ScoreRight'
<1> SUFFICES ASSUME TypeOK, PairsDiffer, Upkeep, ScoreRight, SyncResults
             PROVE  Upkeep' /\ ScoreRight'
  OBVIOUS
<1>1. PICK from \in UNION {[R -> {m \in Matches : truth[m] = "FINISHED"}] : R \in SUBSET named} :
       SyncFrom(from) /\ \E untold \in Untold(from) : TallyFrom(from, untold)
  BY DEF SyncResults
<1>2. PICK R \in SUBSET named : from \in [R -> {m \in Matches : truth[m] = "FINISHED"}]
  OBVIOUS
<1>3. ASSUME NEW r \in DOMAIN from
      PROVE  r \in named /\ from[r] = r /\ truth[r] = "FINISHED"
  BY <1>1, <1>2 DEF SyncFrom, PairsDiffer, TypeOK
<1>4. UNCHANGED <<truth, feed, named, det, fresh>>
  BY DEF SyncResults, worldVars, daemonVars
<1>5. ASSUME NEW m \in Matches
      PROVE  /\ status'[m] = "FINISHED" => /\ m \in named /\ truth[m] = "FINISHED"
                                           /\ goals'[m] = Final[m] \/ m \in doubt'
             /\ pens'[m] \in {None, Pens[m]}
  <2>1. CASE m \in DOMAIN from
    BY <1>1, <1>3, <2>1 DEF SyncFrom, TallyFrom
  <2>2. CASE m \notin DOMAIN from
    BY <1>1, <2>2 DEF SyncFrom, TallyFrom, Untold, Upkeep, ScoreRight
  <2> QED
    BY <2>1, <2>2
<1> QED
  BY <1>4, <1>5 DEF Upkeep, ScoreRight

LEMMA UpkeepNext ==
  TypeOK /\ PairsDiffer /\ Upkeep /\ ScoreRight /\ [Next]_vars => Upkeep' /\ ScoreRight'
<1> SUFFICES ASSUME TypeOK, Upkeep, ScoreRight, Next \/ UNCHANGED vars,
                    ~Ingest, ~SyncResults
             PROVE  Upkeep' /\ ScoreRight'
  BY IngestKeeps, SyncKeeps
<1> USE DEF Upkeep, ScoreRight, rowVars, daemonVars
<1>1. CASE World
  BY <1>1 DEF World, Draw, KickOff, Whistle, Publish, TypeOK
<1>2. CASE Tag
  BY <1>2 DEF Tag, worldVars
<1>3. CASE NoRefresh \/ UpdateStandings \/ TickEnd \/ Crash \/ UNCHANGED vars
  BY <1>3 DEF NoRefresh, UpdateStandings, TickEnd, Crash, vars, worldVars
<1> QED
  BY <1>1, <1>2, <1>3 DEF Next

-----------------------------------------------------------------------------
\* The rules as the code applies them and in their own words.
LEMMA SameScore ==
  ASSUME NEW m \in Matches, Scorable(m)
  PROVE  ScoreMatch(m, Final[m], Pair[m] \in Detonators) = Deserved(m)
<1>1. PICK h \in Nat, a \in Nat : Final[m] = <<h, a>>
  BY ResultConstants DEF Scores
<1>2. PICK ph \in Nat, pa \in Nat : Pick[m] = <<ph, pa>>
  BY ResultConstants DEF Scores, Scorable
<1>3. Direction(Final[m]) = Sign(Final[m]) /\ Direction(Pick[m]) = Sign(Pick[m])
  BY <1>1, <1>2 DEF Direction, Sign
<1>4. ExactMultiplier(StageType(m), Final[m]) = Printed(StageType(m), Final[m])
  <2>1. (IF h > a THEN <<h, a>> ELSE <<a, h>>) = (IF a <= h THEN <<h, a>> ELSE <<a, h>>)
    OBVIOUS
  <2> QED
    BY <1>1, <2>1 DEF ExactMultiplier, Printed
<1> QED
  BY <1>3, <1>4 DEF ScoreMatch, Deserved

\* The stages the rules know, split as the code splits them.
LEMMA GroupStage ==
  ASSUME NEW m \in Matches, Scorable(m)
  PROVE  StageType(m) = "group" <=> Stage[m] = "Group"
BY DEF Scorable, RulesStages, StageType

LEMMA SumOfNothing == \A f : SumFunctionOnSet(f, {}) = 0
BY DEF SumFunctionOnSet, FoldFunctionOnSet, MapThenFoldSet

LEMMA PointsNext ==
  ASSUME TypeOK, Upkeep, ScoreRight, Next, pc = "score", pc' = "scored", fresh,
         counted' \cap doubt = {}
  PROVE  LET worth == [m \in counted' |-> Deserved(m)]
             G == {m \in counted' : Stage[m] = "Group"}
             earned == SumFunctionOnSet(worth, G)
         IN  /\ \A m \in counted' : truth[m] = "FINISHED"
             /\ \A m \in Matches : status[m] = "FINISHED" /\ m \notin doubt /\ Scorable(m)
                                    => m \in counted'
             /\ points'.ko = SumFunctionOnSet(worth, counted' \ G)
             /\ points'.group \in {earned, GroupReset(earned)}
             /\ G = counted' => points'.group = earned
             /\ points'.ko > 0 => points'.group = GroupReset(earned)
<1> DEFINE worth == [m \in counted' |-> Deserved(m)]
           G == {m \in counted' : Stage[m] = "Group"}
           earned == SumFunctionOnSet(worth, G)
<1>1. UpdateStandings /\ counted' = {m \in Finished : Scorable(m)} /\ points' = Totals(counted', goals, det)
  BY DEF Next, World, SyncResults, Ingest, Tag, NoRefresh, UpdateStandings, TickEnd, Crash, daemonVars
<1>2. ASSUME NEW m \in counted'
      PROVE  /\ m \in Matches /\ truth[m] = "FINISHED" /\ goals[m] = Final[m] /\ Scorable(m)
             /\ (m \in det <=> Pair[m] \in Detonators)
  BY <1>1 DEF Finished, ScoreRight, Upkeep
<1>3. ASSUME NEW m \in Matches, status[m] = "FINISHED", m \notin doubt, Scorable(m)
      PROVE  m \in counted'
  BY <1>1, <1>3, ResultConstants DEF Finished, ScoreRight
<1>4. ASSUME NEW m \in counted'
      PROVE  ScoreMatch(m, goals[m], m \in det) = Deserved(m)
  <2>1. ScoreMatch(m, goals[m], m \in det) = ScoreMatch(m, Final[m], Pair[m] \in Detonators)
    BY <1>2 DEF ScoreMatch
  <2> QED
    BY <1>2, <2>1, SameScore
<1>5. [m \in counted' |-> ScoreMatch(m, goals[m], m \in det)] = worth
  BY <1>4
<1>6. {m \in counted' : StageType(m) = "group"} = G
  BY <1>2, GroupStage
<1>7. {m \in counted' : StageType(m) # "group"} = counted' \ G
  BY <1>2, GroupStage
<1> HIDE DEF worth, G
<1>8. points'.ko = SumFunctionOnSet(worth, counted' \ G)
  BY <1>1, <1>5, <1>7 DEF Totals
<1>9. points'.group = IF points'.ko > 0 THEN GroupReset(earned) ELSE earned
  BY <1>1, <1>5, <1>6, <1>7 DEF Totals
<1>10. G = counted' => points'.ko = 0
  BY <1>8, SumOfNothing
<1> QED
  BY <1>2, <1>3, <1>8, <1>9, <1>10 DEF worth, G

LEMMA IInvAlways == PairsDiffer => (Spec => []IInv)
<1> SUFFICES ASSUME PairsDiffer PROVE Spec => []IInv
  OBVIOUS
<1>1. IInv /\ [Next]_vars => IInv'
  BY TypeNext, UpkeepNext DEF IInv
<1> QED
  BY <1>1, IInvInit, PTL DEF Spec

\* The parts that make the invariant inductive.
THEOREM UpkeepHolds == PairsDiffer => (Spec => []Upkeep)
<1> SUFFICES ASSUME PairsDiffer PROVE Spec => []Upkeep
  OBVIOUS
<1> QED
  BY IInvAlways, PTL DEF IInv

\* A finished row holds the result the rules use, whichever source wrote last, unless the
\* last finished answer of football-data was incomplete (football_data.py:134-146, 183-197).
THEOREM ScoresAreRight == PairsDiffer => (Spec => []ScoreRight)
<1> SUFFICES ASSUME PairsDiffer PROVE Spec => []ScoreRight
  OBVIOUS
<1> QED
  BY IInvAlways, PTL DEF IInv

\* The points of a tick with tagged rows and known scores are those the rules give for what
\* was played (standings_writer.py:64-102, engine.py:41-77).
THEOREM TotalsAreTrue == PairsDiffer => (Spec => PointsAreTrue)
<1> SUFFICES ASSUME PairsDiffer PROVE Spec => PointsAreTrue
  OBVIOUS
<1>1. IInv /\ [Next]_vars =>
        [pc = "score" /\ pc' = "scored" /\ fresh /\ counted' \cap doubt = {} =>
           LET worth == [m \in counted' |-> Deserved(m)]
               G == {m \in counted' : Stage[m] = "Group"}
               earned == SumFunctionOnSet(worth, G)
           IN  /\ \A m \in counted' : truth[m] = "FINISHED"
               /\ \A m \in Matches : status[m] = "FINISHED" /\ m \notin doubt /\ Scorable(m)
                                      => m \in counted'
               /\ points'.ko = SumFunctionOnSet(worth, counted' \ G)
               /\ points'.group \in {earned, GroupReset(earned)}
               /\ G = counted' => points'.group = earned
               /\ points'.ko > 0 => points'.group = GroupReset(earned)]_vars
  BY PointsNext DEF IInv
<1> QED
  BY <1>1, IInvAlways, PTL DEF Spec, PointsAreTrue

\* No answer of football-data makes a row forget teams, score, shootout or tag; Negev's copy
\* blanks a shootout at most, and then has the score right (sync_negev_standings.py:246-257).
THEOREM RowsForgetNothing == PairsDiffer => (Spec => NothingForgotten)
<1> SUFFICES ASSUME PairsDiffer PROVE Spec => NothingForgotten
  OBVIOUS
<1> DEFINE Kept == /\ named \subseteq named' /\ det \subseteq det'
                   /\ \A m \in Matches :
                        /\ goals[m] # None => goals'[m] # None
                        /\ pens[m] # None =>
                             \/ pens'[m] = pens[m]
                             \/ SyncResults /\ pens'[m] = None /\ goals'[m] = Final[m]
<1>1. IInv /\ IInv' /\ [Next]_vars => [Kept]_vars
  <2> SUFFICES ASSUME IInv, IInv', Next PROVE Kept
    OBVIOUS
  <2> USE DEF IInv, TypeOK
  <2>1. CASE Ingest
    <3>1. PICK a \in [Matches -> UNION {Answers(m) : m \in Matches}] :
            Tells(a)
      BY <2>1 DEF Ingest
    <3>2. det' = det /\ named \subseteq named'
      BY <2>1, <3>1 DEF Ingest, Tells, Upsert
    <3>3. ASSUME NEW m \in Matches
          PROVE  (goals[m] # None => goals'[m] # None) /\ (pens[m] # None => pens'[m] # None)
      BY <3>1 DEF Tells, Upsert, Coalesce
    <3> QED
      BY <3>2, <3>3 DEF ScoreRight
  <2>2. CASE SyncResults
    <3>1. PICK from \in UNION {[R -> {m \in Matches : truth[m] = "FINISHED"}] : R \in SUBSET named} :
            SyncFrom(from) /\ \E untold \in Untold(from) : TallyFrom(from, untold)
      BY <2>2 DEF SyncResults
    <3>2. PICK R \in SUBSET named : from \in [R -> {m \in Matches : truth[m] = "FINISHED"}]
      OBVIOUS
    <3>3. UNCHANGED <<named, det>>
      BY <2>2 DEF SyncResults
    <3>4. ASSUME NEW m \in Matches
          PROVE  /\ goals[m] # None => goals'[m] # None
                 /\ pens[m] # None => \/ pens'[m] = pens[m]
                                      \/ pens'[m] = None /\ goals'[m] = Final[m]
      <4>1. CASE m \in DOMAIN from
        <5>1. from[m] = m
          BY <3>1, <3>2, <4>1 DEF SyncFrom, PairsDiffer
        <5> QED
          BY <3>1, <4>1, <5>1, ResultConstants DEF SyncFrom, TallyFrom, ScoreRight
      <4>2. CASE m \notin DOMAIN from
        BY <3>1, <4>2 DEF SyncFrom, TallyFrom, Untold
      <4> QED
        BY <4>1, <4>2
    <3> QED
      BY <2>2, <3>3, <3>4
  <2>3. CASE World \/ Tag \/ NoRefresh \/ UpdateStandings \/ TickEnd \/ Crash
    BY <2>3 DEF World, Tag, NoRefresh, UpdateStandings, TickEnd, Crash, rowVars, worldVars, daemonVars
  <2> QED
    BY <2>1, <2>2, <2>3 DEF Next
<1> QED
  BY <1>1, IInvAlways, PTL DEF Spec, NothingForgotten

-----------------------------------------------------------------------------
(***************************************************************************)
(* The safety half of EventuallyRight, and what is left of NoFlipFlop: a    *)
(* finished row is opened again only by a refresh whose feed is late, and   *)
(* never once football-data has the result too.                             *)
(***************************************************************************)
LateFeedReopens ==
  [][\A m \in Matches : status[m] = "FINISHED" /\ status'[m] # "FINISHED"
                          => Ingest /\ feed[m] # "FINISHED"]_vars

LEMMA StatusStays ==
  ASSUME TypeOK, Next, NEW m \in Matches, status[m] = "FINISHED",
         ~Ingest \/ feed[m] = "FINISHED"
  PROVE  status'[m] = "FINISHED"
<1>1. CASE Ingest
  <2>1. PICK a \in [Matches -> UNION {Answers(k) : k \in Matches}] :
          Tells(a)
    BY <1>1 DEF Ingest
  <2>2. a[m].status = "FINISHED"
    BY <1>1, <2>1, ShootoutTakenOff DEF Tells
  <2> QED BY <2>1, <2>2 DEF Tells, Upsert
<1>2. CASE SyncResults
  BY <1>2 DEF SyncResults, SyncFrom
<1>3. CASE World \/ Tag \/ NoRefresh \/ UpdateStandings \/ TickEnd \/ Crash
  BY <1>3 DEF World, Tag, NoRefresh, UpdateStandings, TickEnd, Crash, rowVars
<1> QED BY <1>1, <1>2, <1>3 DEF Next

\* Whatever the two writers do in turn, a row that says FINISHED says something else again only
\* after an ingest() whose answer has the match still open (football_data.py:152-174).
THEOREM OnlyLateFeedReopens == Spec => LateFeedReopens
<1>1. TypeOK /\ [Next]_vars
      => [\A m \in Matches : status[m] = "FINISHED" /\ status'[m] # "FINISHED"
                              => Ingest /\ feed[m] # "FINISHED"]_vars
  BY StatusStays
<1> QED BY <1>1, TypeCorrect, PTL DEF Spec, LateFeedReopens

\* Both sources have the match, and so has the row.
Right(m) ==
  /\ feed[m] = "FINISHED" /\ status[m] = "FINISHED" /\ goals[m] = Final[m]
  /\ m \in det <=> Pair[m] \in Detonators

LEMMA RightStep ==
  ASSUME IInv, IInv', NEW m \in Matches, Right(m), m \notin doubt', [Next]_vars
  PROVE  Right(m)'
<1>1. CASE UNCHANGED vars
  BY <1>1 DEF vars, worldVars, rowVars, Right
<1>2. CASE Next
  <2>1. status'[m] = "FINISHED"
    BY <1>2, StatusStays DEF IInv, Right
  <2>2. feed'[m] = "FINISHED"
    <3>1. CASE World
      BY <3>1 DEF World, Draw, KickOff, Whistle, Publish, IInv, TypeOK, Upkeep, Right
    <3>2. CASE ~World
      BY <1>2, <3>2 DEF Next, SyncResults, Ingest, Tag, NoRefresh, UpdateStandings, TickEnd, Crash,
                        worldVars, Right
    <3> QED BY <3>1, <3>2
  <2>3. det \subseteq det'
    BY <1>2 DEF Next, World, SyncResults, Ingest, Tag, NoRefresh, UpdateStandings, TickEnd, Crash,
                rowVars
  <2>4. goals'[m] = Final[m] /\ (m \in det' => Pair[m] \in Detonators)
    BY <2>1 DEF IInv, ScoreRight, Upkeep
  <2> QED BY <2>1, <2>2, <2>3, <2>4 DEF Right
<1> QED BY <1>1, <1>2

\* Once football-data and the row have a match as it was played, no refresh, Negev sync,
\* crash or failing call changes it, unless football-data then leaves the result open again.
THEOREM RightStays ==
  ASSUME NEW m \in Matches
  PROVE  PairsDiffer => (Spec => [](Right(m) /\ [](m \notin doubt) => []Right(m)))
<1> SUFFICES ASSUME PairsDiffer
             PROVE  Spec => [](Right(m) /\ [](m \notin doubt) => []Right(m))
  OBVIOUS
<1> DEFINE Known == m \notin doubt
<1>1. IInv /\ IInv' /\ Right(m) /\ Known' /\ [Next]_vars => Right(m)'
  BY RightStep
<1> HIDE DEF Known
<1>2. []IInv /\ [][Next]_vars => [](Right(m) /\ []Known => []Right(m))
  BY <1>1, PTL
<1> QED BY <1>2, IInvAlways, PTL DEF Spec, Known
=============================================================================
