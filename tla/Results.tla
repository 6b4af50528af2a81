------------------------------- MODULE Results -------------------------------
(***************************************************************************)
(* The rows of the matches table and the points computed from them.  Two    *)
(* processes write the rows: the daemon, which refreshes the calendar       *)
(* (football_data.refresh) and then re-scores every finished match          *)
(* (standings_writer.update_standings), and the cron job that copies the    *)
(* results of the Negev app (sync_match_results).  Either may be ahead.     *)
(*                                                                         *)
(* Each source learns of a match in its own time, and neither goes back.    *)
(***************************************************************************)
EXTENDS Integers, Functions

CONSTANTS
  Matches,    \* match ids
  None,       \* SQL NULL
  Pair,       \* the teams of a match
  Detonators, \* pairs flagged in the bundled csv
  Stage,      \* stage of a match
  Final,      \* result after 120 minutes
  Pens,       \* shootout, None if there was none
  Partial,    \* scores the feed may show while a match is on
  Pick, Odds, \* our prediction and the locked odds of a match, or None
  Base, Grid, Cap,  \* config/rules.py, in 1/100
  Faults      \* calls that may fail and answers that may be incomplete, a subset of FaultKinds

StatusSet == {"SCHEDULED", "IN_PLAY", "FINISHED"}
Scores == Nat \X Nat
Directions == {"H", "D", "A"}
StageTypes == {"group", "ko", "final"}
FaultKinds == {"tag", "score", "answer", "tally"}

ASSUME ResultConstants ==
  /\ None \notin Scores /\ None \notin StatusSet
  /\ Final \in [Matches -> Scores] /\ Pens \in [Matches -> Scores \cup {None}]
  /\ Partial \in [Matches -> SUBSET Scores]
  /\ Pick \in [Matches -> Scores \cup {None}]
  /\ Faults \subseteq FaultKinds

VARIABLES
  drawn,    \* matches whose teams are known
  truth,    \* what happened on the pitch
  feed,     \* what football-data has of it
  \* matches table
  named,    \* rows with both team names
  status, goals, pens,
  det,      \* rows tagged as detonators
  doubt,    \* history: finished rows whose score the feed has not told in full
  \* the daemon
  pc,
  fresh,    \* every committed ingest was followed by its tagging
  points, counted  \* last totals of update_standings, and the matches in them

worldVars == <<drawn, truth, feed>>
rowVars == <<named, status, goals, pens, det, doubt>>
daemonVars == <<pc, fresh, points, counted>>
vars == <<worldVars, rowVars, daemonVars>>

TypeOK ==
  /\ drawn \subseteq Matches /\ named \subseteq Matches
  /\ det \subseteq Matches /\ doubt \subseteq Matches /\ counted \subseteq Matches
  /\ truth \in [Matches -> StatusSet] /\ feed \in [Matches -> StatusSet]
  /\ status \in [Matches -> StatusSet \cup {None}]
  /\ goals \in [Matches -> Scores \cup {None}] /\ pens \in [Matches -> Scores \cup {None}]
  /\ pc \in {"asleep", "tag", "score", "scored"} /\ fresh \in BOOLEAN
  /\ DOMAIN points = {"group", "ko"}

Init ==
  /\ drawn = {} /\ truth = [m \in Matches |-> "SCHEDULED"] /\ feed = truth
  /\ named = {} /\ det = {} /\ doubt = {}
  /\ status = [m \in Matches |-> None]
  /\ goals = [m \in Matches |-> None] /\ pens = [m \in Matches |-> None]
  /\ pc = "asleep" /\ fresh = FALSE
  /\ points = [group |-> 0, ko |-> 0] /\ counted = {}

-----------------------------------------------------------------------------
\* Scoring (core/scoring/engine.py).

Direction(s) == IF s[1] > s[2] THEN "H" ELSE IF s[1] = s[2] THEN "D" ELSE "A"

RulesStages == {"Group", "R32", "R16", "QF", "SF", "3rd", "Final"}

StageType(m) == CASE Stage[m] = "Group" -> "group"
                  [] Stage[m] \in {"R32", "R16", "QF"} -> "ko"
                  [] Stage[m] \in {"SF", "3rd", "Final"} -> "final"

ExactMultiplier(st, s) ==
  LET wl == IF s[1] > s[2] THEN s ELSE <<s[2], s[1]>>
  IN  IF wl \in DOMAIN Grid[st] THEN Grid[st][wl] ELSE Cap[st]

ScoreMatch(m, act, detonator) ==
  IF Direction(Pick[m]) # Direction(act) THEN 0
  ELSE LET mult == IF Pick[m] = act THEN ExactMultiplier(StageType(m), act) ELSE Base[StageType(m)]
       IN  mult * Odds[m][Direction(act)] * (IF detonator THEN 2 ELSE 1)

\* score_one_match gives up on a match without prediction, odds or a stage of the rules.
Scorable(m) == Pick[m] # None /\ Odds[m] # None /\ Stage[m] \in RulesStages

\* 15 % off the group points once a knockout match has paid.
GroupReset(g) == (g * 85) \div 100

\* Slip: the group points are cut before there is a knockout.
TotalsCutTooSoon(S, act, dets) ==
  LET worth == [m \in S |-> ScoreMatch(m, act[m], m \in dets)]
  IN  [group |-> GroupReset(SumFunctionOnSet(worth, {m \in S : StageType(m) = "group"})),
       ko |-> SumFunctionOnSet(worth, {m \in S : StageType(m) # "group"})]

Totals(S, act, dets) ==
  LET worth == [m \in S |-> ScoreMatch(m, act[m], m \in dets)]
      group == SumFunctionOnSet(worth, {m \in S : StageType(m) = "group"})
      ko    == SumFunctionOnSet(worth, {m \in S : StageType(m) # "group"})
  IN  [group |-> IF ko > 0 THEN GroupReset(group) ELSE group, ko |-> ko]

-----------------------------------------------------------------------------
\* The world (bracket draw, kickoff, final whistle) and the feed that follows it.

Draw(m) == m \notin drawn /\ drawn' = drawn \cup {m} /\ UNCHANGED <<truth, feed>>

KickOff(m) == /\ m \in drawn /\ truth[m] = "SCHEDULED"
              /\ truth' = [truth EXCEPT ![m] = "IN_PLAY"] /\ UNCHANGED <<drawn, feed>>

Whistle(m) == /\ truth[m] = "IN_PLAY"
              /\ truth' = [truth EXCEPT ![m] = "FINISHED"] /\ UNCHANGED <<drawn, feed>>

Publish(m) == /\ feed[m] # truth[m]
              /\ feed' = [feed EXCEPT ![m] = truth[m]] /\ UNCHANGED <<drawn, truth>>

World == /\ \E m \in Matches : Draw(m) \/ KickOff(m) \/ Whistle(m) \/ Publish(m)
         /\ UNCHANGED <<rowVars, daemonVars>>

-----------------------------------------------------------------------------
\* football-data.

Plus(s, t) == <<s[1] + t[1], s[2] + t[2]>>
Minus(s, t) == <<s[1] - t[1], s[2] - t[2]>>

\* fullTime counts the shootout.
FullTime(m) == IF Pens[m] = None THEN Final[m] ELSE Plus(Final[m], Pens[m])

\* The score object of an answer that shows the match in state st: fullTime, the tally of
\* the shootout (None when it is malformed too), and whether duration says there was one.
\* While a match is on the score may be missing for a moment; of a finished match any part
\* may be, if the feed is at fault.
ScoreObjects(m, st) ==
  LET whole == [full |-> FullTime(m), pens |-> Pens[m], shootout |-> Pens[m] # None]
  IN  CASE st = "SCHEDULED" -> {[full |-> None, pens |-> None, shootout |-> FALSE]}
        [] st = "IN_PLAY"   -> {[full |-> s, pens |-> None, shootout |-> FALSE] :
                                  s \in Partial[m] \cup {None}}
        [] st = "FINISHED"  -> {whole} \cup
             {o \in [full : {whole.full, None}, pens : {whole.pens, None},
                     shootout : {whole.shootout, FALSE}] : "answer" \in Faults}

\* Slip: the score is stored as it comes.
ExtractAggregate(o) == [goals |-> o.full, pens |-> o.pens]

\* Slip: the shootout is taken off twice.
ExtractTwice(o) ==
  IF o.pens # None /\ o.full # None THEN [goals |-> Minus(Minus(o.full, o.pens), o.pens), pens |-> o.pens]
  ELSE [goals |-> o.full, pens |-> None]

\* _extract_120min_and_pens: only a shootout with its tally is taken off the score.
Extract120(o) ==
  IF o.shootout /\ o.pens # None /\ o.full # None
  THEN [goals |-> Minus(o.full, o.pens), pens |-> o.pens]
  ELSE [goals |-> o.full, pens |-> None]

\* What an answer may say about a match: names may be missing until it is played.
Answers(m) ==
  {[named |-> n, status |-> feed[m], obj |-> o] :
     n \in {b \in BOOLEAN : IF feed[m] = "SCHEDULED" THEN b => m \in drawn ELSE b},
     o \in ScoreObjects(m, feed[m])}

\* Slip: the first score that came stays.
KeepFirst(new, old) == IF old # None THEN old ELSE new

Coalesce(new, old) == IF new # None THEN new ELSE old

\* Slip: what comes is written.
UpsertPlain(a) ==
  /\ named' = {m \in Matches : a[m].named}
  /\ status' = [m \in Matches |-> a[m].status]
  /\ goals' = [m \in Matches |-> Extract120(a[m].obj).goals]
  /\ pens' = [m \in Matches |-> Extract120(a[m].obj).pens]

Upsert(a) ==
  /\ named' = named \cup {m \in Matches : a[m].named}
  /\ status' = [m \in Matches |-> a[m].status]
  /\ goals' = [m \in Matches |-> Coalesce(Extract120(a[m].obj).goals, goals[m])]
  /\ pens' = [m \in Matches |-> Coalesce(Extract120(a[m].obj).pens, pens[m])]

\* A finished answer that leaves the result open: a score with a shootout in it and not
\* its tally, or no score for a row that was not finished with one before.
LeavesOpen(m, ans) ==
  /\ ans.status = "FINISHED"
  /\ IF ans.obj.full = None THEN status[m] # "FINISHED" \/ m \in doubt
     ELSE Pens[m] # None /\ ~(ans.obj.shootout /\ ans.obj.pens # None)

Tells(a) == /\ \A m \in Matches : a[m] \in Answers(m)
            /\ Upsert(a) /\ doubt' = {m \in Matches : LeavesOpen(m, a[m])}

\* ingest(): one transaction; if the fetch or a statement raises, nothing is written.
Ingest ==
  /\ pc = "asleep"
  /\ \E a \in [Matches -> UNION {Answers(m) : m \in Matches}] : Tells(a)
  /\ pc' = "tag" /\ fresh' = FALSE
  /\ UNCHANGED <<worldVars, det, points, counted>>

\* tag_detonators(), a transaction of its own.
Tag ==
  /\ pc = "tag" /\ pc' = "score"
  /\ \/ det' = det \cup {m \in named : Pair[m] \in Detonators} /\ fresh' = TRUE
     \/ "tag" \in Faults /\ UNCHANGED <<det, fresh>>
  /\ UNCHANGED <<worldVars, named, status, goals, pens, doubt, points, counted>>

\* A tick in which no refresh is due, or in which the refresh fails.
NoRefresh == /\ pc = "asleep" /\ pc' = "score"
             /\ UNCHANGED <<worldVars, rowVars, fresh, points, counted>>

Finished == {m \in Matches : status[m] = "FINISHED" /\ goals[m] # None}

\* update_standings(): the totals it computes (which row it stores is another matter).
UpdateStandings ==
  /\ pc = "score"
  /\ \/ /\ pc' = "scored"
        /\ counted' = {m \in Finished : Scorable(m)}
        /\ points' = Totals(counted', goals, det)
     \/ "score" \in Faults /\ pc' = "asleep" /\ UNCHANGED <<points, counted>>
  /\ UNCHANGED <<worldVars, rowVars, fresh>>

TickEnd == pc = "scored" /\ pc' = "asleep" /\ UNCHANGED <<worldVars, rowVars, fresh, points, counted>>

\* The process dies and is started again: the rows stay.
Crash == /\ pc # "asleep" /\ pc' = "asleep"
         /\ UNCHANGED <<worldVars, rowVars, fresh, points, counted>>

-----------------------------------------------------------------------------
\* Negev.

\* from[r] is the finished match whose result is written to row r: the score after 120
\* minutes.
SyncFrom(from) ==
  /\ \A r \in DOMAIN from : Pair[from[r]] = Pair[r]
  /\ status' = [r \in Matches |-> IF r \in DOMAIN from THEN "FINISHED" ELSE status[r]]
  /\ goals' = [r \in Matches |-> IF r \in DOMAIN from THEN Final[from[r]] ELSE goals[r]]
  /\ doubt' = doubt \ DOMAIN from

\* The tally is written as it comes, a missing one as NULL.
Untold(from) == SUBSET {r \in DOMAIN from : "tally" \in Faults}

TallyFrom(from, untold) ==
  pens' = [r \in Matches |-> IF r \in untold THEN None
                             ELSE IF r \in DOMAIN from THEN Pens[from[r]] ELSE pens[r]]

\* sync_match_results(), one transaction: the row is found by the names of the teams.  A
\* match Negev has not closed yet, or whose UPDATE fails, is left out.
SyncResults ==
  /\ \E from \in UNION {[R -> {m \in Matches : truth[m] = "FINISHED"}] : R \in SUBSET named} :
       SyncFrom(from) /\ \E untold \in Untold(from) : TallyFrom(from, untold)
  /\ UNCHANGED <<worldVars, named, det, daemonVars>>

Next == \/ World \/ SyncResults
        \/ Ingest \/ Tag \/ NoRefresh \/ UpdateStandings \/ TickEnd \/ Crash

\* Matches are played, a source catches up in the end, the daemon keeps ticking, and a
\* refresh that is due every half hour succeeds now and then.
Fairness ==
  /\ \A m \in Matches : WF_vars((Draw(m) \/ KickOff(m) \/ Whistle(m) \/ Publish(m)) /\ World)
  /\ SF_vars(Ingest)
  /\ SF_vars(Tag /\ fresh')
  /\ WF_vars(UpdateStandings) /\ WF_vars(TickEnd)

Spec == Init /\ [][Next]_vars /\ Fairness

-----------------------------------------------------------------------------
\* Correctness.

PairsDiffer == \A m, n \in Matches : Pair[m] = Pair[n] => m = n

\* A row that says FINISHED has the score the rules use, the result of that match after
\* 120 minutes without the shootout, whichever source wrote last and whatever the row held
\* while the match was on; only a finished answer of football-data that was incomplete can
\* have left another score there, until a complete one or Negev's comes.
ScoreRight ==
  \A m \in Matches :
    /\ status[m] = "FINISHED" => /\ truth[m] = "FINISHED"
                                 /\ goals[m] = Final[m] \/ m \in doubt
    /\ pens[m] \in {None, Pens[m]}

\* What the rows once knew they keep, whatever an answer of football-data leaves out: teams,
\* a score, a shootout, a detonator tag (football_data.py:152-174).  Only Negev's copy can
\* blank a shootout, of a row whose score it then has right (sync_negev_standings.py:246-257).
NothingForgotten ==
  [][/\ named \subseteq named' /\ det \subseteq det'
     /\ \A m \in Matches :
          /\ goals[m] # None => goals'[m] # None
          /\ pens[m] # None => \/ pens'[m] = pens[m]
                               \/ SyncResults /\ pens'[m] = None /\ goals'[m] = Final[m]]_vars

\* The rules of the game (docs/rules.pdf, config/rules.py:1-60) in their own words: who calls
\* the sign of the goal difference gets the odds of what happened times the base, or times
\* the printed value of the score if that was called too, twice for a detonator.
Sign(s) == IF s[1] - s[2] > 0 THEN "H" ELSE IF s[1] - s[2] < 0 THEN "A" ELSE "D"

Printed(st, s) == LET w == IF s[2] <= s[1] THEN s ELSE <<s[2], s[1]>>
                  IN  IF w \notin DOMAIN Grid[st] THEN Cap[st] ELSE Grid[st][w]

Deserved(m) ==
  LET st == StageType(m)
  IN  IF Sign(Final[m]) # Sign(Pick[m]) THEN 0
      ELSE (IF Final[m] = Pick[m] THEN Printed(st, Final[m]) ELSE Base[st])
           * Odds[m][Sign(Final[m])] * (IF Pair[m] \in Detonators THEN 2 ELSE 1)

\* The points a tick computes over tagged rows whose scores are known are those the rules
\* give for what was played: every finished match counts and none that is still on, no
\* shootout goal and no detonator is mistaken, and the group points are whole before any
\* knockout match counts and cut by 15 % once one has paid.  While knockout matches count
\* that paid nothing, the code leaves them whole and its docstring (standings_writer.py:73)
\* cuts them: either is allowed here.
PointsAreTrue ==
  [][pc = "score" /\ pc' = "scored" /\ fresh /\ counted' \cap doubt = {} =>
       LET worth == [m \in counted' |-> Deserved(m)]
           G == {m \in counted' : Stage[m] = "Group"}
           earned == SumFunctionOnSet(worth, G)
       IN  /\ \A m \in counted' : truth[m] = "FINISHED"
           /\ \A m \in Matches : status[m] = "FINISHED" /\ m \notin doubt /\ Scorable(m)
                                  => m \in counted'
           /\ points'.ko = SumFunctionOnSet(worth, counted' \ G)
           /\ points'.group \in {earned, GroupReset(earned)}
           /\ G = counted' => points'.group = earned
           /\ points'.ko > 0 => points'.group = GroupReset(earned)]_vars

\* What the properties above rest on: the feed is never ahead of the match, a row is only
\* finished with its teams known, and the tags are complete from the tagging of a refresh
\* to the next ingest.
Upkeep ==
  \A m \in Matches :
    /\ feed[m] = "FINISHED" => truth[m] = "FINISHED"
    /\ status[m] = "FINISHED" => m \in named
    /\ m \in det => Pair[m] \in Detonators
    /\ fresh /\ m \in named /\ Pair[m] \in Detonators => m \in det

\* Both sources agree in the end: every match is stored as played, for good, if
\* football-data does not go on leaving its result open.
EventuallyRight ==
  \A m \in Matches :
    <>[](m \notin doubt) => <>[](/\ status[m] = "FINISHED" /\ goals[m] = Final[m]
                                /\ (m \in det <=> Pair[m] \in Detonators))

\* "Both writers now produce byte-identical rows - no more silent flip-flop on every
\* 30-min tick" (sync_negev_standings.py:243-245).
NoFlipFlop ==
  [][\A m \in Matches : status[m] = "FINISHED" => status'[m] = "FINISHED"]_vars
=============================================================================
