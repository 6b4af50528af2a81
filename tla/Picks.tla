-------------------------------- MODULE Picks --------------------------------
(***************************************************************************)
(* From a forecast to a pick: the score matrix, its blend with Elo and the *)
(* market, expected points, the direction gate, the win-the-pool tilt.     *)
(*                                                                         *)
(* Everything here is a pure function of the code.  Floats become integers *)
(* of a stated unit, rounded down: percent for the probability of a        *)
(* direction, thousandths for goals expected and for the probability of a  *)
(* score, tenths for odds, quarters for table multipliers, hundredths for  *)
(* expected points.                                                        *)
(***************************************************************************)
EXTENDS Integers, FiniteSets, FiniteSetsExt

CONSTANTS MaxGoals,     \* max_goals of score_matrix
          TopK,         \* config.strategy.TOP_K, and the [:5] of the pool
          Pmf,          \* Pmf[l][k]: _poisson(k, l / 10)
          NeutralGoals  \* goals expected when the fit has failed

Directions == {"H", "D", "A"}
Cells == (0..MaxGoals) \X (0..MaxGoals)

ASSUME GoalsAssumption == MaxGoals \in Nat /\ TopK \in Nat \ {0}

AtLeast(x, y) == IF x < y THEN y ELSE x
AtMost(x, y) == IF x > y THEN y ELSE x

-----------------------------------------------------------------------------
(***************************************************************************)
(* The rules: direction of a score, table, base points, multiplier.  The   *)
(* rows of a table are the loser's goals, its columns the winner's; what   *)
(* is not printed below, the code prints with the value of the cap.        *)
(***************************************************************************)
Direction(c) == CASE c[1] > c[2] -> "H"
                  [] c[1] = c[2] -> "D"
                  [] c[1] < c[2] -> "A"

StageType(stage) == CASE stage = "Group" -> "group"
                      [] stage \in {"R32", "R16", "QF"} -> "ko"
                      [] stage \in {"SF", "3rd", "Final"} -> "final"

Base == [group |-> 4, ko |-> 6, final |-> 8]

Grid == [group |-> << <<11, 6, 9, 13>>, <<0, 9, 6, 13>>, <<0, 0, 11, 13>> >>,
         ko    |-> << <<15, 9, 14, 18>>, <<0, 12, 9, 18>>, <<0, 0, 15, 18>> >>,
         final |-> << <<15, 9, 14, 18, 33>>, <<0, 12, 9, 18, 33>>,
                      <<0, 0, 15, 18, 33>>, <<0, 0, 0, 33, 33>>,
                      <<0, 0, 0, 0, 33>> >>]

Cap == [group |-> 18, ko |-> 33, final |-> 44]

ExactMultiplier(stype, c) ==
  LET winner == AtLeast(c[1], c[2]) + 1
      loser == AtMost(c[1], c[2]) + 1
      printed == Grid[stype]
  IN IF loser \in DOMAIN printed /\ winner \in DOMAIN printed[loser]
     THEN printed[loser][winner] ELSE Cap[stype]

Factor(detonator) == IF detonator THEN 2 ELSE 1

-----------------------------------------------------------------------------
(***************************************************************************)
(* The forecast.                                                           *)
(***************************************************************************)
Percent(h, d, a) == [H |-> (100 * h) \div (h + d + a), D |-> (100 * d) \div (h + d + a),
                     A |-> (100 * a) \div (h + d + a)]

\* score_matrix at rho = 0.
ScoreMatrix(home, away) ==
  [c \in Cells |-> Pmf[home][c[1] + 1] * Pmf[away][c[2] + 1]]

\* Goals expected, with the news applied, to a tenth of a goal.
Expected(goals, delta) == (AtLeast(50, goals + delta) + 50) \div 100

Mass(m, d) == MapThenSumSet(LAMBDA c : m[c], {c \in Cells : Direction(c) = d})

\* predict_match: the scores, the directions.
Fit(goals, delta) ==
  LET m == ScoreMatrix(Expected(goals[1], delta[1]), Expected(goals[2], delta[2]))
  IN [matrix |-> m, mass |-> [H |-> Mass(m, "H"), D |-> Mass(m, "D"), A |-> Mass(m, "A")]]

FitProbs(fit) == Percent(fit.mass["H"], fit.mass["D"], fit.mass["A"])

\* outcome_probs from the Elo expectation e of the home side.
EloOutcome(e) ==
  LET draw == AtLeast(6, (27 * (100 - AtLeast(e - 50, 50 - e))) \div 100)
  IN Percent(AtLeast(1, e - draw \div 2), draw, AtLeast(1, 100 - e - draw \div 2))

Devig(odds) ==
  Percent(odds["D"] * odds["A"], odds["H"] * odds["A"], odds["H"] * odds["D"])

NoOdds == [H |-> 0, D |-> 0, A |-> 0]

\* _devig only reads prices above even money.
Usable(odds) == \A d \in Directions : odds[d] > 10

(***************************************************************************)
(* The weights are those of BLEND_WEIGHTS; without odds Elo stands in for  *)
(* the market.  Re-weighting the cells keeps the share of a cell in its    *)
(* direction, so the blend is the three directions and those shares.       *)
(***************************************************************************)
Blended(dc, elo, market) ==
  LET sum(d) == 20 * dc[d] + 20 * elo[d] + 60 * market[d]
  IN Percent(sum("H"), sum("D"), sum("A"))

\* The share of a score in its direction, which no blend changes.
Share(f, c) == (1000 * f.fit.matrix[c]) \div f.fit.mass[Direction(c)]

ScoreProb(f, c) == (f.probs[Direction(c)] * Share(f, c)) \div 100

-----------------------------------------------------------------------------
(***************************************************************************)
(* rank_scores: a candidate for every score.  The order of the ranking is  *)
(* a stable sort, so equals keep the order of the loops (home, then away). *)
(***************************************************************************)
ExpectedPoints(f, stype, odds, detonator, c) ==
  (odds[Direction(c)] * Factor(detonator) * f.probs[Direction(c)]
     * (Base[stype] * (1000 - Share(f, c)) + ExactMultiplier(stype, c) * Share(f, c)))
  \div 40000

RankScores(f, stage, odds, detonator) ==
  {[at |-> c, dir |-> Direction(c), p |-> ScoreProb(f, c),
    ev |-> ExpectedPoints(f, StageType(stage), odds, detonator, c)] : c \in Cells}

LoopsFirst(a, b) == a[1] < b[1] \/ (a[1] = b[1] /\ a[2] < b[2])

\* a comes before b in full_ranked.
Ranked(a, b) == a.ev > b.ev \/ (a.ev = b.ev /\ LoopsFirst(a.at, b.at))

\* a comes before b when full_ranked is sorted again by the gate's score.
Ahead(a, b) == a.score > b.score \/ (a.score = b.score /\ Ranked(a, b))

(***************************************************************************)
(* The direction gate.  Of equals, the dominant direction is the first of  *)
(* H, D, A.                                                                *)
(***************************************************************************)
Thresholds(stype, detonator) ==
  CASE detonator -> [strong |-> 50, mild |-> 28]
    [] ~detonator /\ stype = "group" -> [strong |-> 55, mild |-> 30]
    [] ~detonator /\ stype = "ko" -> [strong |-> 50, mild |-> 28]
    [] ~detonator /\ stype = "final" -> [strong |-> 48, mild |-> 25]

Dominant(probs) ==
  IF probs["H"] >= probs["D"] /\ probs["H"] >= probs["A"] THEN "H"
  ELSE IF probs["D"] >= probs["A"] THEN "D" ELSE "A"

Tied(probs) == \E d \in Directions \ {Dominant(probs)} :
                 probs[Dominant(probs)] - probs[d] < 2

GateMode(probs, thr) ==
  LET p == AtLeast(AtLeast(probs["H"], probs["D"]), probs["A"])
  IN CASE Tied(probs) -> "tossup_tied"
       [] ~Tied(probs) /\ p <= thr.mild -> "tossup"
       [] ~Tied(probs) /\ p > thr.mild /\ p >= thr.strong -> "strong_favorite"
       [] ~Tied(probs) /\ p > thr.mild /\ p < thr.strong -> "mild_favorite"

\* The smooth weight, as a share of strong - mild.
Weight(mode, share, thr) == CASE mode \in {"tossup", "tossup_tied"} -> 0
                              [] mode = "strong_favorite" -> thr.strong - thr.mild
                              [] mode = "mild_favorite" -> share - thr.mild

\* The two norms of the gate: the largest expected points, the largest probability.
Norms(ranked) ==
  LET largest(S) == AtLeast(1, CHOOSE x \in S : \A y \in S : y <= x)
  IN [ev |-> largest({r.ev : r \in ranked}), p |-> largest({r.p : r \in ranked})]

\* Slip: cells outside the dominant direction are not marked down.
GateScoreFlat(r, dom, band, w, norms) ==
  IF r.dir = dom
  THEN (band * band - 2 * w * (band - w)) * r.ev * norms.p
         + 2 * w * (band - w) * r.p * norms.ev
  ELSE band * band * r.ev * norms.p

\* _smooth_score, times the square of the band and the two norms.
GateScore(r, dom, band, w, norms) ==
  IF r.dir = dom
  THEN (band * band - 2 * w * (band - w)) * r.ev * norms.p
         + 2 * w * (band - w) * r.p * norms.ev
  ELSE band * (band - w) * r.ev * norms.p

\* The candidates with their scores, and the best of them.
Scored(ranked, norms, gate, thr) ==
  {[at |-> r.at, dir |-> r.dir, p |-> r.p, ev |-> r.ev,
    score |-> GateScore(r, gate.dom, thr.strong - thr.mild,
                        Weight(gate.mode, gate.share, thr), norms)] : r \in ranked}

Gate(probs, thr) == [dom |-> Dominant(probs), share |-> probs[Dominant(probs)],
                     mode |-> GateMode(probs, thr)]

Gated(ranked, probs, thr) == Scored(ranked, Norms(ranked), Gate(probs, thr), thr)

\* recommend: the pick, and the pool the tilt may choose from.
Recommend(gated, probs, thr) ==
  [pick |-> CHOOSE a \in gated : \A b \in gated \ {a} : Ahead(a, b),
   pool |-> {a \in gated : Cardinality({b \in gated : Ahead(b, a)}) < TopK},
   dom |-> Dominant(probs), mode |-> GateMode(probs, thr)]

(***************************************************************************)
(* match_card without odds: the likeliest score, nothing to choose from.   *)
(***************************************************************************)
Modal(f) == CHOOSE a \in Cells : \A b \in Cells \ {a} :
              \/ ScoreProb(f, a) > ScoreProb(f, b)
              \/ ScoreProb(f, a) = ScoreProb(f, b) /\ LoopsFirst(a, b)

Bare(c) == [at |-> c, dir |-> Direction(c), p |-> 0, ev |-> 0, score |-> 0]

ModalCard(f) == [pick |-> Bare(Modal(f)), pool |-> {}, dom |-> Dominant(f.probs),
                 mode |-> "none"]

\* build_card's card when match_card raises (a stage the rules do not know).
AlertCard == [pick |-> Bare(<<0, 0>>), pool |-> {}, dom |-> "D", mode |-> "alert"]

(***************************************************************************)
(* The shootout is predicted for a knockout match that may well be level:  *)
(* for the side with the higher rating, of equals for the home side.       *)
(***************************************************************************)
KnockoutStages == {"R32", "R16", "QF", "SF", "3rd", "Final"}

PenaltyWinner(f, stage, awayAhead) ==
  CASE stage \notin KnockoutStages \/ f.probs["D"] < 15 -> "none"
    [] stage \in KnockoutStages /\ f.probs["D"] >= 15 -> IF awayAhead THEN "A" ELSE "H"

-----------------------------------------------------------------------------
(***************************************************************************)
(* The tilt.  A table gives the points of each participant in it; the      *)
(* pressure is in percent, above zero for somebody who is behind.          *)
(***************************************************************************)
NoContext == [left |-> 0, yours |-> 0, leader |-> 0, second |-> 0]

StandingsContext(table, left, me) ==
  IF Cardinality(DOMAIN table) < 2 \/ me \notin DOMAIN table THEN NoContext
  ELSE LET first == CHOOSE x \in DOMAIN table :
                      \A y \in DOMAIN table : table[y] <= table[x]
           second == CHOOSE x \in DOMAIN table \ {first} :
                       \A y \in DOMAIN table \ {first} : table[y] <= table[x]
       IN [left |-> left, yours |-> table[me],
           leader |-> table[first], second |-> table[second]]

Swing == 6

\* Slip: the lead is not turned into a wish for less variance.
PressureUnsigned(ctx) ==
  IF ctx.left <= 0 THEN 0
  ELSE IF ctx.yours < ctx.leader
       THEN AtMost(100, (100 * (ctx.leader - ctx.yours)) \div (ctx.left * Swing))
       ELSE AtMost(100, (100 * AtLeast(0, ctx.yours - ctx.second))
                          \div (ctx.left * Swing))

RiskPressure(ctx) ==
  IF ctx.left <= 0 THEN 0
  ELSE IF ctx.yours < ctx.leader
       THEN AtMost(100, (100 * (ctx.leader - ctx.yours)) \div (ctx.left * Swing))
       ELSE -AtMost(100, (100 * AtLeast(0, ctx.yours - ctx.second))
                           \div (ctx.left * Swing))

\* What the tilt makes of the pressure.
TiltForce(ctx, tilt) == (RiskPressure(ctx) * tilt) \div 100

\* Points if the score comes true: expected points over its probability.
Upside(r) == (1000 * r.ev) \div AtLeast(1, r.p)

\* How far a candidate's upside is from the pool's least to its largest.
Risk(r, pool) ==
  LET ups == {Upside(x) : x \in pool}
      lo == CHOOSE x \in ups : \A y \in ups : x <= y
      hi == CHOOSE x \in ups : \A y \in ups : x >= y
  IN IF hi = lo THEN 0 ELSE (100 * (Upside(r) - lo)) \div (hi - lo)

Tilting(r, rec, force) == 10000 * r.ev + force * Risk(r, rec.pool) * rec.pick.ev

\* a comes before b in the pool sorted by the tilted value.
Preferred(a, b, x, y) == x > y \/ (x = y /\ Ahead(a, b))

Strategize(rec, force) ==
  CHOOSE a \in rec.pool : \A b \in rec.pool \ {a} :
    Preferred(a, b, Tilting(a, rec, force), Tilting(b, rec, force))

(***************************************************************************)
(* recommend_to_win: nothing is changed without a context, a tilt, some    *)
(* pressure and a pool (a card without odds has none).                     *)
(***************************************************************************)
RecommendToWin(rec, ctx, tilt) ==
  IF ctx = NoContext \/ tilt = 0 \/ rec.pool = {} \/ RiskPressure(ctx) = 0
  THEN rec.pick ELSE Strategize(rec, TiltForce(ctx, tilt))
=============================================================================
