------------------------------ MODULE Bracket -------------------------------
(***************************************************************************)
(* One simulated tournament: the groups, the best thirds, the seeding of   *)
(* the first knockout round, the knockout sweeps.  A team is its group and *)
(* its place in the group's list; goals and shootouts are drawn at random, *)
(* so any score of Draws and either winner of a knockout match may come.   *)
(***************************************************************************)
EXTENDS Integers, Sequences, FiniteSets, SequencesExt

CONSTANTS Groups,  \* the groups, in the order of the file
          Kept,    \* k of _best_third_placed
          Draws    \* what rng may deliver for the six matches of a group

Teams == {<<g, n>> : g \in ToSet(Groups), n \in 1..4}
Size == 2 * Len(Groups) + Kept
Half == Size \div 2

VARIABLES pc,
          standings,  \* standings[i]: the ranked rows of the i-th group
          advancers,  \* the rows that advance, in the order of their seeds
          taken,      \* used: seeds that have an opponent
          seed,       \* the seed whose turn it is
          pairs,      \* the pairs of the round that is played, or being drawn
          winners,    \* of that round, so far
          rounds,     \* rounds still to play
          reached     \* the stage every team has reached

vars == <<pc, standings, advancers, taken, seed, pairs, winners, rounds, reached>>

-----------------------------------------------------------------------------
Fixtures == << <<1, 2>>, <<3, 4>>, <<1, 3>>, <<2, 4>>, <<1, 4>>, <<2, 3>> >>

\* Goals for and against team n in match m.
Goals(scores, n, m) ==
  IF Fixtures[m][1] = n THEN scores[m] ELSE <<scores[m][2], scores[m][1]>>

Points(goals) == IF goals[1] > goals[2] THEN 3 ELSE IF goals[1] = goals[2] THEN 1 ELSE 0

Row(g, scores, n) ==
  LET played == {m \in 1..6 : n \in {Fixtures[m][1], Fixtures[m][2]}}
      sum(f(_)) == MapThenSumSet(f, played)
  IN [team |-> <<g, n>>, group |-> g,
      pts |-> sum(LAMBDA m : Points(Goals(scores, n, m))),
      gd  |-> sum(LAMBDA m : Goals(scores, n, m)[1] - Goals(scores, n, m)[2]),
      gf  |-> sum(LAMBDA m : Goals(scores, n, m)[1])]

Better(a, b) == \/ a.pts > b.pts
                \/ a.pts = b.pts /\ a.gd > b.gd
                \/ a.pts = b.pts /\ a.gd = b.gd /\ a.gf > b.gf

\* Python's sort is stable: of equals, the one that came first stays first.
Ranked(rows) ==
  LET before(i, j) == Better(rows[i], rows[j]) \/ (~Better(rows[j], rows[i]) /\ i < j)
      order == SetToSortSeq(DOMAIN rows, before)
  IN [k \in DOMAIN rows |-> rows[order[k]]]

SimulateGroup(g, scores) == Ranked([n \in 1..4 |-> Row(g, scores, n)])

BestThirds == SubSeq(Ranked([i \in DOMAIN standings |-> standings[i][3]]), 1, Kept)

\* Winners before runners-up before thirds; within a tier by the table.
Seeded ==
  Ranked([i \in DOMAIN standings |-> standings[i][1]])
    \o Ranked([i \in DOMAIN standings |-> standings[i][2]]) \o BestThirds

-----------------------------------------------------------------------------
Init ==
  /\ pc = "groups" /\ standings = <<>> /\ advancers = <<>>
  /\ taken = {} /\ seed = 1 /\ pairs = <<>> /\ winners = <<>>
  /\ rounds = <<"r16", "qf", "sf", "final", "champion">>
  /\ reached = [t \in Teams |-> "group_only"]

PlayGroup ==
  /\ pc = "groups" /\ Len(standings) < Len(Groups)
  /\ \E scores \in Draws :
       standings' = Append(standings, SimulateGroup(Groups[Len(standings) + 1], scores))
  /\ UNCHANGED <<pc, advancers, taken, seed, pairs, winners, rounds, reached>>

Qualify ==
  /\ pc = "groups" /\ Len(standings) = Len(Groups) /\ pc' = "drawing"
  /\ advancers' = Seeded
  /\ reached' = [t \in Teams |-> IF \E i \in DOMAIN Seeded : Seeded[i].team = t
                                 THEN "r32" ELSE reached[t]]
  /\ UNCHANGED <<standings, taken, seed, pairs, winners, rounds>>

(***************************************************************************)
(* One turn of the loop of _build_r32_bracket.  The opponent is the mirror *)
(* image of the seed; from the same group, it is the nearest free seed     *)
(* above that is not, if there is one.  The mirror image is taken whether  *)
(* it is free or not.                                                      *)
(***************************************************************************)
Opponent(i) ==
  LET mirror == Size + 1 - i
      other == {j \in (i + 1)..(mirror - 1) :
                  j \notin taken /\ advancers[j].group # advancers[i].group}
  IN IF advancers[i].group # advancers[mirror].group \/ other = {} THEN mirror
     ELSE CHOOSE j \in other : \A k \in other : k <= j

DrawPair ==
  /\ pc = "drawing" /\ seed <= Half
  /\ IF seed \in taken THEN UNCHANGED <<taken, pairs>>
     ELSE /\ taken' = taken \cup {seed, Opponent(seed)}
          /\ pairs' = Append(pairs, <<advancers[seed].team, advancers[Opponent(seed)].team>>)
  /\ seed' = seed + 1
  /\ UNCHANGED <<pc, standings, advancers, winners, rounds, reached>>

StartKnockout ==
  /\ pc = "drawing" /\ seed > Half /\ pc' = "knockout"
  /\ UNCHANGED <<standings, advancers, taken, seed, pairs, winners, rounds, reached>>

PlayKnockout ==
  /\ pc = "knockout" /\ Len(winners) < Len(pairs)
  /\ \E w \in ToSet(pairs[Len(winners) + 1]) :
       /\ winners' = Append(winners, w)
       /\ reached' = [reached EXCEPT ![w] = Head(rounds)]
  /\ UNCHANGED <<pc, standings, advancers, taken, seed, pairs, rounds>>

\* An odd number of winners, and the sweep raises.
NextRound ==
  /\ pc = "knockout" /\ Len(winners) = Len(pairs) /\ Len(rounds) > 1
  /\ CASE Len(winners) <= 1 -> pc' = "over" /\ UNCHANGED <<pairs, winners, rounds>>
       [] Len(winners) > 1 /\ Len(winners) % 2 = 1 ->
            pc' = "raised" /\ UNCHANGED <<pairs, winners, rounds>>
       [] Len(winners) > 1 /\ Len(winners) % 2 = 0 ->
            /\ pairs' = [i \in 1..(Len(winners) \div 2) |->
                           <<winners[2 * i - 1], winners[2 * i]>>]
            /\ winners' = <<>> /\ rounds' = Tail(rounds) /\ UNCHANGED pc
  /\ UNCHANGED <<standings, advancers, taken, seed, reached>>

Next == PlayGroup \/ Qualify \/ DrawPair \/ StartKnockout \/ PlayKnockout \/ NextRound

Spec == Init /\ [][Next]_vars
-----------------------------------------------------------------------------
\* "All 32 teams must appear exactly once" (tests/test_montecarlo.py:76): once the
\* draw is made, every team that advanced has one opponent.
EveryoneDrawnOnce ==
  pc = "drawing" /\ seed > Half =>
    \A i \in DOMAIN advancers :
      Cardinality({k \in DOMAIN pairs : advancers[i].team \in ToSet(pairs[k])}) = 1
=============================================================================
