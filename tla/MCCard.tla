------------------------------- MODULE MCCard -------------------------------
(***************************************************************************)
(* Card for TLC: T-60m with T-7m, the two windows with odds, or T-60m with *)
(* T-15m, the two that search; one time unit of about twenty minutes, four *)
(* goals a side at most.                                                   *)
(***************************************************************************)
EXTENDS Card, TLC

CONSTANTS me, pal

MCLead == ("T60" :> 3) @@ ("T15" :> 2) @@ ("T7" :> 1)
MCOrder == SelectSeq(<<"T7", "T15", "T60">>, LAMBDA w : w \in Windows)
MCQuota == [w \in Windows |-> CASE w = "T60" -> 2 [] w = "T15" -> 1 [] w = "T7" -> 0]
MCPrefer == <<"pinnacle", "betfair">>

\* _poisson(k, l / 10) in thousandths, k from 0 to 3.
MCPmf ==
  (8 :> <<449, 359, 144, 38>>) @@ (9 :> <<407, 366, 165, 49>>)
  @@ (10 :> <<368, 368, 184, 61>>) @@ (11 :> <<333, 366, 201, 74>>)
  @@ (12 :> <<301, 361, 217, 87>>) @@ (13 :> <<273, 354, 230, 100>>)
  @@ (14 :> <<247, 345, 242, 113>>) @@ (15 :> <<223, 335, 251, 126>>)
  @@ (16 :> <<202, 323, 258, 138>>) @@ (17 :> <<183, 311, 264, 150>>)

MCFit == <<1500, 1000>>
MCNeutral == <<1300, 1100>>

Fav  == [H |-> 15, D |-> 42, A |-> 65]
Even == [H |-> 27, D |-> 31, A |-> 29]

MCListings == {"pinnacle" :> Fav, ("other" :> Even) @@ ("another" :> Even)}

MCTexts == {[form |-> "json",    data |-> [home |-> -300, away |-> NaN, conf |-> "high"]],
            [form |-> "prose",   data |-> [home |-> -100, away |-> Junk, conf |-> "sure"]],
            [form |-> "fenced",  data |-> [home |-> Huge, away |-> 100, conf |-> "high"]],
            [form |-> "garbage", data |-> NonDict]}

MCSettings == {[stage |-> "QF", detonator |-> TRUE], [stage |-> "PLAYOFFS", detonator |-> FALSE]}

\* The lead changes hands while a card is built.
MCStandings == {[table |-> (me :> 10) @@ (pal :> 40), left |-> 5],
                [table |-> (me :> 45) @@ (pal :> 40), left |-> 5]}

\* Of the two later windows one has fired and failed, before the kickoff was put off.
MCFired == {{"T15"}, {"T7"}}

MCPeople == {me, pal}
MCOperator == me
MCOverrides == (pal :> 150)
=============================================================================
