------------------------------ MODULE MCResults ------------------------------
(***************************************************************************)
(* Results for TLC: a detonator match of the group stage, and a knockout    *)
(* match decided by penalties.                                              *)
(***************************************************************************)
EXTENDS Results, TLC

CONSTANTS g, k

MCMatches == {g, k}
MCPair == (g :> "AB") @@ (k :> "CD")
MCStage == (g :> "Group") @@ (k :> "R16")
MCFinal == (g :> <<2, 1>>) @@ (k :> <<1, 1>>)
MCPens == (g :> None) @@ (k :> <<3, 4>>)
MCPartial == (g :> {<<0, 0>>, <<2, 0>>}) @@ (k :> {<<1, 0>>})
MCPick == (g :> <<2, 1>>) @@ (k :> <<0, 0>>)
MCOdds == (g :> [H |-> 20, D |-> 30, A |-> 40]) @@ (k :> [H |-> 18, D |-> 31, A |-> 45])
MCBase == [group |-> 100, ko |-> 150, final |-> 200]
MCGrid == [group |-> (<<1, 0>> :> 150) @@ (<<2, 1>> :> 150),
           ko |-> (<<0, 0>> :> 375) @@ (<<1, 1>> :> 300),
           final |-> (<<0, 0>> :> 375)]
MCCap == [group |-> 450, ko |-> 825, final |-> 1100]
=============================================================================
