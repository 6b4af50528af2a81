------------------------------- MODULE MCCalls -------------------------------
(***************************************************************************)
(* Calls for TLC: two threads, a cheap provider with a budget in front of  *)
(* one without.                                                            *)
(***************************************************************************)
EXTENDS Calls, TLC

MCLimit == <<2, 1>>
MCPer == <<2, 2>>
MCBudget == <<1, 0>>
=============================================================================
