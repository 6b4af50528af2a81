---------------------------- MODULE MCTickMessages ----------------------------
(***************************************************************************)
(* TickMessages for TLC: two matches that kick off together on the second   *)
(* of two days; a refresh moves one of them and names its teams.            *)
(***************************************************************************)
EXTENDS TickMessages, TLC

CONSTANTS m1, m2

MCCalendars ==
  << (m1 :> [ko |-> 3, known |-> TRUE]) @@ (m2 :> [ko |-> 3, known |-> FALSE]),
     (m1 :> [ko |-> 3, known |-> TRUE]) @@ (m2 :> [ko |-> 3, known |-> TRUE]),
     (m1 :> [ko |-> 3, known |-> TRUE]) @@ (m2 :> [ko |-> 4, known |-> TRUE]) >>
=============================================================================
