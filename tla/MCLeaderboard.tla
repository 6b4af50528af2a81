---------------------------- MODULE MCLeaderboard ----------------------------
(***************************************************************************)
(* Leaderboard and the client for TLC: Me, and a player who may come and   *)
(* leave.  The two share no state but the network, so a behaviour          *)
(* follows either the copying job or a process that uses the client.       *)
(***************************************************************************)
EXTENDS Leaderboard, Negev, TLC

CONSTANTS me, p, t1, t2

\* One option that agrees from the second tier on, and a choice that agrees with none.
MCOptions == "winner" :> <<"Curacao", "Brazil">>
MCOptionKey == [k \in 1..5 |->
  ("Curacao" :> IF k = 1 THEN "team_c" ELSE "curacao") @@ ("Brazil" :> "brazil")]
MCChoices == {"curacao", "vinicius"}
MCChoiceKey == [k \in 1..5 |-> ("curacao" :> "curacao") @@ ("vinicius" :> "vinicius")]

MCKinds == t1 :> DOMAIN Requests @@ t2 :> {"matches"}

NoClient == step = [t \in Threads |-> "idle"] /\ clock = 0 /\ ops = 0 /\ ~started
            /\ ~allowed
NoJob == pc = "idle" /\ members = {} /\ version = 1 /\ scored = 0 /\ resolved = {}
           /\ dpc = "idle" /\ faults = 0 /\ known = {} /\ left = {} /\ got = 0

\* Who may not write signs in by password; the two settings do not meet in any step.
MCInit == Init /\ NegevInit /\ (seeded => allowed)
MCNext == \/ Next /\ NoClient /\ UNCHANGED negevVars
          \/ NegevNext /\ NoJob /\ UNCHANGED vars
MCSpec == MCInit /\ [][MCNext]_<<vars, negevVars>> /\ WF_vars(Fetch) /\ WF_vars(Job)
=============================================================================
