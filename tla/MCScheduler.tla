----------------------------- MODULE MCScheduler -----------------------------
(***************************************************************************)
(* Instances of Scheduler for TLC.  One time unit stands for about five    *)
(* minutes near a kickoff; two windows are kept (an early one and the lock).*)
(***************************************************************************)
EXTENDS Scheduler, TLC

CONSTANTS m1, m2, early, lock, w1, w2

MCLead == (early :> 3) @@ (lock :> 1)

MCLeadLock == lock :> 2

\* Version 1: m2 is a knockout row whose teams are not known yet.
\* Version 2: its teams are resolved and m1 is moved one unit later.
TwoMatches ==
  << (m1 :> [ko |-> 4, open |-> TRUE]) @@ (m2 :> [ko |-> 5, open |-> FALSE]),
     (m1 :> [ko |-> 5, open |-> TRUE]) @@ (m2 :> [ko |-> 5, open |-> TRUE]) >>

OneMatch == << m1 :> [ko |-> 3, open |-> TRUE] >>

\* The first process opens the ledger file.
OpenedInit == Init /\ ~volatile
OpenedFairSpec == OpenedInit /\ [][Next]_vars /\ Fairness

WorkerSymmetry == Permutations(Workers)
=============================================================================
