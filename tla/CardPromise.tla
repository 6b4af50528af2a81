----------------------------- MODULE CardPromise -----------------------------
(***************************************************************************)
(* What the dispatcher promises the user about one (match, window): the     *)
(* window is claimed once, at most one card is sent while the claim is open, *)
(* and nothing is sent before the claim or after it is settled.  A claim may *)
(* stay open for ever (the process died, or an exception after the claim):   *)
(* delivery is at most once, not exactly once.                               *)
(***************************************************************************)
EXTENDS Naturals

CONSTANT Jobs

VARIABLES
  phase,   \* "open" -> "claimed" -> "settled"
  sent     \* number of cards the user got

vars == <<phase, sent>>

Init ==
  /\ phase = [k \in Jobs |-> "open"]
  /\ sent = [k \in Jobs |-> 0]

Claim(k) ==
  /\ phase[k] = "open"
  /\ phase' = [phase EXCEPT ![k] = "claimed"]
  /\ UNCHANGED sent

Send(k) ==
  /\ phase[k] = "claimed" /\ sent[k] = 0
  /\ sent' = [sent EXCEPT ![k] = 1]
  /\ UNCHANGED phase

Settle(k) ==
  /\ phase[k] = "claimed"
  /\ phase' = [phase EXCEPT ![k] = "settled"]
  /\ UNCHANGED sent

Next == \E k \in Jobs : Claim(k) \/ Send(k) \/ Settle(k)

Spec == Init /\ [][Next]_vars
=============================================================================
