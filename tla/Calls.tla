-------------------------------- MODULE Calls --------------------------------
(***************************************************************************)
(* Completions by a chain of language-model providers: the worker threads  *)
(* of one process, the token bucket each provider has in that process, and *)
(* the ledger of calls in the database, which outlives it.                 *)
(*                                                                         *)
(* A completion (LLMRouter.complete_validated) first asks the ledger about *)
(* every provider of the chain, then calls the ones left in chain order    *)
(* until one returns a body that passes the caller's validation.  A call   *)
(* waits for the provider's bucket, at most Timeout; it is written to the  *)
(* ledger when it has ended.                                               *)
(*                                                                         *)
(* Providers are numbered in chain order.  Tokens are counted in shares of *)
(* a call: a call of provider p costs Per[p] shares, one instant brings    *)
(* Limit[p] shares, so the bucket gains Limit[p] calls every Per[p].       *)
(***************************************************************************)
EXTENDS Integers, Sequences, FiniteSets

CONSTANTS Threads,       \* threads that run completions
          Chain,         \* providers are 1..Chain, in the order of the chain
          Keyed,         \* providers with a key
          Limit, Per,    \* PROVIDER_LIMITS[p]["rate"] and ["per"]
          Budget,        \* PROVIDER_LIMITS[p]["budget"]; 0: none
          Timeout,       \* rate_timeout of external_call
          Answering,     \* longest time a provider takes to answer or fail
          PeriodStarts,  \* instants at which a budget period begins
          Horizon,       \* no completion begins after this instant
          MaxTime        \* last instant of the clock

Providers == 1..Chain
None == 0

ASSUME ChainAssumption == Chain \in Nat \ {0} /\ Keyed \subseteq Providers
ASSUME ThreadsAssumption == IsFiniteSet(Threads) /\ Threads # {}
ASSUME LimitsAssumption == /\ Limit \in [Providers -> Nat \ {0}]
                           /\ Per \in [Providers -> Nat \ {0}]
                           /\ Budget \in [Providers -> Nat]
ASSUME TimeAssumption == /\ Timeout \in Nat /\ Answering \in Nat \ {0}
                         /\ PeriodStarts \subseteq Nat
                         /\ Horizon \in Nat /\ MaxTime \in Nat

VARIABLES now,
          tokens, stamp,         \* TokenBucket.tokens and ._ts, per provider
          used,                  \* units of this period in the ledger
          pc, next,              \* where each thread is, and at which provider
          todo, skipped, tried,  \* available, self._last_skips, tried
          limit,                 \* instant at which the present wait or call ends
          winner,                \* self.last_provider
          grants, sent, dropped  \* history: times of the calls; calls of this
                                 \* period; calls of this period with no row

bucket == <<tokens, stamp>>
ledger == <<used, dropped>>
vars == <<now, tokens, stamp, used, pc, next, todo, skipped, tried, limit,
          winner, grants, sent, dropped>>

Places == {"idle", "done", "checking", "choosing", "waiting", "calling"}

Init == /\ now = 0
        /\ tokens = [p \in Providers |-> Limit[p] * Per[p]]
        /\ stamp = [p \in Providers |-> 0]
        /\ used \in [Providers -> UNION {0..Budget[p] : p \in Providers}]
        /\ \A p \in Providers : used[p] <= Budget[p]
        /\ pc = [t \in Threads |-> "idle"]
        /\ next = [t \in Threads |-> 1]
        /\ todo = [t \in Threads |-> {}]
        /\ skipped = [t \in Threads |-> {}]
        /\ tried = [t \in Threads |-> {}]
        /\ limit = [t \in Threads |-> 0]
        /\ winner = [t \in Threads |-> None]
        /\ grants = [p \in Providers |-> <<>>]
        /\ sent = [p \in Providers |-> 0]
        /\ dropped = [p \in Providers |-> 0]

(***************************************************************************)
(* The bucket.  Refill and the take are one step under the bucket's lock.  *)
(***************************************************************************)
Capacity(p) == Limit[p] * Per[p]

\* Slip: the bucket overflows.
RefilledPastFull(p) == tokens[p] + (now - stamp[p]) * Limit[p]

Refilled(p) ==
  LET full == tokens[p] + (now - stamp[p]) * Limit[p]
  IN IF full > Capacity(p) THEN Capacity(p) ELSE full

\* Slip: a poll that takes nothing adds the tokens but forgets the time.
RefillTwice(p, taken) ==
  /\ tokens' = [tokens EXCEPT ![p] = Refilled(p) - taken]
  /\ stamp' = IF taken = 0 THEN stamp ELSE [stamp EXCEPT ![p] = now]

Refill(p, taken) == /\ tokens' = [tokens EXCEPT ![p] = Refilled(p) - taken]
                    /\ stamp' = [stamp EXCEPT ![p] = now]

(***************************************************************************)
(* The ledger.  A call is one unit; the row that adds the number of tokens *)
(* of the text is none.  A failed INSERT drops the row and nobody is told. *)
(***************************************************************************)
CallUnits == 1
\* Slip: the row for the tokens counts as a second call.
TokenRowCounts == 1

TokenRowUnits == 0

\* Slip: the last unit of the budget does not exhaust it.
OverBudgetLate(p) == Budget[p] # 0 /\ used[p] > Budget[p]

OverBudget(p) == Budget[p] # 0 /\ used[p] >= Budget[p]

Insert(p, units) == used' = [used EXCEPT ![p] = @ + units]

Record(p, units) == \/ Insert(p, units) /\ UNCHANGED dropped
                    \/ dropped' = [dropped EXCEPT ![p] = @ + 1] /\ UNCHANGED used

(***************************************************************************)
(* A completion begins, with a router of its own: the lists are empty.     *)
(***************************************************************************)
Begin(t) == /\ pc[t] \in {"idle", "done"} /\ now <= Horizon
            /\ pc' = [pc EXCEPT ![t] = "checking"]
            /\ next' = [next EXCEPT ![t] = 1]
            /\ todo' = [todo EXCEPT ![t] = {}]
            /\ skipped' = [skipped EXCEPT ![t] = {}]
            /\ tried' = [tried EXCEPT ![t] = {}]
            /\ winner' = [winner EXCEPT ![t] = None]
            /\ UNCHANGED <<now, bucket, ledger, limit, grants, sent>>

(***************************************************************************)
(* _ordered_available, one provider at a time.  A provider without a key,  *)
(* over its budget, or whose use of the budget cannot be read (which may   *)
(* happen at any moment) is skipped; without a budget nothing is read.     *)
(***************************************************************************)
Advance(t) == /\ next' = [next EXCEPT ![t] = @ + 1]
              /\ pc' = IF next[t] = Chain THEN [pc EXCEPT ![t] = "choosing"]
                                          ELSE pc

Keep(t) == /\ pc[t] = "checking"
           /\ next[t] \in Keyed /\ ~OverBudget(next[t])
           /\ todo' = [todo EXCEPT ![t] = @ \cup {next[t]}]
           /\ Advance(t)
           /\ UNCHANGED <<now, bucket, ledger, skipped, tried, limit, winner,
                          grants, sent>>

MayBeSkipped(p) == p \notin Keyed \/ Budget[p] # 0

Skip(t) == /\ pc[t] = "checking"
           /\ MayBeSkipped(next[t])
           /\ skipped' = [skipped EXCEPT ![t] = @ \cup {next[t]}]
           /\ Advance(t)
           /\ UNCHANGED <<now, bucket, ledger, todo, tried, limit, winner,
                          grants, sent>>

(***************************************************************************)
(* The loop over the providers left, in chain order; external_call starts  *)
(* to wait for the bucket.                                                 *)
(***************************************************************************)
\* Slip: any provider left, not the first of the chain.
ChooseAny(t) == /\ pc[t] = "choosing"
                /\ \E p \in todo[t] :
                     /\ next' = [next EXCEPT ![t] = p]
                     /\ todo' = [todo EXCEPT ![t] = @ \ {p}]
                /\ pc' = [pc EXCEPT ![t] = "waiting"]
                /\ limit' = [limit EXCEPT ![t] = now + Timeout]
                /\ UNCHANGED <<now, bucket, ledger, skipped, tried, winner,
                               grants, sent>>

\* Slip: the provider stays on the list and is tried again.
ChooseAgain(t) == /\ pc[t] = "choosing"
                  /\ \E p \in todo[t] :
                       /\ \A q \in todo[t] : p <= q
                       /\ next' = [next EXCEPT ![t] = p]
                  /\ pc' = [pc EXCEPT ![t] = "waiting"]
                  /\ limit' = [limit EXCEPT ![t] = now + Timeout]
                  /\ UNCHANGED <<now, bucket, ledger, todo, skipped, tried,
                                 winner, grants, sent>>

Choose(t) == /\ pc[t] = "choosing"
             /\ \E p \in todo[t] :
                  /\ \A q \in todo[t] : p <= q
                  /\ next' = [next EXCEPT ![t] = p]
                  /\ todo' = [todo EXCEPT ![t] = @ \ {p}]
             /\ pc' = [pc EXCEPT ![t] = "waiting"]
             /\ limit' = [limit EXCEPT ![t] = now + Timeout]
             /\ UNCHANGED <<now, bucket, ledger, skipped, tried, winner,
                            grants, sent>>

GiveUp(t) == /\ pc[t] = "choosing" /\ todo[t] = {}
             /\ pc' = [pc EXCEPT ![t] = "done"]
             /\ UNCHANGED <<now, bucket, ledger, next, todo, skipped, tried,
                            limit, winner, grants, sent>>

(***************************************************************************)
(* One turn of TokenBucket.acquire: a token is there and the call goes     *)
(* out; or the deadline has passed, which writes a row and counts as a     *)
(* failure of the provider; or the thread sleeps and tries again.          *)
(***************************************************************************)
Acquire(t) == LET p == next[t] IN
  /\ pc[t] = "waiting" /\ Refilled(p) >= Per[p]
  /\ Refill(p, Per[p])
  /\ pc' = [pc EXCEPT ![t] = "calling"]
  /\ limit' = [limit EXCEPT ![t] = now + Answering]
  /\ grants' = [grants EXCEPT ![p] = Append(@, now)]
  /\ sent' = [sent EXCEPT ![p] = @ + 1]
  /\ UNCHANGED <<now, ledger, next, todo, skipped, tried, winner>>

Fail(t) == /\ tried' = [tried EXCEPT ![t] = @ \cup {next[t]}]
           /\ pc' = [pc EXCEPT ![t] = "choosing"]
           /\ limit' = [limit EXCEPT ![t] = 0]

Blocked(t) == LET p == next[t] IN
  /\ pc[t] = "waiting" /\ Refilled(p) < Per[p]
  /\ now >= limit[t]
  /\ Refill(p, 0)
  /\ Insert(p, CallUnits) \/ UNCHANGED used
  /\ Fail(t)
  /\ UNCHANGED <<now, next, todo, skipped, winner, grants, sent, dropped>>

PollAgain(t) == LET p == next[t] IN
  /\ pc[t] = "waiting" /\ Refilled(p) < Per[p]
  /\ now < limit[t]
  /\ Refill(p, 0)
  /\ UNCHANGED <<now, ledger, pc, next, todo, skipped, tried, limit, winner,
                 grants, sent>>

(***************************************************************************)
(* The call ends and is recorded.  It has returned a usable body; or it    *)
(* raised, or its body fails the validation, and the next provider is due. *)
(* The row for the number of tokens follows a call that returned.          *)
(***************************************************************************)
Answered(t) == LET p == next[t] IN
  /\ pc[t] = "calling"
  /\ Record(p, CallUnits + TokenRowUnits)
  /\ winner' = [winner EXCEPT ![t] = p]
  /\ pc' = [pc EXCEPT ![t] = "done"]
  /\ limit' = [limit EXCEPT ![t] = 0]
  /\ UNCHANGED <<now, bucket, next, todo, skipped, tried, grants, sent>>

Failed(t) == LET p == next[t] IN
  /\ pc[t] = "calling"
  /\ Record(p, CallUnits + TokenRowUnits)
  /\ Fail(t)
  /\ UNCHANGED <<now, bucket, next, todo, skipped, winner, grants, sent>>

(***************************************************************************)
(* The clock.  A thread's own work takes no time next to an instant, and a *)
(* waiting thread polls often (every 0.05 s), so its deadline does not     *)
(* pass unseen; a provider's own timeout ends a call.                      *)
(* At the start of a budget period the ledger's sums start again.          *)
(***************************************************************************)
InTime(t) == \/ pc[t] \in {"idle", "done"}
             \/ pc[t] \in {"waiting", "calling"} /\ now < limit[t]

Tick == /\ now < MaxTime
        /\ \A t \in Threads : InTime(t)
        /\ now' = now + 1
        /\ IF now + 1 \in PeriodStarts
           THEN /\ used' = [p \in Providers |-> 0]
                /\ sent' = [p \in Providers |-> 0]
                /\ dropped' = [p \in Providers |-> 0]
           ELSE UNCHANGED <<used, sent, dropped>>
        /\ UNCHANGED <<bucket, pc, next, todo, skipped, tried, limit, winner,
                       grants>>

Step(t) == \/ Keep(t) \/ Skip(t) \/ Choose(t) \/ GiveUp(t)
           \/ Acquire(t) \/ Blocked(t) \/ PollAgain(t)
           \/ Answered(t) \/ Failed(t)

Next == Tick \/ \E t \in Threads : Begin(t) \/ Step(t)

Spec == /\ Init /\ [][Next]_vars
        /\ SF_vars(Tick) /\ \A t \in Threads : WF_vars(Step(t))

-----------------------------------------------------------------------------
(***************************************************************************)
(* Properties                                                              *)
(***************************************************************************)

(***************************************************************************)
(* Every variable keeps its type; a bucket never holds more than its       *)
(* capacity or less than nothing, and was not refilled in the future.      *)
(***************************************************************************)
TypeOK == /\ now \in Nat
          /\ tokens \in [Providers -> Nat]
          /\ \A p \in Providers : tokens[p] <= Capacity(p)
          /\ stamp \in [Providers -> Nat] /\ \A p \in Providers : stamp[p] <= now
          /\ used \in [Providers -> Nat]
          /\ pc \in [Threads -> Places]
          /\ next \in [Threads -> Nat]
          /\ \A t \in Threads : pc[t] \in {"checking", "waiting", "calling"}
                                 => next[t] \in Providers
          /\ todo \in [Threads -> SUBSET Providers]
          /\ skipped \in [Threads -> SUBSET Providers]
          /\ tried \in [Threads -> SUBSET Providers]
          /\ limit \in [Threads -> Nat]
          /\ winner \in [Threads -> Providers \cup {None}]
          /\ grants \in [Providers -> Seq(Nat)]
          /\ sent \in [Providers -> Nat] /\ dropped \in [Providers -> Nat]

(***************************************************************************)
(* However the threads of the process interleave, the calls to a provider  *)
(* in any stretch of time, from one call to another, are at most one full  *)
(* bucket and what the rate brings in that stretch (ratelimit.py:3-5).     *)
(***************************************************************************)
EveryWindowBounded ==
  \A p \in Providers : \A i, j \in DOMAIN grants[p] :
    i <= j => (j - i + 1) * Per[p]
                <= Capacity(p) + Limit[p] * (grants[p][j] - grants[p][i])

(***************************************************************************)
(* Threads check the budget long before their calls are recorded.  Those   *)
(* that were cleared may all go out, so the ledger can pass the budget by  *)
(* one call of every thread but the one that found room, and no further.   *)
(***************************************************************************)
OvershootBounded ==
  \A p \in Providers :
    Budget[p] # 0 => used[p] <= Budget[p] + Cardinality(Threads) - 1

(***************************************************************************)
(* The same for the calls the provider really got in this period: only the *)
(* rows the ledger dropped add to it.                                      *)
(***************************************************************************)
CallsWithinBudget ==
  \A p \in Providers :
    Budget[p] # 0 => sent[p] <= Budget[p] + Cardinality(Threads) - 1 + dropped[p]

(***************************************************************************)
(* What a finished completion says of itself accounts for the chain: each  *)
(* provider before the one that answered is either skipped or tried, never *)
(* both, and after a failure every provider is (the card's audit stamp).   *)
(***************************************************************************)
AuditComplete ==
  \A t \in Threads : pc[t] = "done" =>
    /\ skipped[t] \cap tried[t] = {}
    /\ IF winner[t] = None
       THEN skipped[t] \cup tried[t] = Providers
       ELSE /\ \A q \in 1..(winner[t] - 1) : q \in skipped[t] \cup tried[t]
            /\ winner[t] \notin skipped[t] \cup tried[t]

(***************************************************************************)
(* A completion ends, with an answer or with AllProvidersFailed, however   *)
(* many threads contend for the tokens: the bucket is not fair, but the    *)
(* deadline is.                                                            *)
(***************************************************************************)
CompletionsEnd == \A t \in Threads : pc[t] = "checking" ~> pc[t] = "done"
=============================================================================
