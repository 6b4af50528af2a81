----------------------------- MODULE CallsProofs -----------------------------
(***************************************************************************)
(* Proofs about Calls, for any number of threads and providers and for any *)
(* rates and budgets.                                                      *)
(***************************************************************************)
EXTENDS Calls, FiniteSetTheorems, TLAPS

(***************************************************************************)
(* What a bucket holds after a refill.                                     *)
(***************************************************************************)
LEMMA RefilledFacts ==
  ASSUME TypeOK, NEW p \in Providers
  PROVE  /\ Refilled(p) \in Nat /\ Refilled(p) <= Capacity(p)
         /\ Capacity(p) \in Nat
         /\ Limit[p] \in Nat /\ Per[p] \in Nat \ {0} /\ Budget[p] \in Nat
         /\ Refilled(p) <= tokens[p] + (now - stamp[p]) * Limit[p]
<1>1. /\ Limit[p] \in Nat /\ Per[p] \in Nat \ {0} /\ Budget[p] \in Nat
      /\ now \in Nat /\ stamp[p] \in Nat /\ stamp[p] <= now /\ tokens[p] \in Nat
  BY LimitsAssumption DEF TypeOK
<1>2. Capacity(p) \in Nat
  <2> DEFINE l == Limit[p]
             q == Per[p]
  <2>1. l \in Nat /\ q \in Nat
    BY <1>1
  <2> HIDE DEF l, q
  <2>2. l * q \in Nat
    BY <2>1, SMT
  <2> QED BY <2>2 DEF Capacity, l, q
<1>3. (now - stamp[p]) * Limit[p] \in Nat
  <2> DEFINE l == Limit[p]
             d == now - stamp[p]
  <2>1. l \in Nat /\ d \in Nat
    BY <1>1
  <2> HIDE DEF l, d
  <2>2. d * l \in Nat
    BY <2>1, SMT
  <2> QED BY <2>2 DEF d, l
<1> DEFINE brought == (now - stamp[p]) * Limit[p]
           room == Capacity(p)
<1>4. brought \in Nat /\ room \in Nat
  BY <1>2, <1>3
<1>5. Refilled(p) = IF tokens[p] + brought > room THEN room ELSE tokens[p] + brought
  BY DEF Refilled
<1> HIDE DEF brought, room
<1>6. /\ Refilled(p) \in Nat /\ Refilled(p) <= room
      /\ Refilled(p) <= tokens[p] + brought
  BY <1>1, <1>4, <1>5
<1> QED
  BY <1>1, <1>2, <1>6 DEF brought, room

(***************************************************************************)
(* The type invariant.                                                     *)
(***************************************************************************)
LEMMA InitType == Init => TypeOK
<1> SUFFICES ASSUME Init PROVE TypeOK
  OBVIOUS
<1>1. \A p \in Providers : Limit[p] \in Nat /\ Per[p] \in Nat /\ Limit[p] * Per[p] \in Nat
  <2> TAKE p \in Providers
  <2> DEFINE l == Limit[p]
             q == Per[p]
  <2>1. l \in Nat /\ q \in Nat
    BY LimitsAssumption
  <2> HIDE DEF l, q
  <2>2. l * q \in Nat
    BY <2>1, SMT
  <2> QED BY <2>1, <2>2 DEF l, q
<1>2. used \in [Providers -> Nat]
  <2>1. UNION {0..Budget[p] : p \in Providers} \subseteq Nat
    BY LimitsAssumption
  <2> QED BY <2>1 DEF Init
<1>3. tokens \in [Providers -> Nat] /\ \A p \in Providers : tokens[p] <= Capacity(p)
  <2>1. \A p \in Providers : tokens[p] = Capacity(p) /\ Capacity(p) \in Nat
    BY <1>1 DEF Init, Capacity
  <2>2. \A p \in Providers : tokens[p] \in Nat /\ tokens[p] <= Capacity(p)
    BY <2>1
  <2>3. tokens = [p \in Providers |-> tokens[p]]
    BY DEF Init
  <2> QED BY <2>2, <2>3
<1>4. stamp \in [Providers -> Nat] /\ \A p \in Providers : stamp[p] <= now
  BY DEF Init
<1>5. grants \in [Providers -> Seq(Nat)]
  BY DEF Init
<1> QED
  BY <1>2, <1>3, <1>4, <1>5 DEF Init, TypeOK, Places, None

(***************************************************************************)
(* Every refill leaves the bucket within its bounds.                       *)
(***************************************************************************)
LEMMA RefillType ==
  ASSUME TypeOK, NEW p \in Providers, NEW taken \in Nat,
         taken <= Refilled(p), Refill(p, taken), now' = now
  PROVE  /\ tokens' \in [Providers -> Nat]
         /\ \A q \in Providers : tokens'[q] <= Capacity(q)
         /\ stamp' \in [Providers -> Nat]
         /\ \A q \in Providers : stamp'[q] <= now'
<1>1. /\ Refilled(p) - taken \in Nat
      /\ Refilled(p) - taken <= Capacity(p)
  BY RefilledFacts
<1> QED
  BY <1>1 DEF Refill, TypeOK

LEMMA StepType == TypeOK /\ [Next]_vars => TypeOK'
<1> SUFFICES ASSUME TypeOK, [Next]_vars PROVE TypeOK'
  OBVIOUS
<1>1. CASE Tick
  <2>1. UNCHANGED <<tokens, stamp, pc, next, todo, skipped, tried, limit, winner, grants>>
    BY <1>1 DEF Tick, bucket
  <2>2. now' \in Nat /\ \A p \in Providers : stamp'[p] <= now'
    BY <1>1, <2>1 DEF TypeOK, Tick
  <2>3. /\ used' \in [Providers -> Nat] /\ sent' \in [Providers -> Nat]
        /\ dropped' \in [Providers -> Nat]
    <3>1. CASE now + 1 \in PeriodStarts
      BY <1>1, <3>1 DEF Tick
    <3>2. CASE now + 1 \notin PeriodStarts
      BY <1>1, <3>2 DEF Tick, TypeOK
    <3> QED BY <3>1, <3>2
  <2> QED BY <2>1, <2>2, <2>3 DEF TypeOK
<1>2. ASSUME NEW t \in Threads, Begin(t) PROVE TypeOK'
  <2>1. 1 \in Providers
    BY ChainAssumption DEF Providers
  <2> QED BY <1>2, <2>1 DEF Begin, TypeOK, bucket, ledger, Places
<1>3. ASSUME NEW t \in Threads, Keep(t) \/ Skip(t) PROVE TypeOK'
  <2>1. next[t] \in Providers /\ pc[t] = "checking"
    BY <1>3 DEF Keep, Skip, TypeOK
  <2>2. Advance(t) /\ UNCHANGED <<now, tokens, stamp, used, dropped, tried, limit, winner, grants, sent>>
    BY <1>3 DEF Keep, Skip, bucket, ledger
  <2>3. todo' \in [Threads -> SUBSET Providers] /\ skipped' \in [Threads -> SUBSET Providers]
    <3>1. CASE Keep(t)
      BY <2>1, <3>1 DEF Keep, TypeOK
    <3>2. CASE Skip(t)
      BY <2>1, <3>2 DEF Skip, TypeOK
    <3> QED BY <1>3, <3>1, <3>2
  <2>4. pc' \in [Threads -> Places] /\ next' \in [Threads -> Nat]
    BY <2>1, <2>2 DEF Advance, TypeOK, Places, Providers
  <2>5. \A u \in Threads : pc'[u] \in {"checking", "waiting", "calling"} => next'[u] \in Providers
    <3>1. next[t] # Chain => next[t] + 1 \in Providers
      BY <2>1, ChainAssumption DEF Providers
    <3>2. pc \in [Threads -> Places] /\ next \in [Threads -> Nat]
      BY DEF TypeOK
    <3>3. CASE next[t] = Chain
      BY <2>1, <2>2, <3>2, <3>3 DEF Advance, TypeOK
    <3>4. CASE next[t] # Chain
      BY <2>1, <2>2, <3>1, <3>2, <3>4 DEF Advance, TypeOK
    <3> QED BY <3>3, <3>4
  <2> QED BY <2>2, <2>3, <2>4, <2>5 DEF TypeOK
<1>4. ASSUME NEW t \in Threads, Choose(t) PROVE TypeOK'
  <2>1. PICK p \in todo[t] : /\ next' = [next EXCEPT ![t] = p]
                             /\ todo' = [todo EXCEPT ![t] = @ \ {p}]
    BY <1>4 DEF Choose
  <2>2. p \in Providers /\ p \in Nat
    BY <2>1 DEF TypeOK, Providers
  <2>3. now + Timeout \in Nat
    BY TimeAssumption DEF TypeOK
  <2> QED BY <1>4, <2>1, <2>2, <2>3 DEF Choose, TypeOK, bucket, ledger, Places
<1>5. ASSUME NEW t \in Threads, GiveUp(t) PROVE TypeOK'
  BY <1>5 DEF GiveUp, TypeOK, bucket, ledger, Places
<1>6. ASSUME NEW t \in Threads, Acquire(t) PROVE TypeOK'
  <2>1. next[t] \in Providers
    BY <1>6 DEF Acquire, TypeOK
  <2>2. Per[next[t]] \in Nat /\ Per[next[t]] <= Refilled(next[t])
    BY <1>6, <2>1, RefilledFacts DEF Acquire
  <2>3. /\ tokens' \in [Providers -> Nat]
        /\ \A q \in Providers : tokens'[q] <= Capacity(q)
        /\ stamp' \in [Providers -> Nat]
        /\ \A q \in Providers : stamp'[q] <= now'
    BY <1>6, <2>1, <2>2, RefillType DEF Acquire
  <2>4. grants' \in [Providers -> Seq(Nat)]
    <3>1. Append(grants[next[t]], now) \in Seq(Nat)
      BY <2>1 DEF TypeOK
    <3> QED BY <1>6, <2>1, <3>1 DEF Acquire, TypeOK
  <2>5. now + Answering \in Nat
    BY TimeAssumption DEF TypeOK
  <2>6. pc' \in [Threads -> Places] /\ limit' \in [Threads -> Nat] /\ sent' \in [Providers -> Nat]
    BY <1>6, <2>1, <2>5 DEF Acquire, TypeOK, Places
  <2>7. \A u \in Threads : pc'[u] \in {"checking", "waiting", "calling"} => next'[u] \in Providers
    BY <1>6, <2>1 DEF Acquire, TypeOK
  <2>8. UNCHANGED <<now, used, dropped, next, todo, skipped, tried, winner>>
    BY <1>6 DEF Acquire, ledger
  <2> QED BY <2>3, <2>4, <2>6, <2>7, <2>8 DEF TypeOK
<1>7. ASSUME NEW t \in Threads, Blocked(t) PROVE TypeOK'
  <2>1. next[t] \in Providers
    BY <1>7 DEF Blocked, TypeOK
  <2>2. /\ tokens' \in [Providers -> Nat]
        /\ \A q \in Providers : tokens'[q] <= Capacity(q)
        /\ stamp' \in [Providers -> Nat]
        /\ \A q \in Providers : stamp'[q] <= now'
    BY <1>7, <2>1, RefillType, RefilledFacts DEF Blocked
  <2>3. used' \in [Providers -> Nat]
    <3>1. Insert(next[t], CallUnits) => used' \in [Providers -> Nat]
      BY <2>1 DEF Insert, CallUnits, TypeOK
    <3>2. UNCHANGED used => used' \in [Providers -> Nat]
      BY DEF TypeOK
    <3> QED BY <1>7, <3>1, <3>2 DEF Blocked
  <2>4. /\ pc' \in [Threads -> Places] /\ limit' \in [Threads -> Nat]
        /\ tried' \in [Threads -> SUBSET Providers]
        /\ \A u \in Threads : pc'[u] \in {"checking", "waiting", "calling"} => next'[u] \in Providers
    BY <1>7, <2>1 DEF Blocked, Fail, TypeOK, Places
  <2>5. UNCHANGED <<now, next, todo, skipped, winner, grants, sent, dropped>>
    BY <1>7 DEF Blocked
  <2> QED BY <2>2, <2>3, <2>4, <2>5 DEF TypeOK
<1>8. ASSUME NEW t \in Threads, PollAgain(t) PROVE TypeOK'
  <2>1. next[t] \in Providers
    BY <1>8 DEF PollAgain, TypeOK
  <2>2. /\ tokens' \in [Providers -> Nat]
        /\ \A q \in Providers : tokens'[q] <= Capacity(q)
        /\ stamp' \in [Providers -> Nat]
        /\ \A q \in Providers : stamp'[q] <= now'
    BY <1>8, <2>1, RefillType, RefilledFacts DEF PollAgain
  <2> QED BY <1>8, <2>2 DEF PollAgain, TypeOK, ledger
<1>9. ASSUME NEW t \in Threads, Answered(t) \/ Failed(t) PROVE TypeOK'
  <2>1. next[t] \in Providers
    BY <1>9 DEF Answered, Failed, TypeOK
  <2>2. used' \in [Providers -> Nat] /\ dropped' \in [Providers -> Nat]
    <3>1. Record(next[t], 1)
      BY <1>9 DEF Answered, Failed, CallUnits, TokenRowUnits
    <3>2. CASE Insert(next[t], 1) /\ UNCHANGED dropped
      BY <2>1, <3>2 DEF Insert, TypeOK
    <3>3. CASE dropped' = [dropped EXCEPT ![next[t]] = @ + 1] /\ UNCHANGED used
      BY <2>1, <3>3 DEF TypeOK
    <3> QED BY <3>1, <3>2, <3>3 DEF Record
  <2>3. UNCHANGED <<now, tokens, stamp, next, todo, skipped, grants, sent>>
    BY <1>9 DEF Answered, Failed, bucket
  <2>4. /\ pc' \in [Threads -> Places] /\ limit' \in [Threads -> Nat]
        /\ tried' \in [Threads -> SUBSET Providers]
        /\ winner' \in [Threads -> Providers \cup {None}]
        /\ \A u \in Threads : pc'[u] \in {"checking", "waiting", "calling"} => next'[u] \in Providers
    <3>1. CASE Answered(t)
      BY <2>1, <3>1 DEF Answered, TypeOK, Places
    <3>2. CASE Failed(t)
      BY <2>1, <3>2 DEF Failed, Fail, TypeOK, Places
    <3> QED BY <1>9, <3>1, <3>2
  <2> QED BY <2>2, <2>3, <2>4 DEF TypeOK
<1>10. CASE UNCHANGED vars
  BY <1>10 DEF vars, TypeOK
<1> QED
  BY <1>1, <1>2, <1>3, <1>4, <1>5, <1>6, <1>7, <1>8, <1>9, <1>10 DEF Next, Step

(***************************************************************************)
(* Every variable keeps its type, and a bucket its bounds.                 *)
(***************************************************************************)
THEOREM TypeCorrect == Spec => []TypeOK
BY InitType, StepType, PTL DEF Spec

-----------------------------------------------------------------------------
(***************************************************************************)
(* The rate in every window.  No window ending now has used more than its  *)
(* share, counting the tokens still in the bucket as used.                 *)
(***************************************************************************)
Metered ==
  \A p \in Providers : \A i \in DOMAIN grants[p] :
    (Len(grants[p]) - i + 1) * Per[p] + tokens[p]
      <= Capacity(p) + Limit[p] * (stamp[p] - grants[p][i])

(***************************************************************************)
(* The arithmetic of one refill, and of one call more.                     *)
(***************************************************************************)
LEMMA WindowGrows ==
  ASSUME NEW calls \in Int, NEW per \in Int, NEW rate \in Int, NEW room \in Int,
         NEW old \in Int, NEW new \in Int, NEW taken \in Int,
         NEW then \in Int, NEW at \in Int, NEW first \in Int,
         calls * per + old <= room + rate * (then - first),
         new <= old + (at - then) * rate - taken
  PROVE  /\ calls * per + taken + new <= room + rate * (at - first)
         /\ (calls + 1) * per = calls * per + per
<1>1. (calls + 1) * per = calls * per + per
  BY SMT
<1>2. rate * (at - first) = rate * (then - first) + (at - then) * rate
  BY SMT
<1> DEFINE x == calls * per
           y == rate * (then - first)
           z == (at - then) * rate
           w == rate * (at - first)
<1>3. x \in Int /\ y \in Int /\ z \in Int /\ w \in Int
  OBVIOUS
<1>4. x + old <= room + y /\ new <= old + z - taken /\ w = y + z
  BY <1>2
<1> HIDE DEF x, y, z, w
<1>5. x + taken + new <= room + w
  BY <1>3, <1>4
<1> QED BY <1>1, <1>5 DEF x, w

(***************************************************************************)
(* What a refill does to one window of calls that began at first.          *)
(***************************************************************************)
LEMMA RefillWindow ==
  ASSUME TypeOK, NEW p \in Providers, NEW taken \in Nat, Refill(p, taken),
         NEW calls \in Int, NEW first \in Int,
         calls * Per[p] + tokens[p] <= Capacity(p) + Limit[p] * (stamp[p] - first)
  PROVE  /\ calls * Per[p] + taken + tokens'[p] <= Capacity(p) + Limit[p] * (now - first)
         /\ (calls + 1) * Per[p] = calls * Per[p] + Per[p]
<1>1. /\ Refilled(p) \in Int /\ Capacity(p) \in Int /\ Limit[p] \in Int /\ Per[p] \in Int
      /\ Refilled(p) <= tokens[p] + (now - stamp[p]) * Limit[p]
  BY RefilledFacts
<1>2. tokens[p] \in Int /\ stamp[p] \in Int /\ now \in Int
  BY DEF TypeOK
<1>3. tokens'[p] = Refilled(p) - taken
  BY DEF Refill, TypeOK
<1>4. tokens'[p] \in Int
  BY <1>1, <1>3
<1> DEFINE brought == (now - stamp[p]) * Limit[p]
<1>5. brought \in Int
  <2> DEFINE l == Limit[p]
             d == now - stamp[p]
  <2>1. l \in Int /\ d \in Int
    BY <1>1, <1>2
  <2> HIDE DEF l, d
  <2>2. d * l \in Int
    BY <2>1, SMT
  <2> QED BY <2>2 DEF d, l
<1>6. Refilled(p) <= tokens[p] + brought
  BY <1>1
<1> HIDE DEF brought
<1>7. tokens'[p] <= tokens[p] + brought - taken
  BY <1>1, <1>2, <1>3, <1>5, <1>6
<1>8. tokens'[p] <= tokens[p] + (now - stamp[p]) * Limit[p] - taken
  BY <1>7 DEF brought
<1> DEFINE per == Per[p]
           rate == Limit[p]
           room == Capacity(p)
           old == tokens[p]
           new == tokens'[p]
           then == stamp[p]
<1>9. /\ per \in Int /\ rate \in Int /\ room \in Int
      /\ old \in Int /\ new \in Int /\ then \in Int /\ now \in Int /\ taken \in Int
  BY <1>1, <1>2, <1>4
<1>10. /\ calls * per + old <= room + rate * (then - first)
       /\ new <= old + (now - then) * rate - taken
  BY <1>8
<1> HIDE DEF per, rate, room, old, new, then
<1>11. /\ calls * per + taken + new <= room + rate * (now - first)
       /\ (calls + 1) * per = calls * per + per
  BY <1>9, <1>10, WindowGrows
<1> QED
  BY <1>11 DEF per, rate, room, new

(***************************************************************************)
(* A refill that lets no call through keeps every window.                  *)
(***************************************************************************)
LEMMA RefillMetered ==
  ASSUME TypeOK, Metered, NEW p \in Providers,
         Refill(p, 0), UNCHANGED <<now, grants>>
  PROVE  Metered'
<1> SUFFICES ASSUME NEW q \in Providers, NEW i \in DOMAIN grants[q]
             PROVE  (Len(grants[q]) - i + 1) * Per[q] + tokens'[q]
                      <= Capacity(q) + Limit[q] * (stamp'[q] - grants[q][i])
  BY DEF Metered
<1>1. (Len(grants[q]) - i + 1) * Per[q] + tokens[q]
        <= Capacity(q) + Limit[q] * (stamp[q] - grants[q][i])
  BY DEF Metered
<1>2. CASE q # p
  <2>1. tokens'[q] = tokens[q] /\ stamp'[q] = stamp[q]
    BY <1>2 DEF Refill, TypeOK
  <2> QED BY <1>1, <2>1
<1>3. CASE q = p
  <2> DEFINE calls == Len(grants[p]) - i + 1
             first == grants[p][i]
  <2>1. calls \in Int /\ first \in Int
    BY <1>3 DEF TypeOK
  <2>2. calls * Per[p] + tokens[p] <= Capacity(p) + Limit[p] * (stamp[p] - first)
    BY <1>1, <1>3
  <2>3. stamp'[p] = now
    BY DEF Refill, TypeOK
  <2> HIDE DEF calls, first
  <2>4. calls * Per[p] + 0 + tokens'[p] <= Capacity(p) + Limit[p] * (now - first)
    BY <2>1, <2>2, RefillWindow
  <2>5. Per[p] \in Int
    BY RefilledFacts
  <2> DEFINE share == calls * Per[p]
  <2>6. share \in Int /\ share + 0 + tokens'[p] = share + tokens'[p]
    BY <2>1, <2>5, SMT
  <2>7. calls * Per[p] + tokens'[p] <= Capacity(p) + Limit[p] * (now - first)
    BY <2>4, <2>6
  <2> QED BY <1>3, <2>3, <2>7 DEF calls, first
<1> QED BY <1>2, <1>3
(***************************************************************************)
(* A call that goes out pays for its place in every window, and begins a   *)
(* window of its own.                                                      *)
(***************************************************************************)
LEMMA AcquireMetered ==
  ASSUME TypeOK, Metered, NEW t \in Threads, Acquire(t)
  PROVE  Metered'
<1> DEFINE p == next[t]
<1>1. /\ p \in Providers /\ Refill(p, Per[p]) /\ Per[p] <= Refilled(p)
      /\ grants' = [grants EXCEPT ![p] = Append(grants[p], now)]
  BY DEF Acquire, TypeOK
<1>2. Per[p] \in Nat /\ Capacity(p) \in Nat /\ Limit[p] \in Nat
      /\ Refilled(p) <= Capacity(p) /\ Refilled(p) \in Nat
  BY <1>1, RefilledFacts
<1>3. now \in Nat /\ grants \in [Providers -> Seq(Nat)]
  BY DEF TypeOK
<1>4. stamp'[p] = now /\ tokens'[p] = Refilled(p) - Per[p]
  BY <1>1 DEF Refill, TypeOK
<1>5. /\ grants'[p] = Append(grants[p], now)
      /\ Len(grants'[p]) = Len(grants[p]) + 1
      /\ DOMAIN grants'[p] = 1..(Len(grants[p]) + 1)
      /\ grants'[p][Len(grants[p]) + 1] = now
      /\ \A i \in DOMAIN grants[p] : grants'[p][i] = grants[p][i]
  BY <1>1, <1>3
<1> HIDE DEF p
<1> SUFFICES ASSUME NEW q \in Providers, NEW i \in DOMAIN grants'[q]
             PROVE  (Len(grants'[q]) - i + 1) * Per[q] + tokens'[q]
                      <= Capacity(q) + Limit[q] * (stamp'[q] - grants'[q][i])
  BY DEF Metered
<1>6. CASE q # p
  <2>1. tokens'[q] = tokens[q] /\ stamp'[q] = stamp[q] /\ grants'[q] = grants[q]
    BY <1>1, <1>6 DEF Refill, TypeOK
  <2> QED BY <2>1 DEF Metered
<1>7. CASE q = p /\ i = Len(grants[p]) + 1
  <2>1. Len(grants[p]) \in Nat
    BY <1>1, <1>3
  <2>2. Len(grants'[p]) - i + 1 = 1 /\ stamp'[p] - grants'[p][i] = 0
    BY <1>3, <1>4, <1>5, <1>7, <2>1
  <2>3. Limit[p] * 0 = 0 /\ 1 * Per[p] = Per[p]
    BY <1>2
  <2>4. Per[p] + tokens'[p] <= Capacity(p) + 0
    BY <1>2, <1>4
  <2> QED BY <1>7, <2>2, <2>3, <2>4
<1>8. CASE q = p /\ i # Len(grants[p]) + 1
  <2>1. Len(grants[p]) \in Nat /\ i \in DOMAIN grants[p] /\ i \in Nat
    BY <1>1, <1>3, <1>5, <1>8
  <2> DEFINE calls == Len(grants[p]) - i + 1
             first == grants[p][i]
  <2>2. calls \in Int /\ first \in Int
    BY <1>1, <1>3, <2>1
  <2>3. calls * Per[p] + tokens[p] <= Capacity(p) + Limit[p] * (stamp[p] - first)
    BY <1>1, <2>1 DEF Metered
  <2>4. Len(grants'[p]) - i + 1 = calls + 1 /\ grants'[p][i] = first
    BY <1>5, <2>1
  <2> HIDE DEF calls, first
  <2>5. /\ calls * Per[p] + Per[p] + tokens'[p] <= Capacity(p) + Limit[p] * (now - first)
        /\ (calls + 1) * Per[p] = calls * Per[p] + Per[p]
    BY <1>1, <1>2, <2>2, <2>3, RefillWindow
  <2>6. (calls + 1) * Per[p] + tokens'[p] <= Capacity(p) + Limit[p] * (now - first)
    BY <2>5
  <2> QED BY <1>4, <1>8, <2>4, <2>6
<1> QED BY <1>6, <1>7, <1>8

LEMMA StepMetered == TypeOK /\ Metered /\ [Next]_vars => Metered'
<1> SUFFICES ASSUME TypeOK, Metered, [Next]_vars PROVE Metered'
  OBVIOUS
<1>1. CASE UNCHANGED <<tokens, stamp, grants>>
  BY <1>1 DEF Metered
<1>2. ASSUME NEW t \in Threads, Acquire(t) PROVE Metered'
  BY <1>2, AcquireMetered
<1>3. ASSUME NEW t \in Threads, Blocked(t) \/ PollAgain(t) PROVE Metered'
  <2>1. next[t] \in Providers /\ Refill(next[t], 0) /\ UNCHANGED <<now, grants>>
    BY <1>3 DEF Blocked, PollAgain, TypeOK
  <2> QED BY <2>1, RefillMetered
<1>4. ASSUME NEW t \in Threads,
             Begin(t) \/ Keep(t) \/ Skip(t) \/ Choose(t) \/ GiveUp(t) \/ Answered(t) \/ Failed(t)
      PROVE  UNCHANGED <<tokens, stamp, grants>>
  BY <1>4 DEF Begin, Keep, Skip, Choose, GiveUp, Answered, Failed, bucket
<1>5. Tick \/ UNCHANGED vars => UNCHANGED <<tokens, stamp, grants>>
  BY DEF Tick, vars, bucket
<1> QED
  BY <1>1, <1>2, <1>3, <1>4, <1>5 DEF Next, Step

(***************************************************************************)
(* A window that ended at the call j before last leaves the rest to the    *)
(* calls after it: the windows that end now bound all of them.             *)
(***************************************************************************)
LEMMA StepWindow ==
  TypeOK /\ TypeOK' /\ Metered /\ Metered' /\ EveryWindowBounded /\ [Next]_vars
    => EveryWindowBounded'
<1> SUFFICES ASSUME TypeOK, TypeOK', Metered, Metered', EveryWindowBounded, [Next]_vars
             PROVE  EveryWindowBounded'
  OBVIOUS
<1>1. CASE UNCHANGED grants
  BY <1>1 DEF EveryWindowBounded
<1>2. ASSUME NEW t \in Threads, Acquire(t) PROVE EveryWindowBounded'
  <2> DEFINE p == next[t]
  <2>1. /\ p \in Providers
        /\ grants' = [grants EXCEPT ![p] = Append(grants[p], now)]
        /\ grants[p] \in Seq(Nat) /\ now \in Nat
    BY <1>2 DEF Acquire, TypeOK
  <2>0. grants \in [Providers -> Seq(Nat)] /\ grants' \in [Providers -> Seq(Nat)]
    BY DEF TypeOK
  <2>2. /\ stamp'[p] = now /\ tokens'[p] \in Nat
    BY <1>2, <2>1 DEF Acquire, Refill, TypeOK
  <2>3. /\ grants'[p] = Append(grants[p], now)
        /\ Len(grants'[p]) = Len(grants[p]) + 1
        /\ DOMAIN grants'[p] = 1..(Len(grants[p]) + 1)
        /\ grants'[p][Len(grants[p]) + 1] = now
        /\ DOMAIN grants[p] = 1..Len(grants[p]) /\ Len(grants[p]) \in Nat
        /\ \A i \in DOMAIN grants[p] : grants'[p][i] = grants[p][i]
    BY <2>1, <2>0
  <2> HIDE DEF p
  <2> SUFFICES ASSUME NEW q \in Providers, NEW i \in DOMAIN grants'[q],
                      NEW j \in DOMAIN grants'[q], i <= j
               PROVE  (j - i + 1) * Per[q]
                        <= Capacity(q) + Limit[q] * (grants'[q][j] - grants'[q][i])
    BY DEF EveryWindowBounded
  <2>4. CASE q # p
    <3>1. grants'[q] = grants[q]
      BY <2>1, <2>4 DEF TypeOK
    <3> QED BY <3>1 DEF EveryWindowBounded
  <2>5. CASE q = p /\ j \in DOMAIN grants[p]
    <3>1. i \in DOMAIN grants[p]
      BY <2>3, <2>5
    <3> QED BY <2>1, <2>3, <2>5, <3>1 DEF EveryWindowBounded
  <2>6. CASE q = p /\ j \notin DOMAIN grants[p]
    <3>1. j = Len(grants'[p]) /\ grants'[p][j] = now
      BY <2>3, <2>6
    <3> DEFINE share == (Len(grants'[p]) - i + 1) * Per[p]
               bound == Capacity(p) + Limit[p] * (now - grants'[p][i])
    <3>2. share + tokens'[p] <= bound
      BY <2>1, <2>2, <2>6 DEF Metered
    <3>3. Len(grants'[p]) - i + 1 \in Int /\ now - grants'[p][i] \in Int
      <4>1. grants'[p] \in Seq(Nat) /\ i \in DOMAIN grants'[p]
        BY <2>0, <2>1, <2>6
      <4>2. grants'[p][i] \in Nat /\ i \in Nat /\ Len(grants'[p]) \in Nat
        BY <4>1
      <4>3. now \in Nat
        BY <2>1
      <4>4. Len(grants'[p]) - i + 1 \in Int
        BY ONLY <4>2
      <4>5. now - grants'[p][i] \in Int
        BY ONLY <4>2, <4>3
      <4> QED BY <4>4, <4>5
    <3>4. Per[p] \in Int /\ Limit[p] \in Int /\ Capacity(p) \in Int
      BY <2>1, RefilledFacts
    <3>5. share \in Int
      <4> DEFINE c == Len(grants'[p]) - i + 1
                 per == Per[p]
      <4>1. c \in Int /\ per \in Int
        BY <3>3, <3>4
      <4> HIDE DEF c, per
      <4>2. c * per \in Int
        BY <4>1, SMT
      <4> QED BY <4>2 DEF c, per
    <3>6. bound \in Int
      <4> DEFINE d == now - grants'[p][i]
                 rate == Limit[p]
      <4>1. d \in Int /\ rate \in Int
        BY <3>3, <3>4
      <4> HIDE DEF d, rate
      <4>2. rate * d \in Int
        BY <4>1, SMT
      <4>3. Capacity(p) + rate * d \in Int
        BY <3>4, <4>2
      <4> QED BY <4>3 DEF d, rate
    <3> HIDE DEF share, bound
    <3>7. share <= bound
      BY <2>2, <3>2, <3>5, <3>6
    <3> QED BY <2>6, <3>1, <3>7 DEF share, bound
  <2> QED BY <2>4, <2>5, <2>6
<1>3. ASSUME NEW t \in Threads, Begin(t) \/ (Step(t) /\ ~Acquire(t))
      PROVE  UNCHANGED grants
  BY <1>3 DEF Begin, Step, Keep, Skip, Choose, GiveUp, Blocked, PollAgain, Answered, Failed
<1>4. Tick \/ UNCHANGED vars => UNCHANGED grants
  BY DEF Tick, vars
<1> QED
  BY <1>1, <1>2, <1>3, <1>4 DEF Next

(***************************************************************************)
(* N threads cannot exceed a rate together: in every window, between any   *)
(* two calls to a provider, at most a full bucket and the rate's share.    *)
(***************************************************************************)
THEOREM RateHolds == Spec => []EveryWindowBounded
<1>1. Init => Metered /\ EveryWindowBounded
  BY DEF Init, Metered, EveryWindowBounded
<1>2. TypeOK /\ TypeOK' /\ Metered /\ EveryWindowBounded /\ [Next]_vars
        => Metered' /\ EveryWindowBounded'
  BY StepMetered, StepWindow
<1> QED
  BY <1>1, <1>2, TypeCorrect, PTL DEF Spec
-----------------------------------------------------------------------------
(***************************************************************************)
(* The budget.  The threads cleared for a provider are those whose check   *)
(* let it through and whose row for it is still to come.                   *)
(***************************************************************************)
Cleared(p) == {t \in Threads : \/ pc[t] \in {"waiting", "calling"} /\ next[t] = p
                               \/ pc[t] \in {"checking", "choosing", "waiting", "calling"}
                                  /\ p \in todo[t]}
InFlight(p) == {t \in Threads : pc[t] = "calling" /\ next[t] = p}

(***************************************************************************)
(* Every thread cleared has room reserved, and every call that is neither  *)
(* in the ledger nor lost to it is in flight.                              *)
(***************************************************************************)
Reserved == \A p \in Providers :
  Budget[p] # 0 => used[p] + Cardinality(Cleared(p)) <= Budget[p] + Cardinality(Threads) - 1
Accounted == \A p \in Providers : sent[p] <= used[p] + dropped[p] + Cardinality(InFlight(p))

(***************************************************************************)
(* A provider is on one list at most: to come, called, tried or skipped.   *)
(***************************************************************************)
OnOneList ==
  \A t \in Threads :
    /\ pc[t] \in {"waiting", "calling"} => next[t] \notin todo[t]

LEMMA StepOneList == TypeOK /\ OnOneList /\ [Next]_vars => OnOneList'
<1> SUFFICES ASSUME TypeOK, OnOneList, [Next]_vars PROVE OnOneList'
  OBVIOUS
<1>1. CASE Tick \/ UNCHANGED vars
  BY <1>1 DEF Tick, vars, OnOneList
<1>2. ASSUME NEW t \in Threads, Begin(t) \/ Keep(t) \/ Skip(t) PROVE OnOneList'
  <2>1. /\ \A u \in Threads : u # t => pc'[u] = pc[u] /\ next'[u] = next[u] /\ todo'[u] = todo[u]
        /\ pc'[t] \notin {"waiting", "calling"}
    BY <1>2 DEF Begin, Keep, Skip, Advance, TypeOK
  <2> QED BY <2>1 DEF OnOneList
<1>3. ASSUME NEW t \in Threads, Choose(t) PROVE OnOneList'
  <2>1. /\ \A u \in Threads : u # t => pc'[u] = pc[u] /\ next'[u] = next[u] /\ todo'[u] = todo[u]
        /\ next'[t] \notin todo'[t]
    BY <1>3 DEF Choose, TypeOK
  <2> QED BY <2>1 DEF OnOneList
<1>4. ASSUME NEW t \in Threads,
             GiveUp(t) \/ Acquire(t) \/ Blocked(t) \/ PollAgain(t) \/ Answered(t) \/ Failed(t)
      PROVE  OnOneList'
  <2>1. /\ UNCHANGED <<next, todo>>
        /\ \A u \in Threads : pc'[u] \in {"waiting", "calling"} => pc[u] \in {"waiting", "calling"}
    BY <1>4 DEF GiveUp, Acquire, Blocked, PollAgain, Answered, Failed, Fail, TypeOK
  <2> QED BY <2>1 DEF OnOneList
<1> QED BY <1>1, <1>2, <1>3, <1>4 DEF Next, Step

(***************************************************************************)
(* The two sets are finite, and bounded by the set of threads.             *)
(***************************************************************************)
LEMMA SetsFinite ==
  \A p \in Providers :
    /\ IsFiniteSet(Cleared(p)) /\ Cardinality(Cleared(p)) \in Nat
    /\ Cardinality(Cleared(p)) <= Cardinality(Threads)
    /\ IsFiniteSet(InFlight(p)) /\ Cardinality(InFlight(p)) \in Nat
    /\ Cardinality(InFlight(p)) <= Cardinality(Cleared(p))
    /\ Cardinality(Threads) \in Nat /\ Cardinality(Threads) >= 1
<1> TAKE p \in Providers
<1>1. Cleared(p) \subseteq Threads /\ InFlight(p) \subseteq Cleared(p)
  BY DEF Cleared, InFlight
<1>2. IsFiniteSet(Cleared(p)) /\ Cardinality(Cleared(p)) <= Cardinality(Threads)
  BY <1>1, ThreadsAssumption, FS_Subset
<1>3. IsFiniteSet(InFlight(p)) /\ Cardinality(InFlight(p)) <= Cardinality(Cleared(p))
  BY <1>1, <1>2, FS_Subset
<1>4. /\ Cardinality(Cleared(p)) \in Nat /\ Cardinality(InFlight(p)) \in Nat
      /\ Cardinality(Threads) \in Nat
  BY <1>2, <1>3, ThreadsAssumption, FS_CardinalityType
<1>5. Cardinality(Threads) # 0
  BY ThreadsAssumption, FS_EmptySet
<1> QED BY <1>2, <1>3, <1>4, <1>5

(***************************************************************************)
(* A set that grows by one thread at most, or loses one.                   *)
(***************************************************************************)
LEMMA OneThread ==
  ASSUME NEW S, IsFiniteSet(S), NEW t
  PROVE  /\ IsFiniteSet(S \cup {t}) /\ Cardinality(S \cup {t}) <= Cardinality(S) + 1
         /\ t \notin S => Cardinality(S \cup {t}) = Cardinality(S) + 1
         /\ IsFiniteSet(S \ {t}) /\ Cardinality(S \ {t}) <= Cardinality(S)
         /\ t \in S => Cardinality(S \ {t}) = Cardinality(S) - 1
         /\ Cardinality(S) \in Nat /\ Cardinality(S \cup {t}) \in Nat
         /\ Cardinality(S \ {t}) \in Nat
<1>1. Cardinality(S) \in Nat
  BY FS_CardinalityType
<1>2. IsFiniteSet(S \cup {t}) /\ Cardinality(S \cup {t}) =
        IF t \in S THEN Cardinality(S) ELSE Cardinality(S) + 1
  BY FS_AddElement
<1>3. IsFiniteSet(S \ {t}) /\ Cardinality(S \ {t}) =
        IF t \in S THEN Cardinality(S) - 1 ELSE Cardinality(S)
  BY FS_RemoveElement
<1>4. Cardinality(S \cup {t}) \in Nat /\ Cardinality(S \ {t}) \in Nat
  BY <1>2, <1>3, FS_CardinalityType
<1> QED BY <1>1, <1>2, <1>3, <1>4
(***************************************************************************)
(* How each step moves a thread in and out of the two sets.                *)
(***************************************************************************)
LEMMA SetsKept ==
  ASSUME TypeOK, NEW q \in Providers, NEW t \in Threads,
         Begin(t) \/ Skip(t) \/ Choose(t) \/ GiveUp(t) \/ PollAgain(t)
  PROVE  Cleared(q)' = Cleared(q) /\ InFlight(q)' = InFlight(q)
<1>1. CASE Begin(t)
  BY <1>1 DEF Begin, TypeOK, Cleared, InFlight
<1>2. CASE Skip(t)
  BY <1>2 DEF Skip, Advance, TypeOK, Cleared, InFlight
<1>3. CASE Choose(t)
  <2>1. PICK p \in todo[t] : /\ next' = [next EXCEPT ![t] = p]
                             /\ todo' = [todo EXCEPT ![t] = @ \ {p}]
    BY <1>3 DEF Choose
  <2>2. pc[t] = "choosing" /\ pc' = [pc EXCEPT ![t] = "waiting"]
    BY <1>3 DEF Choose
  <2>3. /\ pc'[t] = "waiting" /\ next'[t] = p /\ todo'[t] = todo[t] \ {p}
        /\ \A u \in Threads : u # t => pc'[u] = pc[u] /\ next'[u] = next[u] /\ todo'[u] = todo[u]
    BY <2>1, <2>2 DEF TypeOK
  <2> QED BY <2>1, <2>2, <2>3 DEF Cleared, InFlight
<1>4. CASE GiveUp(t)
  BY <1>4 DEF GiveUp, TypeOK, Cleared, InFlight
<1>5. CASE PollAgain(t)
  BY <1>5 DEF PollAgain, Cleared, InFlight
<1> QED BY <1>1, <1>2, <1>3, <1>4, <1>5

LEMMA SetsMoved ==
  ASSUME TypeOK, OnOneList, NEW q \in Providers, NEW t \in Threads
  PROVE  /\ Keep(t) => /\ q # next[t] => Cleared(q)' = Cleared(q)
                       /\ InFlight(q)' = InFlight(q)
         /\ Acquire(t) => /\ Cleared(q)' = Cleared(q) /\ t \notin InFlight(q)
                          /\ q # next[t] => InFlight(q)' = InFlight(q)
                          /\ q = next[t] => InFlight(q)' = InFlight(q) \cup {t}
         /\ Blocked(t) => /\ q # next[t] => Cleared(q)' = Cleared(q)
                          /\ q = next[t] => /\ Cleared(q)' = Cleared(q) \ {t}
                                            /\ t \in Cleared(q)
                          /\ InFlight(q)' = InFlight(q)
         /\ Answered(t) \/ Failed(t) =>
              /\ Cleared(q)' \in {Cleared(q), Cleared(q) \ {t}}
              /\ q # next[t] => InFlight(q)' = InFlight(q)
              /\ q = next[t] => /\ InFlight(q)' = InFlight(q) \ {t}
                                /\ Cleared(q)' = Cleared(q) \ {t}
                                /\ t \in Cleared(q) /\ t \in InFlight(q)
<1>1. ASSUME Keep(t)
      PROVE  /\ q # next[t] => Cleared(q)' = Cleared(q)
             /\ InFlight(q)' = InFlight(q)
  <2>1. /\ pc[t] = "checking" /\ pc'[t] \in {"checking", "choosing"}
        /\ todo'[t] = todo[t] \cup {next[t]}
        /\ \A u \in Threads : u # t => pc'[u] = pc[u] /\ next'[u] = next[u] /\ todo'[u] = todo[u]
    BY <1>1 DEF Keep, Advance, TypeOK
  <2> QED BY <2>1 DEF Cleared, InFlight
<1>2. ASSUME Acquire(t)
      PROVE  /\ Cleared(q)' = Cleared(q) /\ t \notin InFlight(q)
             /\ q # next[t] => InFlight(q)' = InFlight(q)
             /\ q = next[t] => InFlight(q)' = InFlight(q) \cup {t}
  <2>1. /\ pc[t] = "waiting" /\ pc'[t] = "calling" /\ UNCHANGED <<next, todo>>
        /\ \A u \in Threads : u # t => pc'[u] = pc[u]
    BY <1>2 DEF Acquire, TypeOK
  <2> QED BY <2>1 DEF Cleared, InFlight
<1>3. ASSUME Blocked(t)
      PROVE  /\ q # next[t] => Cleared(q)' = Cleared(q)
             /\ q = next[t] => Cleared(q)' = Cleared(q) \ {t} /\ t \in Cleared(q)
             /\ InFlight(q)' = InFlight(q)
  <2>1. /\ pc[t] = "waiting" /\ pc'[t] = "choosing" /\ UNCHANGED <<next, todo>>
        /\ \A u \in Threads : u # t => pc'[u] = pc[u]
        /\ next[t] \notin todo[t]
    BY <1>3 DEF Blocked, Fail, TypeOK, OnOneList
  <2> QED BY <2>1 DEF Cleared, InFlight
<1>4. ASSUME Answered(t) \/ Failed(t)
      PROVE  /\ Cleared(q)' \in {Cleared(q), Cleared(q) \ {t}}
             /\ q # next[t] => InFlight(q)' = InFlight(q)
             /\ q = next[t] => /\ InFlight(q)' = InFlight(q) \ {t}
                               /\ Cleared(q)' = Cleared(q) \ {t}
                               /\ t \in Cleared(q) /\ t \in InFlight(q)
  <2>1. /\ pc[t] = "calling" /\ pc'[t] \in {"done", "choosing"} /\ UNCHANGED <<next, todo>>
        /\ \A u \in Threads : u # t => pc'[u] = pc[u]
        /\ next[t] \notin todo[t]
    <3>1. /\ pc[t] = "calling" /\ UNCHANGED <<next, todo>>
          /\ pc' = [pc EXCEPT ![t] = "done"] \/ pc' = [pc EXCEPT ![t] = "choosing"]
      BY <1>4 DEF Answered, Failed, Fail
    <3> QED BY <3>1 DEF TypeOK, OnOneList
  <2>2. CASE pc'[t] = "done"
    <3>1. Cleared(q)' = Cleared(q) \ {t}
      BY <2>1, <2>2 DEF Cleared
    <3> QED BY <2>1, <2>2, <3>1 DEF Cleared, InFlight
  <2>3. CASE pc'[t] = "choosing" /\ q # next[t]
    <3>1. Cleared(q)' = Cleared(q)
      BY <2>1, <2>3 DEF Cleared
    <3> QED BY <2>1, <2>3, <3>1 DEF InFlight
  <2>4. CASE pc'[t] = "choosing" /\ q = next[t]
    <3>1. Cleared(q)' = Cleared(q) \ {t}
      BY <2>1, <2>4 DEF Cleared
    <3> QED BY <2>1, <2>4, <3>1 DEF Cleared, InFlight
  <2> QED BY <2>1, <2>2, <2>3, <2>4
<1> QED BY <1>1, <1>2, <1>3, <1>4

(***************************************************************************)
(* Every step keeps the room reserved: a check lets a thread through only  *)
(* below the budget, and a row takes the place of the thread it is for.    *)
(***************************************************************************)
LEMMA StepReserved == TypeOK /\ OnOneList /\ Reserved /\ [Next]_vars => Reserved'
<1> SUFFICES ASSUME TypeOK, OnOneList, Reserved, [Next]_vars,
                    NEW q \in Providers, Budget[q] # 0
             PROVE  used'[q] + Cardinality(Cleared(q)')
                      <= Budget[q] + Cardinality(Threads) - 1
  BY DEF Reserved
<1> DEFINE C == Cardinality(Cleared(q))
           D == Cardinality(Cleared(q)')
           N == Cardinality(Threads)
<1>1. /\ used[q] \in Nat /\ C \in Nat /\ N \in Nat /\ Budget[q] \in Nat
      /\ used[q] + C <= Budget[q] + N - 1 /\ C <= N
      /\ IsFiniteSet(Cleared(q))
  BY SetsFinite, LimitsAssumption DEF TypeOK, Reserved
<1>2. D \in Nat /\ D <= N
  <2>1. Cleared(q)' \subseteq Threads
    BY DEF Cleared
  <2>2. IsFiniteSet(Cleared(q)') /\ D <= N
    BY <2>1, ThreadsAssumption, FS_Subset
  <2> QED BY <2>2, FS_CardinalityType
<1> HIDE DEF C, D, N
<1>3. CASE used'[q] = used[q] /\ Cleared(q)' = Cleared(q)
  BY <1>1, <1>3 DEF C, D, N
<1>4. CASE Tick
  <2>1. Cleared(q)' = Cleared(q)
    BY <1>4 DEF Tick, Cleared
  <2>2. used'[q] = 0 \/ used'[q] = used[q]
    BY <1>4 DEF Tick
  <2>3. C = D
    BY <2>1 DEF C, D
  <2>4. used'[q] + D <= Budget[q] + N - 1
    BY <1>1, <2>2, <2>3
  <2> QED BY <2>4 DEF D, N
<1>5. ASSUME NEW t \in Threads,
             Begin(t) \/ Skip(t) \/ Choose(t) \/ GiveUp(t) \/ PollAgain(t) \/ Acquire(t)
      PROVE  used'[q] = used[q] /\ Cleared(q)' = Cleared(q)
  <2>1. used' = used
    BY <1>5 DEF Begin, Skip, Choose, GiveUp, PollAgain, Acquire, ledger
  <2> QED BY <1>5, <2>1, SetsKept, SetsMoved
<1>6. ASSUME NEW t \in Threads, Keep(t)
      PROVE  used'[q] + D <= Budget[q] + N - 1
  <2>1. used' = used /\ ~OverBudget(next[t])
    BY <1>6 DEF Keep, ledger
  <2>2. CASE q = next[t]
    <3>1. used[q] <= Budget[q] - 1
      BY <1>1, <2>1, <2>2 DEF OverBudget
    <3> QED BY <1>1, <1>2, <2>1, <3>1
  <2>3. CASE q # next[t]
    <3>1. C = D
      BY <1>6, <2>3, SetsMoved DEF C, D
    <3> QED BY <1>1, <2>1, <3>1
  <2> QED BY <2>2, <2>3
<1>7. ASSUME NEW t \in Threads, Blocked(t) \/ Answered(t) \/ Failed(t)
      PROVE  used'[q] + D <= Budget[q] + N - 1
  <2>1. used' = used \/ used' = [used EXCEPT ![next[t]] = @ + 1]
    BY <1>7 DEF Blocked, Answered, Failed, Record, Insert, CallUnits, TokenRowUnits
  <2>2. CASE q = next[t]
    <3>1. D = C - 1
      BY <1>1, <1>7, <2>2, SetsMoved, OneThread DEF C, D
    <3>2. used'[q] <= used[q] + 1 /\ used'[q] \in Nat
      BY <1>1, <2>1, <2>2 DEF TypeOK
    <3> QED BY <1>1, <1>2, <3>1, <3>2
  <2>3. CASE q # next[t]
    <3>1. D <= C
      <4>1. Cleared(q)' = Cleared(q) \/ Cleared(q)' = Cleared(q) \ {t}
        <5>1. CASE Blocked(t)
          BY <2>3, <5>1, SetsMoved
        <5>2. CASE Answered(t) \/ Failed(t)
          <6>1. Cleared(q)' \in {Cleared(q), Cleared(q) \ {t}}
            BY <5>2, SetsMoved
          <6> QED BY <6>1
        <5> QED BY <1>7, <5>1, <5>2
      <4>2. Cardinality(Cleared(q) \ {t}) <= C /\ C \in Nat
        BY <1>1, OneThread DEF C
      <4>3. CASE Cleared(q)' = Cleared(q)
        BY <4>2, <4>3 DEF C, D
      <4>4. CASE Cleared(q)' = Cleared(q) \ {t}
        BY <4>2, <4>4 DEF D
      <4> QED BY <4>1, <4>3, <4>4
    <3>2. used'[q] = used[q]
      BY <2>1, <2>3 DEF TypeOK
    <3> QED BY <1>1, <1>2, <3>1, <3>2
  <2> QED BY <2>2, <2>3
<1>8. CASE UNCHANGED vars
  <2>1. used'[q] = used[q] /\ Cleared(q)' = Cleared(q)
    BY <1>8 DEF vars, Cleared
  <2> QED BY <1>3, <2>1
<1>9. used'[q] + D <= Budget[q] + N - 1 \/ (used'[q] = used[q] /\ Cleared(q)' = Cleared(q)) \/ Tick \/ UNCHANGED vars
  BY <1>5, <1>6, <1>7 DEF Next, Step
<1> QED BY <1>3, <1>4, <1>8, <1>9 DEF D, N

(***************************************************************************)
(* Every step accounts for the calls it sends and the rows it writes.      *)
(***************************************************************************)
LEMMA StepAccounted == TypeOK /\ OnOneList /\ Accounted /\ [Next]_vars => Accounted'
<1> SUFFICES ASSUME TypeOK, OnOneList, Accounted, [Next]_vars, NEW q \in Providers
             PROVE  sent'[q] <= used'[q] + dropped'[q] + Cardinality(InFlight(q)')
  BY DEF Accounted
<1> DEFINE C == Cardinality(InFlight(q))
           D == Cardinality(InFlight(q)')
<1>1. /\ used[q] \in Nat /\ sent[q] \in Nat /\ dropped[q] \in Nat /\ C \in Nat
      /\ sent[q] <= used[q] + dropped[q] + C
      /\ IsFiniteSet(InFlight(q))
  BY SetsFinite DEF TypeOK, Accounted
<1> HIDE DEF C, D
<1>2. CASE UNCHANGED <<used, sent, dropped>> /\ InFlight(q)' = InFlight(q)
  BY <1>1, <1>2 DEF C, D
<1>3. CASE Tick
  <2>1. InFlight(q)' = InFlight(q)
    BY <1>3 DEF Tick, InFlight
  <2>2. C = D
    BY <2>1 DEF C, D
  <2>3. CASE now + 1 \in PeriodStarts
    <3>1. used'[q] = 0 /\ sent'[q] = 0 /\ dropped'[q] = 0
      BY <1>3, <2>3 DEF Tick
    <3>2. sent'[q] <= used'[q] + dropped'[q] + D
      BY <1>1, <2>2, <3>1
    <3> QED BY <3>2 DEF D
  <2>4. CASE now + 1 \notin PeriodStarts
    <3>1. UNCHANGED <<used, sent, dropped>>
      BY <1>3, <2>4 DEF Tick
    <3> QED BY <1>2, <2>1, <3>1
  <2> QED BY <2>3, <2>4
<1>4. ASSUME NEW t \in Threads,
             Begin(t) \/ Skip(t) \/ Choose(t) \/ GiveUp(t) \/ PollAgain(t) \/ Keep(t)
      PROVE  UNCHANGED <<used, sent, dropped>> /\ InFlight(q)' = InFlight(q)
  <2>1. UNCHANGED <<used, sent, dropped>>
    BY <1>4 DEF Begin, Skip, Choose, GiveUp, PollAgain, Keep, ledger
  <2> QED BY <1>4, <2>1, SetsKept, SetsMoved
<1>5. ASSUME NEW t \in Threads, Acquire(t)
      PROVE  sent'[q] <= used'[q] + dropped'[q] + D
  <2>1. used' = used /\ dropped' = dropped /\ sent' = [sent EXCEPT ![next[t]] = @ + 1]
    BY <1>5 DEF Acquire, ledger
  <2>2. CASE q = next[t]
    <3>1. D = C + 1
      BY <1>1, <1>5, <2>2, SetsMoved, OneThread DEF C, D
    <3>2. sent'[q] = sent[q] + 1
      BY <2>1, <2>2 DEF TypeOK
    <3> QED BY <1>1, <2>1, <3>1, <3>2
  <2>3. CASE q # next[t]
    <3>1. D = C /\ sent'[q] = sent[q]
      BY <1>5, <2>1, <2>3, SetsMoved DEF C, D, TypeOK
    <3> QED BY <1>1, <2>1, <3>1
  <2> QED BY <2>2, <2>3
<1>6. ASSUME NEW t \in Threads, Blocked(t)
      PROVE  sent'[q] <= used'[q] + dropped'[q] + D
  <2>1. /\ UNCHANGED <<sent, dropped>>
        /\ used' = used \/ used' = [used EXCEPT ![next[t]] = @ + 1]
    BY <1>6 DEF Blocked, Insert, CallUnits
  <2>2. used'[q] >= used[q] /\ used'[q] \in Nat
    <3>1. used \in [Providers -> Nat] /\ next[t] \in Providers
      BY <1>6 DEF Blocked, TypeOK
    <3>2. CASE used' = used
      BY <1>1, <3>2
    <3>3. CASE used' = [used EXCEPT ![next[t]] = @ + 1]
      BY <1>1, <3>1, <3>3
    <3> QED BY <2>1, <3>2, <3>3
  <2>3. C = D
    BY <1>6, SetsMoved DEF C, D
  <2> QED BY <1>1, <2>1, <2>2, <2>3
<1>7. ASSUME NEW t \in Threads, Answered(t) \/ Failed(t)
      PROVE  sent'[q] <= used'[q] + dropped'[q] + D
  <2>1. /\ UNCHANGED sent
        /\ Record(next[t], 1)
    BY <1>7 DEF Answered, Failed, CallUnits, TokenRowUnits
  <2>2. \/ used' = [used EXCEPT ![next[t]] = @ + 1] /\ dropped' = dropped
        \/ dropped' = [dropped EXCEPT ![next[t]] = @ + 1] /\ used' = used
    BY <2>1 DEF Record, Insert
  <2>3. CASE q = next[t]
    <3>1. D = C - 1
      BY <1>1, <1>7, <2>3, SetsMoved, OneThread DEF C, D
    <3>2. /\ used'[q] + dropped'[q] = used[q] + dropped[q] + 1
          /\ used'[q] \in Nat /\ dropped'[q] \in Nat
      <4>1. used \in [Providers -> Nat] /\ dropped \in [Providers -> Nat]
        BY DEF TypeOK
      <4>2. CASE used' = [used EXCEPT ![next[t]] = @ + 1] /\ dropped' = dropped
        <5>1. used'[q] = used[q] + 1 /\ dropped'[q] = dropped[q]
          BY <2>3, <4>1, <4>2
        <5> QED BY <1>1, <5>1
      <4>3. CASE dropped' = [dropped EXCEPT ![next[t]] = @ + 1] /\ used' = used
        <5>1. used'[q] = used[q] /\ dropped'[q] = dropped[q] + 1
          BY <2>3, <4>1, <4>3
        <5> QED BY <1>1, <5>1
      <4> QED BY <2>2, <4>2, <4>3
    <3> QED BY <1>1, <2>1, <3>1, <3>2
  <2>4. CASE q # next[t]
    <3>1. used'[q] = used[q] /\ dropped'[q] = dropped[q]
      BY <2>2, <2>4 DEF TypeOK
    <3>2. D = C
      BY <1>7, <2>4, SetsMoved DEF C, D
    <3> QED BY <1>1, <2>1, <3>1, <3>2
  <2> QED BY <2>3, <2>4
<1>8. CASE UNCHANGED vars
  <2>1. UNCHANGED <<used, sent, dropped>> /\ InFlight(q)' = InFlight(q)
    BY <1>8 DEF vars, InFlight
  <2> QED BY <1>2, <2>1
<1>9. \/ sent'[q] <= used'[q] + dropped'[q] + D
      \/ UNCHANGED <<used, sent, dropped>> /\ InFlight(q)' = InFlight(q)
      \/ Tick \/ UNCHANGED vars
  BY <1>4, <1>5, <1>6, <1>7 DEF Next, Step
<1> QED BY <1>2, <1>3, <1>8, <1>9 DEF D
(***************************************************************************)
(* Threads that check first and pay later pass the budget by fewer calls   *)
(* than there are threads, in the ledger and, rows lost apart, in fact.    *)
(***************************************************************************)
THEOREM BudgetHolds == Spec => [](OvershootBounded /\ CallsWithinBudget)
<1>1. Init => OnOneList /\ Reserved /\ Accounted
  <2> SUFFICES ASSUME Init PROVE OnOneList /\ Reserved /\ Accounted
    OBVIOUS
  <2>1. OnOneList
    BY DEF Init, OnOneList
  <2>2. \A p \in Providers : Cleared(p) = {} /\ InFlight(p) = {}
    BY DEF Init, Cleared, InFlight
  <2>3. \A p \in Providers : /\ used[p] \in Nat /\ used[p] <= Budget[p] /\ Budget[p] \in Nat
                             /\ sent[p] = 0 /\ dropped[p] = 0
    BY InitType, LimitsAssumption DEF Init, TypeOK
  <2>4. Cardinality({}) = 0
    BY FS_EmptySet
  <2>5. Cardinality(Threads) \in Nat /\ Cardinality(Threads) >= 1
    BY ChainAssumption, SetsFinite DEF Providers
  <2>6. Reserved
    BY <2>2, <2>3, <2>4, <2>5 DEF Reserved
  <2>7. Accounted
    BY <2>2, <2>3, <2>4 DEF Accounted
  <2> QED BY <2>1, <2>6, <2>7
<1>2. /\ TypeOK /\ TypeOK' /\ OnOneList /\ Reserved /\ Accounted /\ [Next]_vars
      => OnOneList' /\ Reserved' /\ Accounted'
  BY StepOneList, StepReserved, StepAccounted
<1>3. TypeOK /\ Reserved /\ Accounted => OvershootBounded /\ CallsWithinBudget
  <2> SUFFICES ASSUME TypeOK, Reserved, Accounted, NEW p \in Providers, Budget[p] # 0
               PROVE  /\ used[p] <= Budget[p] + Cardinality(Threads) - 1
                      /\ sent[p] <= Budget[p] + Cardinality(Threads) - 1 + dropped[p]
    BY DEF OvershootBounded, CallsWithinBudget
  <2>1. /\ used[p] \in Nat /\ sent[p] \in Nat /\ dropped[p] \in Nat /\ Budget[p] \in Nat
    BY LimitsAssumption DEF TypeOK
  <2>2. /\ used[p] + Cardinality(Cleared(p)) <= Budget[p] + Cardinality(Threads) - 1
        /\ sent[p] <= used[p] + dropped[p] + Cardinality(InFlight(p))
    BY DEF Reserved, Accounted
  <2> QED BY <2>1, <2>2, SetsFinite
<1> QED
  BY <1>1, <1>2, <1>3, TypeCorrect, PTL DEF Spec
-----------------------------------------------------------------------------
(***************************************************************************)
(* The audit of a completion.  While it runs, its lists and the provider   *)
(* it is at divide the chain, and what is to come comes later in the chain.*)
(***************************************************************************)
Running(t) == /\ winner[t] = None
              /\ skipped[t] \cap tried[t] = {}
              /\ todo[t] \cap (skipped[t] \cup tried[t]) = {}
Divided(t) ==
  /\ pc[t] = "checking" => /\ Running(t) /\ tried[t] = {}
                           /\ skipped[t] \cup todo[t] = 1..(next[t] - 1)
  /\ pc[t] = "choosing" => /\ Running(t)
                           /\ skipped[t] \cup tried[t] \cup todo[t] = Providers
  /\ pc[t] \in {"waiting", "calling"} =>
       /\ Running(t) /\ next[t] \notin skipped[t] \cup tried[t] \cup todo[t]
       /\ skipped[t] \cup tried[t] \cup todo[t] \cup {next[t]} = Providers
       /\ \A q \in todo[t] : next[t] < q
  /\ pc[t] = "done" =>
       /\ skipped[t] \cap tried[t] = {}
       /\ winner[t] = None => skipped[t] \cup tried[t] = Providers
       /\ winner[t] # None => /\ \A q \in 1..(winner[t] - 1) : q \in skipped[t] \cup tried[t]
                              /\ winner[t] \notin skipped[t] \cup tried[t]

(***************************************************************************)
(* A step of one thread leaves the lists of every other thread alone.      *)
(***************************************************************************)
LEMMA OthersUntouched ==
  ASSUME TypeOK, NEW t \in Threads, Begin(t) \/ Step(t),
         NEW u \in Threads, u # t, Divided(u)
  PROVE  Divided(u)'
<1>1. /\ pc'[u] = pc[u] /\ next'[u] = next[u] /\ todo'[u] = todo[u]
      /\ skipped'[u] = skipped[u] /\ tried'[u] = tried[u] /\ winner'[u] = winner[u]
  <2>1. CASE Begin(t)
    BY <2>1 DEF Begin, TypeOK
  <2>2. CASE Keep(t) \/ Skip(t)
    BY <2>2 DEF Keep, Skip, Advance, TypeOK
  <2>3. CASE Choose(t) \/ GiveUp(t)
    BY <2>3 DEF Choose, GiveUp, TypeOK
  <2>4. CASE Acquire(t) \/ PollAgain(t)
    BY <2>4 DEF Acquire, PollAgain, TypeOK
  <2>5. CASE Blocked(t) \/ Answered(t) \/ Failed(t)
    BY <2>5 DEF Blocked, Answered, Failed, Fail, TypeOK
  <2> QED BY <2>1, <2>2, <2>3, <2>4, <2>5 DEF Step
<1> QED BY <1>1 DEF Divided, Running

(***************************************************************************)
(* Its own lists it keeps divided.                                         *)
(***************************************************************************)
LEMMA OwnStepDivided ==
  ASSUME TypeOK, NEW t \in Threads, Begin(t) \/ Step(t), Divided(t)
  PROVE  Divided(t)'
<1>0. /\ next[t] \in Nat /\ todo[t] \subseteq Providers /\ skipped[t] \subseteq Providers
      /\ tried[t] \subseteq Providers
  BY DEF TypeOK
<1>1. CASE Begin(t)
  <2>1. /\ pc'[t] = "checking" /\ next'[t] = 1 /\ todo'[t] = {} /\ skipped'[t] = {}
        /\ tried'[t] = {} /\ winner'[t] = None
    BY <1>1 DEF Begin, TypeOK
  <2> QED BY <2>1 DEF Divided, Running
<1>2. CASE Keep(t) \/ Skip(t)
  <2>1. /\ pc[t] = "checking" /\ next[t] \in Providers
    BY <1>2 DEF Keep, Skip, TypeOK
  <2>2. /\ next'[t] = next[t] + 1 /\ tried'[t] = tried[t] /\ winner'[t] = winner[t]
        /\ pc'[t] = IF next[t] = Chain THEN "choosing" ELSE "checking"
        /\ \/ todo'[t] = todo[t] \cup {next[t]} /\ skipped'[t] = skipped[t]
           \/ skipped'[t] = skipped[t] \cup {next[t]} /\ todo'[t] = todo[t]
    BY <1>2, <2>1 DEF Keep, Skip, Advance, TypeOK
  <2>3. /\ winner[t] = None /\ tried[t] = {} /\ todo[t] \cap skipped[t] = {}
        /\ skipped[t] \cup todo[t] = 1..(next[t] - 1)
    BY <2>1 DEF Divided, Running
  <2>4. (1..(next[t] - 1)) \cup {next[t]} = 1..next[t] /\ next[t] \notin 1..(next[t] - 1)
    BY <2>1 DEF Providers
  <2>5. skipped'[t] \cup todo'[t] = 1..next[t] /\ todo'[t] \cap skipped'[t] = {}
    BY <2>2, <2>3, <2>4
  <2>6. winner'[t] = None /\ tried'[t] = {} /\ next'[t] - 1 = next[t]
    BY <1>0, <2>2, <2>3
  <2>7. CASE next[t] = Chain
    BY <2>2, <2>5, <2>6, <2>7 DEF Divided, Running, Providers
  <2>8. CASE next[t] # Chain
    BY <2>2, <2>5, <2>6, <2>8 DEF Divided, Running
  <2> QED BY <2>7, <2>8
<1>3. CASE Choose(t)
  <2>1. PICK p \in todo[t] : /\ \A q \in todo[t] : p <= q
                             /\ next' = [next EXCEPT ![t] = p]
                             /\ todo' = [todo EXCEPT ![t] = @ \ {p}]
    BY <1>3 DEF Choose
  <2>2. /\ pc[t] = "choosing" /\ pc'[t] = "waiting" /\ next'[t] = p /\ todo'[t] = todo[t] \ {p}
        /\ skipped'[t] = skipped[t] /\ tried'[t] = tried[t] /\ winner'[t] = winner[t]
    BY <1>3, <2>1 DEF Choose, TypeOK
  <2>3. \A q \in todo'[t] : p < q
    BY <1>0, <2>1, <2>2 DEF Providers
  <2>4. /\ winner[t] = None /\ skipped[t] \cap tried[t] = {}
        /\ todo[t] \cap (skipped[t] \cup tried[t]) = {}
        /\ skipped[t] \cup tried[t] \cup todo[t] = Providers
    BY <2>2 DEF Divided, Running
  <2>5. /\ p \notin skipped[t] \cup tried[t] \cup (todo[t] \ {p})
        /\ skipped[t] \cup tried[t] \cup (todo[t] \ {p}) \cup {p} = Providers
        /\ (todo[t] \ {p}) \cap (skipped[t] \cup tried[t]) = {}
    BY <2>1, <2>4
  <2> QED BY <2>2, <2>3, <2>4, <2>5 DEF Divided, Running
<1>4. CASE GiveUp(t)
  <2>1. /\ pc[t] = "choosing" /\ pc'[t] = "done" /\ todo[t] = {}
        /\ skipped'[t] = skipped[t] /\ tried'[t] = tried[t] /\ winner'[t] = winner[t]
    BY <1>4 DEF GiveUp, TypeOK
  <2> QED BY <2>1 DEF Divided, Running
<1>5. CASE Acquire(t) \/ PollAgain(t)
  <2>1. /\ pc[t] = "waiting" /\ pc'[t] \in {"waiting", "calling"}
        /\ UNCHANGED <<next, todo, skipped, tried, winner>>
    BY <1>5 DEF Acquire, PollAgain, TypeOK
  <2> QED BY <2>1 DEF Divided, Running
<1>6. CASE Blocked(t) \/ Failed(t)
  <2>1. /\ pc[t] \in {"waiting", "calling"} /\ pc'[t] = "choosing"
        /\ tried'[t] = tried[t] \cup {next[t]}
        /\ UNCHANGED <<todo, skipped, winner>>
    BY <1>6 DEF Blocked, Failed, Fail, TypeOK
  <2>2. /\ Running(t) /\ next[t] \notin skipped[t] \cup tried[t] \cup todo[t]
        /\ skipped[t] \cup tried[t] \cup todo[t] \cup {next[t]} = Providers
    BY <2>1 DEF Divided
  <2> QED BY <2>1, <2>2 DEF Divided, Running
<1>7. CASE Answered(t)
  <2>1. /\ pc[t] = "calling" /\ pc'[t] = "done" /\ winner'[t] = next[t]
        /\ UNCHANGED <<todo, skipped, tried>> /\ next[t] \in Providers
    BY <1>7 DEF Answered, TypeOK
  <2>2. /\ skipped[t] \cap tried[t] = {} /\ next[t] \notin skipped[t] \cup tried[t]
        /\ skipped[t] \cup tried[t] \cup todo[t] \cup {next[t]} = Providers
        /\ \A q \in todo[t] : next[t] < q
    BY <2>1 DEF Divided, Running
  <2>3. \A q \in 1..(next[t] - 1) : q \in skipped[t] \cup tried[t]
    <3> TAKE q \in 1..(next[t] - 1)
    <3>1. q \in Providers /\ q < next[t] /\ q # next[t] /\ q \in Int /\ next[t] \in Int
      BY <2>1, ChainAssumption DEF Providers
    <3>2. ~(next[t] < q)
      BY <3>1
    <3>3. q \notin todo[t]
      BY <2>2, <3>2
    <3> QED BY <2>2, <3>1, <3>3
  <2>4. next[t] # None
    BY <2>1 DEF Providers, None
  <2> QED BY <2>1, <2>2, <2>3, <2>4 DEF Divided
<1> QED BY <1>1, <1>2, <1>3, <1>4, <1>5, <1>6, <1>7 DEF Step

(***************************************************************************)
(* A card's stamp accounts for every provider before the one that answered,*)
(* and for the whole chain when none did.                                  *)
(***************************************************************************)
THEOREM AuditHolds == Spec => []AuditComplete
<1> DEFINE IInv == \A t \in Threads : Divided(t)
<1>1. Init => IInv
  BY DEF Init, Divided
<1>2. TypeOK /\ IInv /\ [Next]_vars => IInv'
  <2> SUFFICES ASSUME TypeOK, IInv, [Next]_vars, NEW u \in Threads
               PROVE  Divided(u)'
    OBVIOUS
  <2>1. CASE Tick \/ UNCHANGED vars
    <3>1. UNCHANGED <<pc, next, todo, skipped, tried, winner>>
      BY <2>1 DEF Tick, vars
    <3>2. Divided(u)
      OBVIOUS
    <3> QED BY <3>1, <3>2 DEF Divided, Running
  <2>2. ASSUME NEW t \in Threads, Begin(t) \/ Step(t) PROVE Divided(u)'
    BY <2>2, OthersUntouched, OwnStepDivided
  <2> QED BY <2>1, <2>2 DEF Next
<1>3. TypeOK /\ IInv => AuditComplete
  <2> SUFFICES ASSUME IInv, NEW t \in Threads, pc[t] = "done"
               PROVE  /\ skipped[t] \cap tried[t] = {}
                      /\ winner[t] = None => skipped[t] \cup tried[t] = Providers
                      /\ winner[t] # None =>
                           /\ \A q \in 1..(winner[t] - 1) : q \in skipped[t] \cup tried[t]
                           /\ winner[t] \notin skipped[t] \cup tried[t]
    BY DEF AuditComplete
  <2>1. Divided(t)
    OBVIOUS
  <2> QED BY <2>1 DEF Divided
<1> HIDE DEF IInv
<1> QED
  BY <1>1, <1>2, <1>3, TypeCorrect, PTL DEF Spec
=============================================================================
