----------------------------- MODULE NegevProofs -----------------------------
(***************************************************************************)
(* A request never leaves with a token that ran out, for any number of     *)
(* threads, operations and answers, as long as the margin of the token and *)
(* its life are longer than the wait for the bucket (SessionAssumption:    *)
(* 60 s and an hour against 30 s).                                         *)
(***************************************************************************)
EXTENDS Negev, TLAPS

Steps == {"idle", "token", "refreshing", "signing", "waiting", "sent", "failed", "alerting"}

SessionType ==
  /\ clock \in Nat /\ expiry \in Nat
  /\ step \in [Threads -> Steps]
  /\ since \in [Threads -> Nat] /\ stamp \in [Threads -> Nat]

\* Who waits began not too long ago, with a token that outlives the longest wait.
InTime(t) == /\ since[t] <= clock /\ clock <= since[t] + MaxWait
             /\ since[t] + MaxWait < stamp[t]

SessionInv == SessionType /\ \A t \in Threads : step[t] = "waiting" => InTime(t)

-----------------------------------------------------------------------------
\* However an operation goes on, its thread does not wait for the bucket.
LEMMA GoesOn ==
  ASSUME SessionType, NEW t \in Threads, NEW n, GoOn(t, n) \/ Returned(t) \/ Raised(t)
  PROVE  \E s \in Steps \ {"waiting"} : step' = [step EXCEPT ![t] = s]
<1>1. CASE Returned(t)
  BY <1>1 DEF Returned, Steps
<1>2. ASSUME NEW x, GoOn(t, x)
      PROVE  \E s \in Steps \ {"waiting"} : step' = [step EXCEPT ![t] = s]
  <2>1. CASE Returned(t)
    BY <2>1 DEF Returned, Steps
  <2>2. CASE step' = [step EXCEPT ![t] = "token"]
    BY <2>2 DEF Steps
  <2> QED BY <1>2, <2>1, <2>2 DEF GoOn
<1>3. CASE Raised(t)
  <2>1. CASE step' = [step EXCEPT ![t] = "failed"]
    BY <2>1 DEF Steps
  <2> QED BY <1>2, <1>3, <2>1 DEF Raised
<1> QED BY <1>1, <1>2, <1>3

\* A thread that takes a step without waiting leaves the others as they were.
LEMMA OthersWait ==
  ASSUME SessionInv, NEW t \in Threads, NEW s \in Steps \ {"waiting"},
         step' = [step EXCEPT ![t] = s], clock' = clock, expiry' \in Nat,
         (since' = since /\ stamp' = stamp) \/ Released(t)
  PROVE  SessionInv'
<1>1. SessionType'
  BY DEF SessionInv, SessionType, Released
<1>2. ASSUME NEW u \in Threads, step'[u] = "waiting"
      PROVE  InTime(u)'
  <2>1. u # t /\ step[u] = "waiting"
    BY <1>2 DEF SessionInv, SessionType
  <2>2. since'[u] = since[u] /\ stamp'[u] = stamp[u]
    BY <2>1 DEF SessionInv, SessionType, Released
  <2> QED BY <2>1, <2>2 DEF SessionInv, InTime
<1> QED BY <1>1, <1>2 DEF SessionInv

\* Nobody waits with less than the longest wait to live.
LEMMA WaitBegins ==
  ASSUME SessionInv, NEW t \in Threads, NEW until \in Nat, clock + MaxWait < until,
         Awaits(t, until), clock' = clock, expiry' \in Nat
  PROVE  SessionInv'
<1>1. /\ step' = [step EXCEPT ![t] = "waiting"] /\ since' = [since EXCEPT ![t] = clock]
      /\ stamp' = [stamp EXCEPT ![t] = until]
  BY DEF Awaits, Moved
<1>2. SessionType'
  BY <1>1 DEF SessionInv, SessionType, Steps
<1>3. ASSUME NEW u \in Threads, step'[u] = "waiting"
      PROVE  InTime(u)'
  <2>1. CASE u = t
    BY <1>1, <2>1, SessionAssumption DEF SessionInv, SessionType, InTime
  <2>2. CASE u # t
    <3>1. step[u] = "waiting" /\ since'[u] = since[u] /\ stamp'[u] = stamp[u]
      BY <1>1, <1>3, <2>2 DEF SessionInv, SessionType
    <3> QED BY <3>1 DEF SessionInv, InTime
  <2> QED BY <2>1, <2>2
<1> QED BY <1>2, <1>3 DEF SessionInv

\* A renewed token lives longer than a wait.
LEMMA RenewedInTime ==
  ASSUME SessionInv, NEW t \in Threads, Renewed(t), clock' = clock
  PROVE  SessionInv'
<1>1. clock + Life \in Nat /\ clock + MaxWait < clock + Life /\ expiry' = clock + Life
  BY SessionAssumption DEF SessionInv, SessionType, Renewed
<1>2. CASE GoOn(t, FALSE) /\ UNCHANGED call
  BY <1>1, <1>2, GoesOn, OthersWait DEF SessionInv, call
<1>3. CASE Awaits(t, clock + Life)
  BY <1>1, <1>3, WaitBegins
<1> QED BY <1>2, <1>3 DEF Renewed

\* An exception in the middle of an operation.
LEMMA RaisedInTime ==
  ASSUME SessionInv, NEW t \in Threads, NEW n, GoOn(t, n) \/ Returned(t) \/ Raised(t),
         clock' = clock, expiry' = expiry, UNCHANGED call \/ Released(t)
  PROVE  SessionInv'
<1>1. PICK s \in Steps \ {"waiting"} : step' = [step EXCEPT ![t] = s]
  BY GoesOn DEF SessionInv
<1>2. expiry' \in Nat /\ ((since' = since /\ stamp' = stamp) \/ Released(t))
  BY DEF SessionInv, SessionType, call
<1> QED BY <1>1, <1>2, OthersWait

-----------------------------------------------------------------------------
LEMMA SessionStep ==
  ASSUME SessionInv, [NegevNext]_negevVars
  PROVE  SessionInv'
<1> USE DEF session
<1>1. CASE Elapse
  <2>1. clock' = clock + 1 /\ UNCHANGED <<step, since, stamp, expiry>>
    BY <1>1 DEF Elapse, call
  <2>2. ASSUME NEW u \in Threads, step[u] = "waiting"
        PROVE  clock < since[u] + MaxWait
    BY <1>1, <2>2 DEF Elapse
  <2>3. ASSUME NEW u \in Threads, step[u] = "waiting"
        PROVE  InTime(u)'
    BY <2>1, <2>2, <2>3, SessionAssumption DEF SessionInv, SessionType, InTime
  <2> QED BY <2>1, <2>3 DEF SessionInv, SessionType
<1>2. CASE KickOff \/ UNCHANGED negevVars
  <2>1. UNCHANGED <<clock, step, since, stamp, expiry>>
    BY <1>2 DEF KickOff, negevVars, call
  <2> QED BY <2>1 DEF SessionInv, SessionType, InTime
<1>3. ASSUME NEW t \in Threads, Begin(t)
      PROVE  SessionInv'
  <2>1. step' = [step EXCEPT ![t] = "token"] /\ UNCHANGED <<clock, call, expiry>>
    BY <1>3 DEF Begin
  <2>2. expiry' \in Nat /\ since' = since /\ stamp' = stamp /\ clock' = clock
    BY <2>1 DEF SessionInv, SessionType, call
  <2>3. "token" \in Steps \ {"waiting"}
    BY DEF Steps
  <2> QED BY <2>1, <2>2, <2>3, OthersWait
<1>4. ASSUME NEW t \in Threads, Token(t)
      PROVE  SessionInv'
  <2>1. clock' = clock /\ expiry' = expiry /\ expiry \in Nat
    BY <1>4 DEF Token, SessionInv, SessionType
  <2>2. CASE GoOn(t, FALSE) /\ UNCHANGED call
    BY <2>1, <2>2, RaisedInTime
  <2>3. CASE Alive /\ Awaits(t, expiry)
    <3>1. clock + MaxWait < expiry
      BY <2>3, SessionAssumption DEF Alive, SessionInv, SessionType
    <3> QED BY <2>1, <2>3, <3>1, WaitBegins
  <2>4. CASE (Moved(t, "refreshing") \/ Moved(t, "signing")) /\ UNCHANGED call
    <3>1. PICK s \in Steps \ {"waiting"} : step' = [step EXCEPT ![t] = s]
      BY <2>4 DEF Moved, Steps
    <3>2. since' = since /\ stamp' = stamp
      BY <2>4 DEF call
    <3> QED BY <2>1, <3>1, <3>2, OthersWait
  <2> QED BY <1>4, <2>2, <2>3, <2>4 DEF Token
<1>5. ASSUME NEW t \in Threads, Refresh(t) \/ SignIn(t)
      PROVE  SessionInv'
  <2>1. clock' = clock
    BY <1>5 DEF Refresh, SignIn
  <2>2. CASE Renewed(t)
    BY <2>1, <2>2, RenewedInTime
  <2>3. CASE Moved(t, "signing") /\ UNCHANGED <<expiry, seeded, call>>
    <3>1. "signing" \in Steps \ {"waiting"} /\ step' = [step EXCEPT ![t] = "signing"]
          /\ since' = since /\ stamp' = stamp /\ expiry' \in Nat
      BY <2>3 DEF Moved, Steps, call, SessionInv, SessionType
    <3> QED BY <2>1, <3>1, OthersWait
  <2>4. CASE Raised(t) /\ UNCHANGED <<session, call>>
    BY <2>1, <2>4, RaisedInTime
  <2> QED BY <1>5, <2>2, <2>3, <2>4 DEF Refresh, SignIn
<1>6. ASSUME NEW t \in Threads, Send(t)
      PROVE  SessionInv'
  <2>1. "sent" \in Steps \ {"waiting"} /\ step' = [step EXCEPT ![t] = "sent"] /\ Released(t)
        /\ clock' = clock /\ expiry' \in Nat
    BY <1>6 DEF Send, Moved, Steps, SessionInv, SessionType
  <2> QED BY <2>1, OthersWait
<1>7. ASSUME NEW t \in Threads, GiveUp(t)
      PROVE  SessionInv'
  BY <1>7, RaisedInTime DEF GiveUp
<1>8. ASSUME NEW t \in Threads, Read(t) \/ Edit(t) \/ Report(t) \/ ReportSent(t)
      PROVE  SessionInv'
  <2>1. clock' = clock /\ expiry' = expiry /\ UNCHANGED call
    BY <1>8 DEF Read, Edit, Report, ReportSent
  <2>2. CASE (\E n \in BOOLEAN : GoOn(t, n)) \/ Returned(t) \/ Raised(t)
    BY <2>1, <2>2, RaisedInTime
  <2>3. CASE Moved(t, "token") \/ Moved(t, "alerting")
    <3>1. PICK s \in Steps \ {"waiting"} : step' = [step EXCEPT ![t] = s]
      BY <2>3 DEF Moved, Steps
    <3>2. since' = since /\ stamp' = stamp /\ expiry' \in Nat
      BY <2>1 DEF call, SessionInv, SessionType
    <3> QED BY <2>1, <3>1, <3>2, OthersWait
  <2> QED BY <1>8, <2>2, <2>3 DEF Read, Edit, Report, ReportSent
<1> QED BY <1>1, <1>2, <1>3, <1>4, <1>5, <1>6, <1>7, <1>8 DEF NegevNext

LEMMA SessionInit == NegevInit => SessionInv
BY DEF NegevInit, SessionInv, SessionType, Steps

\* The token is looked at before the wait for the bucket and used after it; the margin
\* makes up for that (negev_toto_mcp.py:102, 199; ratelimit.py:35-43).
THEOREM TokensLive == NegevSpec => SentWithLiveToken
<1>1. SessionInv /\ [NegevNext]_negevVars
        => [\A t \in Threads : step[t] = "waiting" /\ step'[t] = "sent"
                                 => clock < stamp[t]]_negevVars
  BY SessionAssumption DEF SessionInv, SessionType, InTime
<1>2. SessionInv /\ [NegevNext]_negevVars => SessionInv'
  BY SessionStep
<1> QED BY <1>1, <1>2, SessionInit, PTL DEF NegevSpec, SentWithLiveToken
=============================================================================
