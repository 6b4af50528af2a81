--------------------------- MODULE SchedulerProofs ---------------------------
(***************************************************************************)
(* Theorems about Scheduler, for every set of matches, windows and workers, *)
(* every timing and any number of crashes.                                  *)
(***************************************************************************)
EXTENDS Scheduler, SequenceTheorems, TLAPS

LEMMA JobTypes ==
  /\ Idle \in Job
  /\ Asleep \in TickState
  /\ \A t \in Nat : Started(t) \in Row
BY DEF Idle, Job, JobPcs, Asleep, TickState, MainPcs, Started, Row, Statuses

\* A worker that is not idle runs a job of Keys; kept apart from TypeOK because the
\* code relies on it for every ledger call.
HasKey == \A w \in Workers : worker[w].pc # "idle" => worker[w].key \in Keys

LEMMA TickTypes ==
  ASSUME NEW m \in TickState, NEW p \in MainPcs, NEW d \in SUBSET Keys
  PROVE  /\ [m EXCEPT !.pc = p] \in TickState
         /\ [m EXCEPT !.due = d] \in TickState
         /\ [m EXCEPT !.pc = p, !.due = d] \in TickState
         /\ [m EXCEPT !.due = d].pc = m.pc
BY DEF TickState

LEMMA JobUpdates ==
  ASSUME NEW j \in Job, NEW p \in JobPcs, NEW n \in Nat
  PROVE  /\ [j EXCEPT !.pc = p] \in Job /\ [j EXCEPT !.pc = p].key = j.key
         /\ [j EXCEPT !.tries = n] \in Job /\ [j EXCEPT !.tries = n].key = j.key
         /\ [j EXCEPT !.run = n] \in Job /\ [j EXCEPT !.run = n].key = j.key
         /\ [j EXCEPT !.sent = TRUE] \in Job /\ [j EXCEPT !.sent = TRUE].key = j.key
BY DEF Job

LEMMA JobPc ==
  ASSUME NEW j \in Job, NEW p \in JobPcs
  PROVE  LET job == [j EXCEPT !.pc = p]
         IN  job \in Job /\ job.pc = p /\ job.key = j.key /\ job.run = j.run /\ job.sent = j.sent
BY DEF Job

LEMMA JobCounters ==
  ASSUME NEW j \in Job, NEW n \in Nat
  PROVE  /\ LET job == [j EXCEPT !.run = n]
            IN  job \in Job /\ job.run = n /\ job.pc = j.pc /\ job.key = j.key /\ job.sent = j.sent
         /\ LET job == [j EXCEPT !.tries = n]
            IN  job \in Job /\ job.pc = j.pc /\ job.key = j.key
                /\ job.run = j.run /\ job.sent = j.sent
BY DEF Job

LEMMA EmptySeqs == <<>> \in Seq(Keys) /\ <<>> \in Seq(Row)
BY EmptySeq

\* Overwriting one position of a sequence, in range or not, keeps its type.
LEMMA ExceptType ==
  ASSUME NEW S, NEW s \in Seq(S), NEW i \in Nat, NEW e \in S
  PROVE  [s EXCEPT ![i] = e] \in Seq(S)
<1>1. CASE i \in 1..Len(s)
  BY <1>1, ExceptSeq
<1>2. CASE i \notin 1..Len(s)
  <2>1. s \in [1..Len(s) -> S]
    BY LenProperties
  <2>2. [s EXCEPT ![i] = e] = s
    BY <1>2, <2>1
  <2> QED
    BY <2>2
<1> QED
  BY <1>1, <1>2

LEMMA WriteType ==
  ASSUME TypeOK, NEW table \in [Keys -> Seq(Row)], Write(table)
  PROVE  /\ ledger' \in [Keys -> Seq(Row)] /\ disk' \in [Keys -> Seq(Row)]
         /\ volatile' \in BOOLEAN
BY DEF TypeOK, Write

LEMMA StepType ==
  ASSUME TypeOK, HasKey, NEW w \in Workers, NEW from, NEW job \in Job, Step(w, from, job),
         job.pc # "idle" => job.key \in Keys
  PROVE  /\ worker' \in [Workers -> Job] /\ HasKey'
         /\ now' \in 0..MaxTime /\ calendar' \in 1..Len(Published)
         /\ up' \in BOOLEAN /\ crashes' \in 0..MaxCrashes
         /\ lastIngest' \in Nat \cup {None}
         /\ main' \in TickState
         /\ dispatched' \subseteq Keys
BY DEF TypeOK, HasKey, Step, procVars, mainVars

THEOREM TypeCorrect == Spec => [](TypeOK /\ HasKey)
<1>1. Init => TypeOK /\ HasKey
  <2>1. Len(Published) \in Nat \ {0}
    BY ConstantsOK, EmptySeq
  <2>2. Init => TypeOK /\ HasKey
    <3> SUFFICES ASSUME Init PROVE TypeOK /\ HasKey
      OBVIOUS
    <3>1. worker \in [Workers -> Job] /\ HasKey
      BY JobTypes DEF Init, HasKey, Idle
    <3>2. ledger \in [Keys -> Seq(Row)] /\ disk \in [Keys -> Seq(Row)] /\ queue \in Seq(Keys)
      BY EmptySeqs DEF Init
    <3>3. now \in 0..MaxTime /\ crashes \in 0..MaxCrashes /\ calendar \in 1..Len(Published)
      BY <2>1, ConstantsOK DEF Init
    <3>4. main \in TickState
      BY JobTypes DEF Init
    <3> QED
      BY <3>1, <3>2, <3>3, <3>4 DEF Init, TypeOK
  <2> QED
    BY <2>2
<1>2. TypeOK /\ HasKey /\ [Next]_vars => (TypeOK /\ HasKey)'
  <2> SUFFICES ASSUME TypeOK, HasKey, [Next]_vars PROVE (TypeOK /\ HasKey)'
    OBVIOUS
  <2> USE ConstantsOK, JobTypes, EmptySeqs DEF procVars, mainVars, ledgerVars, outVars
  <2>1. CASE TickStart
    <3>1. [pc |-> "ingest", now |-> now, due |-> {}] \in TickState
      BY DEF TickState, MainPcs, TypeOK
    <3> QED
      BY <2>1, <3>1 DEF TickStart, TypeOK, HasKey
  <2>2. CASE MaybeIngest
    <3>1. main' \in TickState /\ main.now \in Nat
      BY <2>2, TickTypes DEF MaybeIngest, TypeOK, MainPcs, TickState
    <3>2. calendar' \in 1..Len(Published) /\ lastIngest' \in Nat \cup {None}
      BY <2>2, <3>1, LenProperties DEF MaybeIngest, TypeOK
    <3> QED
      BY <2>2, <3>1, <3>2 DEF MaybeIngest, TypeOK, HasKey
  <2>3. CASE SelectDue
    <3>1. DueJobs(main.now) \in SUBSET Keys
      BY DEF DueJobs
    <3>2. main' \in TickState
      BY <2>3, <3>1, TickTypes DEF SelectDue, TypeOK, MainPcs
    <3> QED
      BY <2>3, <3>2 DEF SelectDue, TypeOK, HasKey
  <2>4. CASE TickError
    BY <2>4 DEF TickError, TypeOK, HasKey
  <2>5. ASSUME NEW k \in Keys, Submit(k) PROVE (TypeOK /\ HasKey)'
    <3>1. main.due \ {k} \in SUBSET Keys
      BY DEF TypeOK, TickState
    <3>2. main' \in TickState
      BY <2>5, <3>1, TickTypes DEF Submit, TypeOK, MainPcs
    <3>3. queue' \in Seq(Keys)
      BY <2>5, AppendProperties DEF Submit, Enqueue, TypeOK
    <3> QED
      BY <2>5, <3>2, <3>3 DEF Submit, TypeOK, HasKey
  <2>6. CASE Submitted
    <3>1. main' \in TickState
      BY <2>6, TickTypes DEF Submitted, TypeOK, MainPcs
    <3> QED
      BY <2>6, <3>1 DEF Submitted, TypeOK, HasKey
  <2>7. CASE Watch
    <3>1. Stuck \subseteq Keys
      BY DEF Stuck
    <3>2. alerts' \subseteq AlertKinds \X Keys
      BY <2>7, <3>1 DEF Watch, TypeOK, AlertKinds
    <3> QED
      BY <2>7, <3>2 DEF Watch, TypeOK, HasKey
  <2>8. ASSUME NEW w \in Workers, Work(w) PROVE (TypeOK /\ HasKey)'
    <3>0. worker[w] \in Job
      BY DEF TypeOK
    <3>1. CASE Take(w)
      <4>1. queue' \in Seq(Keys) /\ Head(queue) \in Keys
        BY <3>1, HeadTailProperties DEF Take, TypeOK
      <4>2. [Idle EXCEPT !.pc = "start", !.key = Head(queue)] \in Job
        BY <4>1 DEF Idle, Job, JobPcs
      <4> QED
        BY <3>1, <4>1, <4>2, StepType DEF Take, TypeOK, HasKey, Idle, Step
    <3>2. CASE Start(w)
      <4>1. CASE Step(w, "start", Idle) /\ UNCHANGED <<queue, ledgerVars, outVars>>
        BY <4>1, StepType DEF TypeOK, Idle
      <4>2. CASE /\ Step(w, "start", [At(w, "build") EXCEPT !.run = Len(ledger[worker[w].key]) + 1])
                 /\ StartRun(worker[w].key) /\ UNCHANGED <<queue, outVars>>
        <5>1. worker[w].key \in Keys
          BY <4>2 DEF Step, HasKey
        <5>2. [At(w, "build") EXCEPT !.run = Len(ledger[worker[w].key]) + 1] \in Job
          <6>1. At(w, "build") \in Job
            BY <3>0, JobUpdates DEF At, JobPcs
          <6>2. Len(ledger[worker[w].key]) + 1 \in Nat
            BY <5>1, LenProperties DEF TypeOK
          <6> QED
            BY <6>1, <6>2, JobUpdates DEF JobPcs
        <5>3. [ledger EXCEPT ![worker[w].key] = Append(@, Started(now))] \in [Keys -> Seq(Row)]
          <6>1. Append(ledger[worker[w].key], Started(now)) \in Seq(Row)
            BY <5>1, AppendProperties DEF TypeOK
          <6> QED
            BY <6>1 DEF TypeOK
        <5> QED
          BY <3>0, <4>2, <5>1, <5>2, <5>3, StepType, WriteType DEF StartRun, TypeOK, At, Job
      <4> QED
        BY <3>2, <4>1, <4>2 DEF Start
    <3>3. CASE Build(w)
      <4>1. At(w, "deliver") \in Job /\ At(w, "fail") \in Job /\ At(w, "hung") \in Job
            /\ [worker[w] EXCEPT !.tries = @ + 1] \in Job
        <5>1. worker[w].tries + 1 \in Nat
          BY <3>0 DEF Job
        <5> QED
          BY <3>0, <5>1, JobUpdates DEF At, JobPcs
      <4>2. /\ At(w, "deliver").key = worker[w].key /\ At(w, "fail").key = worker[w].key
            /\ At(w, "hung").key = worker[w].key
            /\ [worker[w] EXCEPT !.tries = @ + 1].key = worker[w].key
        BY <3>0 DEF At, Job
      <4>3. worker[w].key \in Keys
        BY <3>3 DEF Build, Step, HasKey
      <4> QED
        BY <3>3, <4>1, <4>2, <4>3, StepType DEF Build, TypeOK
    <3>4. ASSUME NEW i \in Nat, NEW st \in Statuses, NEW del \in BOOLEAN, worker[w].key \in Keys,
                 FinishRun(worker[w].key, i, st, del)
          PROVE  /\ ledger' \in [Keys -> Seq(Row)] /\ disk' \in [Keys -> Seq(Row)]
                 /\ volatile' \in BOOLEAN
      <4> DEFINE k == worker[w].key
                 row == [ledger[k][i] EXCEPT !.status = st, !.delivered = del]
      <4>1. [ledger[k] EXCEPT ![i] = row] \in Seq(Row)
        <5>1. ledger[k] \in Seq(Row)
          BY <3>4 DEF TypeOK
        <5>2. row \in Row \/ i \notin 1..Len(ledger[k])
          <6>1. ASSUME i \in 1..Len(ledger[k]) PROVE ledger[k][i] \in Row
            BY <5>1, <6>1, ElementOfSeq
          <6>2. \A r \in Row : [r EXCEPT !.status = st, !.delivered = del] \in Row
            BY <3>4 DEF Row
          <6> QED
            BY <6>1, <6>2
        <5>3. CASE row \in Row
          BY <5>1, <5>3, ExceptType
        <5>4. CASE i \notin 1..Len(ledger[k])
          BY <5>1, <5>4, LenProperties
        <5> QED
          BY <5>2, <5>3, <5>4
      <4>2. [ledger EXCEPT ![k] = [ledger[k] EXCEPT ![i] = row]] \in [Keys -> Seq(Row)]
        BY <3>4, <4>1 DEF TypeOK
      <4> QED
        BY <3>4, <4>2, WriteType DEF FinishRun
    <3>5. CASE RecordFailure(w)
      <4>1. worker[w].key \in Keys
        BY <3>5 DEF RecordFailure, Step, HasKey
      <4>2. At(w, "alertFailed") \in Job /\ At(w, "alertFailed").key = worker[w].key
        BY <3>0 DEF At, Job, JobPcs
      <4>3. worker[w].run \in Nat
        BY <3>0 DEF Job
      <4>4. CASE FinishRun(worker[w].key, worker[w].run, "failed", FALSE)
                 /\ Step(w, "fail", At(w, "alertFailed")) /\ UNCHANGED <<queue, outVars>>
        BY <4>4, <4>1, <4>2, <4>3, <3>4, StepType DEF Statuses, TypeOK
      <4>5. CASE Step(w, "fail", Idle) /\ UNCHANGED <<queue, ledgerVars, outVars>>
        BY <4>5, StepType DEF TypeOK, Idle
      <4> QED
        BY <3>5, <4>4, <4>5 DEF RecordFailure
    <3>6. CASE Deliver(w)
      <4>1. worker[w].key \in Keys
        BY <3>6 DEF Deliver, Step, HasKey
      <4>2. /\ At(w, "record") \in Job /\ [At(w, "record") EXCEPT !.sent = TRUE] \in Job
            /\ At(w, "record").key = worker[w].key
            /\ [At(w, "record") EXCEPT !.sent = TRUE].key = worker[w].key
        BY <3>0 DEF At, Job, JobPcs
      <4>3. cards' \in [Keys -> Nat]
        <5>1. cards' = cards \/ cards' = [cards EXCEPT ![worker[w].key] = cards[worker[w].key] + 1]
          BY <3>6 DEF Deliver
        <5> QED
          <6>1. cards \in [Keys -> Nat]
            BY DEF TypeOK
          <6> QED
            BY <4>1, <5>1, <6>1
      <4>4. worker' \in [Workers -> Job] /\ HasKey' /\ now' \in 0..MaxTime
            /\ calendar' \in 1..Len(Published) /\ up' \in BOOLEAN /\ crashes' \in 0..MaxCrashes
            /\ lastIngest' \in Nat \cup {None}
            /\ main' \in TickState /\ dispatched' \subseteq Keys
        BY <3>6, <4>1, <4>2, StepType DEF Deliver, Idle
      <4> QED
        BY <3>6, <4>3, <4>4 DEF Deliver, TypeOK
    <3>7. CASE RecordOutcome(w)
      <4>1. worker[w].key \in Keys
        BY <3>7 DEF RecordOutcome, Step, HasKey
      <4>2. At(w, "alertUndelivered") \in Job /\ At(w, "alertUndelivered").key = worker[w].key
        BY <3>0 DEF At, Job, JobPcs
      <4>3. worker[w].run \in Nat /\ worker[w].sent \in BOOLEAN
        BY <3>0 DEF Job
      <4>4. CASE /\ FinishRun(worker[w].key, worker[w].run, "ok", worker[w].sent)
                 /\ Step(w, "record", IF worker[w].sent THEN Idle ELSE At(w, "alertUndelivered"))
                 /\ UNCHANGED <<queue, outVars>>
        BY <4>4, <4>1, <4>2, <4>3, <3>4, StepType DEF Statuses, TypeOK, Idle
      <4>5. CASE Step(w, "record", Idle) /\ UNCHANGED <<queue, ledgerVars, outVars>>
        BY <4>5, StepType DEF TypeOK, Idle
      <4> QED
        BY <3>7, <4>4, <4>5 DEF RecordOutcome
    <3>8. ASSUME NEW from \in JobPcs \ {"idle"}, NEW kind \in AlertKinds, Raise(w, from, kind)
          PROVE  (TypeOK /\ HasKey)'
      <4>1. worker[w].key \in Keys
        BY <3>8 DEF Raise, Step, HasKey
      <4>2. alerts' \subseteq AlertKinds \X Keys
        BY <3>8, <4>1 DEF Raise, TypeOK
      <4> QED
        BY <3>8, <4>2, StepType DEF Raise, TypeOK, Idle
    <3>9. CASE AlertFailed(w) \/ AlertUndelivered(w)
      BY <3>8, <3>9 DEF AlertFailed, AlertUndelivered, JobPcs, AlertKinds
    <3> QED
      BY <2>8, <3>1, <3>2, <3>3, <3>5, <3>6, <3>7, <3>9 DEF Work
  <2>9. CASE Crash
    <3>1. crashes' \in 0..MaxCrashes
      BY <2>9 DEF Crash, TypeOK
    <3>2. worker' \in [Workers -> Job] /\ HasKey'
      BY <2>9 DEF Crash, HasKey, Idle
    <3> QED
      BY <2>9, <3>1, <3>2 DEF Crash, TypeOK
  <2>10. CASE Restart
    <3>1. /\ up' \in BOOLEAN
          /\ UNCHANGED <<now, calendar, crashes, lastIngest, main, dispatched, queue, worker, disk,
                       cards, alerts>>
      BY <2>10 DEF Restart
    <3>2. ledger' \in [Keys -> Seq(Row)] /\ volatile' \in BOOLEAN
      <4>1. CASE UNCHANGED <<ledger, volatile>>
        BY <4>1 DEF TypeOK
      <4>2. CASE ledger' = [k \in Keys |-> <<>>] /\ volatile' = TRUE
        BY <4>2
      <4> QED
        BY <2>10, <4>1, <4>2 DEF Restart
    <3> QED
      BY <3>1, <3>2 DEF TypeOK, HasKey
  <2>11. CASE Advance
    BY <2>11 DEF Advance, TypeOK, HasKey
  <2>12. CASE UNCHANGED vars
    BY <2>12 DEF vars, TypeOK, HasKey
  <2> QED
    BY <2>1, <2>2, <2>3, <2>4, <2>5, <2>6, <2>7, <2>8, <2>9, <2>10, <2>11, <2>12 DEF Next, Tick
<1> QED
  BY <1>1, <1>2, PTL DEF Spec

-----------------------------------------------------------------------------
(***************************************************************************)
(* At-most-once delivery.  The argument needs a ledger that survives: the   *)
(* theorems below assume that opening it never fails ("open" \notin Faults),*)
(* which is what makes disk and ledger the same table.                      *)
(***************************************************************************)

DurableLedger == ~volatile /\ disk = ledger

Inv == TypeOK /\ HasKey /\ DurableLedger /\ OneJobPerWindow /\ LedgerTruthful

\* A step of a thread touches only the row and the cards of its own window, so nobody
\* else's part of the invariant is disturbed.
LEMMA OwnWindowOnly ==
  ASSUME Inv, NEW w \in Workers, NEW k \in Keys, NEW from, NEW job \in Job,
         worker[w].key = k, worker[w].pc # "idle", Step(w, from, job),
         job.key \in {k, None}, queue' = queue,
         ledger' \in [Keys -> Seq(Row)], cards' \in [Keys -> Nat],
         \A j \in Keys \ {k} : ledger'[j] = ledger[j] /\ cards'[j] = cards[j],
         JobMatchesRow(w)',
         Len(ledger'[k]) <= 1, ledger'[k] = <<>> => cards'[k] = 0,
         \A i \in DOMAIN ledger'[k] : Truthful(ledger'[k][i], cards'[k])
  PROVE  OneJobPerWindow' /\ LedgerTruthful'
<1> USE DEF mainVars
<1>0. /\ worker \in [Workers -> Job] /\ worker' = [worker EXCEPT ![w] = job]
      /\ dispatched' = dispatched /\ main' = main
      /\ k \in dispatched /\ None \notin Keys
  BY ConstantsOK DEF Inv, TypeOK, Step, OneJobPerWindow, JobMatchesRow
<1>1. DueHasNoRow'
  BY <1>0 DEF Inv, OneJobPerWindow, DueHasNoRow, TypeOK, TickState
<1>2. QueuedHasNoRow'
  <2> SUFFICES ASSUME NEW i \in DOMAIN queue
               PROVE  /\ queue[i] \in dispatched /\ ledger'[queue[i]] = <<>>
                      /\ \A j \in DOMAIN queue : queue[i] = queue[j] => i = j
                      /\ \A v \in Workers : worker'[v].key # queue[i]
    BY <1>0 DEF QueuedHasNoRow
  <2>1. queue[i] \in Keys
    BY ElementOfSeq, LenProperties DEF Inv, TypeOK
  <2>2. queue[i] # k
    BY DEF Inv, OneJobPerWindow, QueuedHasNoRow
  <2> QED
    BY <1>0, <2>1, <2>2 DEF Inv, OneJobPerWindow, QueuedHasNoRow
<1>3. OneThread'
  BY <1>0 DEF Inv, OneJobPerWindow, OneThread
<1>4. ASSUME NEW v \in Workers PROVE JobMatchesRow(v)'
  <2>1. CASE v = w
    BY <2>1
  <2>2. CASE v # w /\ worker[v].pc = "idle"
    BY <1>0, <2>2 DEF Inv, OneJobPerWindow, JobMatchesRow
  <2>3. CASE v # w /\ worker[v].pc # "idle"
    <3>1. worker[v].key \in Keys /\ worker[v].key # k
      BY <1>0, <2>3 DEF Inv, HasKey, OneJobPerWindow, OneThread
    <3>2. JobMatchesRow(v)
      BY DEF Inv, OneJobPerWindow
    <3> QED
      BY <1>0, <2>3, <3>1, <3>2 DEF JobMatchesRow
  <2> QED
    BY <2>1, <2>2, <2>3
<1>5. OneRow'
  BY DEF Inv, OneJobPerWindow, OneRow
<1>6. LedgerTruthful'
  BY DEF Inv, LedgerTruthful
<1> QED
  BY <1>1, <1>2, <1>3, <1>4, <1>5, <1>6 DEF OneJobPerWindow

\* Opening a run gives a window without a row exactly one row, 'started'.
LEMMA OneRowStarted ==
  ASSUME TypeOK, DurableLedger, NEW k \in Keys, ledger[k] = <<>>, StartRun(k)
  PROVE  /\ DurableLedger' /\ ledger' \in [Keys -> Seq(Row)]
         /\ Len(ledger'[k]) = 1 /\ ledger'[k][1].status = "started"
         /\ ledger'[k] # <<>> /\ DOMAIN ledger'[k] = 1..1
         /\ \A j \in Keys \ {k} : ledger'[j] = ledger[j]
<1>1. now \in Nat /\ ledger \in [Keys -> Seq(Row)]
  BY ConstantsOK DEF TypeOK
<1>2. Started(now) \in Row
  BY <1>1, JobTypes
<1>3. /\ Append(ledger[k], Started(now)) \in Seq(Row)
      /\ Len(Append(ledger[k], Started(now))) = 1
      /\ Append(ledger[k], Started(now))[1] = Started(now)
  <2>1. Len(ledger[k]) = 0
    BY <1>1, EmptySeq
  <2> QED
    BY <1>1, <1>2, <2>1, AppendProperties
<1>4. ledger' = [ledger EXCEPT ![k] = Append(ledger[k], Started(now))]
  BY DEF StartRun, Write
<1>5. ledger'[k] = Append(ledger[k], Started(now))
  BY <1>1, <1>4
<1>6. Len(ledger'[k]) = 1 /\ ledger'[k][1].status = "started"
  BY <1>3, <1>5 DEF Started
<1>7. ledger'[k] # <<>> /\ DOMAIN ledger'[k] = 1..1
  BY <1>3, <1>5, LenProperties, EmptySeq
<1>8. DurableLedger' /\ ledger' \in [Keys -> Seq(Row)]
  BY <1>1, <1>3, <1>4 DEF DurableLedger, StartRun, Write
<1>9. \A j \in Keys \ {k} : ledger'[j] = ledger[j]
  BY <1>1, <1>4
<1> QED
  BY <1>6, <1>7, <1>8, <1>9

LEMMA ExceptFirst ==
  ASSUME NEW S, NEW s \in Seq(S), Len(s) = 1, NEW e \in S
  PROVE  /\ [s EXCEPT ![1] = e] \in Seq(S)
         /\ Len([s EXCEPT ![1] = e]) = 1
         /\ [s EXCEPT ![1] = e][1] = e
<1>1. 1 \in 1..Len(s)
  OBVIOUS
<1>2. /\ [s EXCEPT ![1] = e] \in Seq(S)
      /\ Len([s EXCEPT ![1] = e]) = Len(s)
  BY <1>1, ExceptSeq
<1>3. [s EXCEPT ![1] = e][1] = e
  BY <1>1, LenProperties
<1> QED
  BY <1>2, <1>3

\* Closing the only row of a window overwrites its status and its verdict.
LEMMA OneRowFinished ==
  ASSUME TypeOK, DurableLedger, NEW k \in Keys, Len(ledger[k]) = 1,
         NEW st \in Statuses, NEW del \in BOOLEAN, FinishRun(k, 1, st, del)
  PROVE  /\ DurableLedger' /\ ledger' \in [Keys -> Seq(Row)]
         /\ Len(ledger'[k]) = 1 /\ ledger'[k] # <<>> /\ DOMAIN ledger'[k] = 1..1
         /\ ledger'[k][1].status = st /\ ledger'[k][1].delivered = del
         /\ \A j \in Keys \ {k} : ledger'[j] = ledger[j]
<1> DEFINE row == [ledger[k][1] EXCEPT !.status = st, !.delivered = del]
<1>1. ledger \in [Keys -> Seq(Row)] /\ ledger[k] \in Seq(Row)
  BY DEF TypeOK
<1>2. 1 \in 1..Len(ledger[k])
  OBVIOUS
<1>3. row \in Row /\ row.status = st /\ row.delivered = del
  <2>1. ledger[k][1] \in Row
    BY <1>1, <1>2, ElementOfSeq
  <2> QED
    BY <2>1 DEF Row
<1>4. ledger' = [ledger EXCEPT ![k] = [ledger[k] EXCEPT ![1] = row]]
  BY DEF FinishRun, Write
<1> HIDE DEF row
<1>5. /\ [ledger[k] EXCEPT ![1] = row] \in Seq(Row)
      /\ Len([ledger[k] EXCEPT ![1] = row]) = 1
      /\ [ledger[k] EXCEPT ![1] = row][1] = row
  BY <1>1, <1>3, ExceptFirst
<1>6. ledger'[k] = [ledger[k] EXCEPT ![1] = row]
  BY <1>1, <1>4
<1>7. Len(ledger'[k]) = 1 /\ ledger'[k][1] = row
  BY <1>5, <1>6
<1>8. ledger'[k] # <<>> /\ DOMAIN ledger'[k] = 1..1
  BY <1>5, <1>6, LenProperties, EmptySeq
<1>9. DurableLedger' /\ ledger' \in [Keys -> Seq(Row)]
  BY <1>1, <1>4, <1>5 DEF DurableLedger, FinishRun, Write
<1>10. \A j \in Keys \ {k} : ledger'[j] = ledger[j]
  BY <1>1, <1>4
<1> QED
  BY <1>3, <1>7, <1>8, <1>9, <1>10

\* A thread takes the head of the queue: the key moves from the queue to the thread.
LEMMA TakeKeepsInv ==
  ASSUME Inv, NEW w \in Workers, Take(w)
  PROVE  OneJobPerWindow' /\ DurableLedger' /\ LedgerTruthful'
<1> DEFINE job == [Idle EXCEPT !.pc = "start", !.key = Head(queue)]
<1>1. queue \in Seq(Keys) /\ queue # <<>>
  BY DEF Inv, TypeOK, Take
<1>2. /\ Head(queue) \in Keys /\ Head(queue) = queue[1] /\ 1 \in DOMAIN queue
      /\ queue' \in Seq(Keys) /\ Len(queue') = Len(queue) - 1
      /\ \A i \in DOMAIN queue' : i + 1 \in DOMAIN queue /\ queue'[i] = queue[i+1] /\ i \in Nat \ {0}
  <2>1. queue' = Tail(queue)
    BY DEF Take
  <2>2. Len(queue) \in Nat /\ DOMAIN queue = 1..Len(queue) /\ Len(queue) # 0
    BY <1>1, LenProperties, EmptySeq
  <2>3. /\ Head(queue) \in Keys /\ Tail(queue) \in Seq(Keys)
        /\ Len(Tail(queue)) = Len(queue) - 1
        /\ \A i \in 1..Len(Tail(queue)) : Tail(queue)[i] = queue[i+1]
    BY <1>1, HeadTailProperties
  <2>4. DOMAIN Tail(queue) = 1..Len(Tail(queue))
    BY <2>3, LenProperties
  <2>5. Head(queue) = queue[1]
    BY <1>1
  <2> QED
    BY <2>1, <2>2, <2>3, <2>4, <2>5
<1>3. /\ worker' = [worker EXCEPT ![w] = job] /\ worker \in [Workers -> Job]
      /\ dispatched' = dispatched /\ main' = main /\ worker[w].pc = "idle"
      /\ ledger' = ledger /\ cards' = cards /\ disk' = disk /\ volatile' = volatile
  BY DEF Inv, TypeOK, Take, Step, mainVars, ledgerVars, outVars
<1>4. job.pc = "start" /\ job.key = Head(queue) /\ job.sent = FALSE /\ job.run = 0
  BY DEF Idle
<1>5. Head(queue) \in dispatched /\ ledger[Head(queue)] = <<>>
      /\ \A v \in Workers : worker[v].key # Head(queue)
  BY <1>2 DEF Inv, OneJobPerWindow, QueuedHasNoRow
<1> HIDE DEF job
<1>6. DueHasNoRow'
  BY <1>3 DEF Inv, OneJobPerWindow, DueHasNoRow
<1>7. QueuedHasNoRow'
  <2> SUFFICES ASSUME NEW i \in DOMAIN queue'
               PROVE  /\ queue'[i] \in dispatched /\ ledger[queue'[i]] = <<>>
                      /\ \A j \in DOMAIN queue' : queue'[i] = queue'[j] => i = j
                      /\ \A v \in Workers : worker'[v].key # queue'[i]
    BY <1>3 DEF QueuedHasNoRow
  <2>1. queue'[i] = queue[i+1] /\ i + 1 \in DOMAIN queue /\ i \in Nat \ {0}
    BY <1>2
  <2>2. queue'[i] \in dispatched /\ ledger[queue'[i]] = <<>>
    BY <2>1 DEF Inv, OneJobPerWindow, QueuedHasNoRow
  <2>3. ASSUME NEW j \in DOMAIN queue', queue'[i] = queue'[j] PROVE i = j
    <3>1. queue'[j] = queue[j+1] /\ j + 1 \in DOMAIN queue /\ j \in Nat \ {0}
      BY <1>2
    <3>2. i + 1 = j + 1
      BY <2>1, <2>3, <3>1 DEF Inv, OneJobPerWindow, QueuedHasNoRow
    <3> QED
      BY <2>1, <3>1, <3>2
  <2>4. queue'[i] # Head(queue)
    <3>1. i + 1 # 1
      BY <2>1
    <3> QED
      BY <1>2, <2>1, <3>1 DEF Inv, OneJobPerWindow, QueuedHasNoRow
  <2>5. \A v \in Workers : worker[v].key # queue'[i]
    BY <2>1 DEF Inv, OneJobPerWindow, QueuedHasNoRow
  <2> QED
    BY <1>3, <1>4, <2>2, <2>3, <2>4, <2>5
<1>8. OneThread'
  BY <1>3, <1>4, <1>5 DEF Inv, OneJobPerWindow, OneThread
<1>9. ASSUME NEW v \in Workers PROVE JobMatchesRow(v)'
  <2>1. CASE v = w
    <3>1. worker'[v] = job
      BY <1>3, <2>1
    <3>2. job.key # None
      BY <1>2, <1>4, ConstantsOK
    <3> QED
      BY <1>3, <1>4, <1>5, <3>1, <3>2 DEF JobMatchesRow
  <2>2. CASE v # w
    <3>1. worker'[v] = worker[v] /\ JobMatchesRow(v)
      BY <1>3, <2>2 DEF Inv, OneJobPerWindow
    <3> QED
      BY <1>3, <3>1 DEF JobMatchesRow
  <2> QED
    BY <2>1, <2>2
<1>10. OneRow' /\ DurableLedger' /\ LedgerTruthful'
  BY <1>3 DEF Inv, OneJobPerWindow, OneRow, DurableLedger, LedgerTruthful
<1> QED
  BY <1>6, <1>7, <1>8, <1>9, <1>10 DEF OneJobPerWindow

\* A thread that has taken a job keeps the invariant, whatever it does with it.
LEMMA WorkKeepsInv ==
  ASSUME Inv, NEW w \in Workers, Work(w)
  PROVE  OneJobPerWindow' /\ DurableLedger' /\ LedgerTruthful'
<1> DEFINE k == worker[w].key
           Goal == OneJobPerWindow' /\ DurableLedger' /\ LedgerTruthful'
<1> USE DEF ledgerVars, outVars
<1>0. /\ worker \in [Workers -> Job] /\ worker[w] \in Job /\ None \notin Keys
      /\ ledger \in [Keys -> Seq(Row)] /\ cards \in [Keys -> Nat]
      /\ JobMatchesRow(w) /\ TypeOK /\ DurableLedger /\ Idle \in Job
  BY ConstantsOK, JobTypes DEF Inv, TypeOK, OneJobPerWindow
<1>1. ASSUME worker[w].pc # "idle" PROVE k \in Keys
  BY <1>1 DEF Inv, HasKey
\* A step that leaves ledger and cards alone.
<1>2. ASSUME NEW from, NEW job \in Job, Step(w, from, job), worker[w].pc # "idle",
             job.key \in {k, None}, UNCHANGED <<queue, ledgerVars, cards>>, JobMatchesRow(w)'
      PROVE  Goal
  <2>1. /\ Len(ledger[k]) <= 1 /\ (ledger[k] = <<>> => cards[k] = 0)
        /\ \A i \in DOMAIN ledger[k] : Truthful(ledger[k][i], cards[k])
    BY <1>1, <1>2 DEF Inv, OneJobPerWindow, OneRow, LedgerTruthful
  <2>2. OneJobPerWindow' /\ LedgerTruthful'
    BY <1>0, <1>1, <1>2, <2>1, OwnWindowOnly
  <2> QED
    BY <1>0, <1>2, <2>2 DEF DurableLedger
\* A step after which the thread is idle again.
<1>3. ASSUME NEW from, Step(w, from, Idle) PROVE JobMatchesRow(w)'
  BY <1>0, <1>3 DEF Step, Idle, JobMatchesRow
<1>4. CASE Take(w)
  BY <1>4, TakeKeepsInv
<1>5. CASE Start(w)
  <2>1. worker[w].pc = "start" /\ k \in Keys /\ ledger[k] = <<>> /\ cards[k] = 0
        /\ worker[w].sent = FALSE /\ k \in dispatched
    BY <1>0, <1>1, <1>5 DEF Start, Step, JobMatchesRow, Inv, OneJobPerWindow, OneRow, Job
  <2>2. CASE Step(w, "start", Idle) /\ UNCHANGED <<queue, ledgerVars, outVars>>
    BY <1>0, <1>2, <1>3, <2>1, <2>2 DEF Idle
  <2>3. CASE /\ Step(w, "start", [At(w, "build") EXCEPT !.run = Len(ledger[k]) + 1])
             /\ StartRun(k) /\ UNCHANGED <<queue, outVars>>
    <3> DEFINE job == [At(w, "build") EXCEPT !.run = Len(ledger[k]) + 1]
    <3>1. job \in Job /\ job.pc = "build" /\ job.key = k /\ job.run = 1 /\ job.sent = FALSE
      <4>1. Len(ledger[k]) = 0
        BY <2>1
      <4> QED
        <5>1. At(w, "build") \in Job /\ At(w, "build").pc = "build" /\ At(w, "build").key = k
              /\ At(w, "build").sent = FALSE
          BY <1>0, <2>1, JobPc DEF At, JobPcs
        <5>2. job = [At(w, "build") EXCEPT !.run = 1]
          BY <4>1
        <5>3. /\ [At(w, "build") EXCEPT !.run = 1] \in Job
              /\ [At(w, "build") EXCEPT !.run = 1].run = 1
              /\ [At(w, "build") EXCEPT !.run = 1].pc = "build"
              /\ [At(w, "build") EXCEPT !.run = 1].key = k
              /\ [At(w, "build") EXCEPT !.run = 1].sent = FALSE
          <6> HIDE DEF k
          <6> QED
            BY <5>1, JobCounters, 1 \in Nat
        <5> QED
          BY <5>2, <5>3
    <3>2. /\ DurableLedger' /\ ledger' \in [Keys -> Seq(Row)]
          /\ Len(ledger'[k]) = 1 /\ ledger'[k][1].status = "started"
          /\ ledger'[k] # <<>> /\ DOMAIN ledger'[k] = 1..1
          /\ \A j \in Keys \ {k} : ledger'[j] = ledger[j]
      BY <1>0, <2>1, <2>3, OneRowStarted
    <3>3. Step(w, "start", job)
      BY <2>3
    <3> HIDE DEF job
    <3>4. JobMatchesRow(w)'
      <4>1. worker'[w] = job /\ dispatched' = dispatched /\ cards' = cards
        BY <1>0, <2>3, <3>3 DEF Step, mainVars
      <4> QED
        BY <1>0, <2>1, <3>1, <3>2, <4>1 DEF JobMatchesRow
    <3>5. \A i \in DOMAIN ledger'[k] : ledger'[k][i].status = "started"
      BY <3>2
    <3>6. cards' \in [Keys -> Nat] /\ cards' = cards /\ queue' = queue
      BY <1>0, <2>3
    <3>7. OneJobPerWindow' /\ LedgerTruthful'
      <4>1. \A j \in Keys \ {k} : ledger'[j] = ledger[j] /\ cards'[j] = cards[j]
        BY <3>2, <3>6
      <4>2. Len(ledger'[k]) <= 1 /\ (ledger'[k] = <<>> => cards'[k] = 0)
        BY <3>2
      <4>3. \A i \in DOMAIN ledger'[k] : Truthful(ledger'[k][i], cards'[k])
        BY <3>5 DEF Truthful
      <4>4. worker[w].pc # "idle" /\ job.key \in {k, None}
        BY <2>1, <3>1
      <4> QED
        BY <2>1, <3>1, <3>2, <3>3, <3>4, <3>6, <4>1, <4>2, <4>3, <4>4, OwnWindowOnly
    <3> QED
      BY <3>2, <3>7
  <2> QED
    BY <1>5, <2>2, <2>3 DEF Start
<1>6. CASE Build(w)
  <2>1. worker[w].pc = "build" /\ UNCHANGED <<queue, ledgerVars, cards>> /\ k \in Keys
    BY <1>1, <1>6 DEF Build, Step
  <2>2. ASSUME NEW job \in Job, job.pc \in {"build", "hung", "fail", "deliver"}, job.key = k,
               job.run = worker[w].run, job.sent = worker[w].sent, Step(w, "build", job)
        PROVE  Goal
    <3>1. worker'[w] = job /\ dispatched' = dispatched
      BY <1>0, <2>2 DEF Step, mainVars
    <3>2. JobMatchesRow(w)'
      BY <1>0, <2>1, <2>2, <3>1 DEF JobMatchesRow
    <3> QED
      BY <1>2, <2>1, <2>2, <3>2
  <2>3. \A pc \in {"deliver", "fail", "hung"} :
           /\ At(w, pc) \in Job /\ At(w, pc).pc = pc /\ At(w, pc).key = k
           /\ At(w, pc).run = worker[w].run /\ At(w, pc).sent = worker[w].sent
    BY <1>0 DEF At, Job, JobPcs
  <2>4. LET job == [worker[w] EXCEPT !.tries = @ + 1]
        IN  /\ job \in Job /\ job.pc = worker[w].pc /\ job.key = k
            /\ job.run = worker[w].run /\ job.sent = worker[w].sent
    <3>1. worker[w].tries + 1 \in Nat
      BY <1>0 DEF Job
    <3> QED
      BY <1>0, <3>1, JobCounters
  <2> QED
    BY <1>6, <2>1, <2>2, <2>3, <2>4 DEF Build
<1>7. CASE RecordFailure(w) \/ RecordOutcome(w)
  <2>0. worker[w].pc \in {"fail", "record"} /\ UNCHANGED <<queue, cards>> /\ k \in Keys
    BY <1>1, <1>7 DEF RecordFailure, RecordOutcome, Step
  <2>1. /\ worker[w].run = 1 /\ Len(ledger[k]) = 1 /\ k \in dispatched
        /\ worker[w].sent \in BOOLEAN
        /\ worker[w].pc = "fail" => cards[k] = 0
        /\ worker[w].pc = "record" => (worker[w].sent => cards[k] > 0)
    BY <1>0, <2>0 DEF JobMatchesRow, Job
  <2>2. ASSUME NEW from, Step(w, from, Idle), UNCHANGED ledgerVars PROVE Goal
    BY <1>0, <1>2, <1>3, <2>0, <2>2 DEF Idle
  <2>3. ASSUME NEW from, NEW job \in Job, Step(w, from, job), NEW st \in {"ok", "failed"},
               NEW del \in BOOLEAN, FinishRun(k, worker[w].run, st, del),
               job.key \in {k, None}, del => cards[k] > 0, st = "failed" => cards[k] = 0,
               job = Idle \/ (job.key = k /\ job.pc \in {"alertFailed", "alertUndelivered"})
        PROVE  Goal
    <3>1. /\ DurableLedger' /\ ledger' \in [Keys -> Seq(Row)]
          /\ Len(ledger'[k]) = 1 /\ ledger'[k] # <<>> /\ DOMAIN ledger'[k] = 1..1
          /\ ledger'[k][1].status = st /\ ledger'[k][1].delivered = del
          /\ \A j \in Keys \ {k} : ledger'[j] = ledger[j]
      BY <1>0, <2>0, <2>1, <2>3, OneRowFinished DEF Statuses
    <3>2. JobMatchesRow(w)'
      <4>1. worker'[w] = job /\ dispatched' = dispatched
        BY <1>0, <2>3 DEF Step, mainVars
      <4> QED
        BY <1>0, <2>0, <2>1, <2>3, <4>1 DEF JobMatchesRow, Idle
    <3>3. \A i \in DOMAIN ledger'[k] : Truthful(ledger'[k][i], cards'[k])
      BY <2>0, <2>3, <3>1 DEF Truthful
    <3>4. OneJobPerWindow' /\ LedgerTruthful'
      <4>1. \A j \in Keys \ {k} : ledger'[j] = ledger[j] /\ cards'[j] = cards[j]
        BY <2>0, <3>1
      <4>2. Len(ledger'[k]) <= 1 /\ (ledger'[k] = <<>> => cards'[k] = 0)
        BY <3>1
      <4>3. worker[w].pc # "idle" /\ cards' \in [Keys -> Nat] /\ queue' = queue
        BY <1>0, <2>0
      <4>4. \A i \in DOMAIN ledger'[k] : Truthful(ledger'[k][i], cards'[k])
        BY <3>3
      <4> QED
        BY <2>0, <2>3, <3>1, <3>2, <4>1, <4>2, <4>3, <4>4, OwnWindowOnly
    <3> QED
      BY <3>1, <3>4
  <2>4. \A pc \in {"alertFailed", "alertUndelivered"} :
           At(w, pc) \in Job /\ At(w, pc).pc = pc /\ At(w, pc).key = k
    BY <1>0 DEF At, Job, JobPcs
  <2>5. CASE RecordFailure(w)
    <3>1. worker[w].pc = "fail" /\ cards[k] = 0
      BY <2>1, <2>5 DEF RecordFailure, Step
    <3>2. CASE Step(w, "fail", Idle) /\ UNCHANGED ledgerVars
      BY <2>2, <3>2
    <3>3. CASE Step(w, "fail", At(w, "alertFailed")) /\ FinishRun(k, worker[w].run, "failed", FALSE)
      <4>2. At(w, "alertFailed") \in Job /\ At(w, "alertFailed").key = k
            /\ At(w, "alertFailed").pc = "alertFailed"
        BY <2>4
      <4> QED
        BY <2>3, <3>1, <3>3, <4>2
    <3> QED
      BY <2>5, <3>2, <3>3 DEF RecordFailure
  <2>6. CASE RecordOutcome(w)
    <3>1. worker[w].pc = "record" /\ (worker[w].sent => cards[k] > 0)
      BY <2>1, <2>6 DEF RecordOutcome, Step
    <3>2. CASE Step(w, "record", Idle) /\ UNCHANGED ledgerVars
      BY <2>2, <3>2
    <3>3. CASE FinishRun(k, worker[w].run, "ok", worker[w].sent)
               /\ Step(w, "record", IF worker[w].sent THEN Idle ELSE At(w, "alertUndelivered"))
      <4> DEFINE job == IF worker[w].sent THEN Idle ELSE At(w, "alertUndelivered")
      <4>1. job \in Job /\ (job = Idle \/ (job.key = k /\ job.pc = "alertUndelivered"))
            /\ job.key \in {k, None}
        BY <1>0, <2>4 DEF Idle
      <4> QED
        BY <2>1, <2>3, <3>1, <3>3, <4>1
    <3> QED
      BY <2>6, <3>2, <3>3 DEF RecordOutcome
  <2> QED
    BY <1>7, <2>5, <2>6
<1>8. CASE Deliver(w)
  <2>1. /\ worker[w].pc = "deliver" /\ k \in Keys /\ k \in dispatched
        /\ UNCHANGED <<queue, ledgerVars>>
        /\ worker[w].run = 1 /\ Len(ledger[k]) = 1 /\ ledger[k][1].status = "started"
        /\ cards[k] = 0 /\ worker[w].sent = FALSE
    <3>1. worker[w].pc = "deliver" /\ UNCHANGED <<queue, ledgerVars>>
      BY <1>8 DEF Deliver, Step
    <3> QED
      BY <1>0, <1>1, <3>1 DEF JobMatchesRow, Job
  <2>2. LET job == [At(w, "record") EXCEPT !.sent = TRUE]
        IN  /\ job \in Job /\ job.pc = "record" /\ job.key = k
            /\ job.run = worker[w].run /\ job.sent = TRUE
    BY <1>0 DEF At, Job, JobPcs
  <2>3. LET job == At(w, "record")
        IN  /\ job \in Job /\ job.pc = "record" /\ job.key = k
            /\ job.run = worker[w].run /\ job.sent = worker[w].sent
    BY <1>0 DEF At, Job, JobPcs
  <2>4. ASSUME NEW job \in Job, job.pc = "record", job.key = k, job.run = worker[w].run,
               Step(w, "deliver", job), cards' \in [Keys -> Nat],
               cards'[k] \in {0, 1}, job.sent => cards'[k] = 1,
               \A j \in Keys \ {k} : cards'[j] = cards[j]
        PROVE  Goal
    <3>1. JobMatchesRow(w)'
      <4>1. worker'[w] = job /\ dispatched' = dispatched /\ ledger' = ledger
        BY <1>0, <2>1, <2>4 DEF Step, mainVars
      <4> QED
        BY <1>0, <2>1, <2>4, <4>1 DEF JobMatchesRow
    <3>2. /\ ledger' = ledger /\ DurableLedger' /\ ledger[k] # <<>>
          /\ DOMAIN ledger[k] = 1..1
      BY <1>0, <2>1, LenProperties, EmptySeq DEF DurableLedger
    <3>3. \A i \in DOMAIN ledger'[k] : ledger'[k][i].status = "started"
      BY <2>1, <3>2
    <3>4. OneJobPerWindow' /\ LedgerTruthful'
      <4>1. \A j \in Keys \ {k} : ledger'[j] = ledger[j] /\ cards'[j] = cards[j]
        BY <2>4, <3>2
      <4>2. Len(ledger'[k]) <= 1 /\ (ledger'[k] = <<>> => cards'[k] = 0)
        BY <2>1, <3>2
      <4>3. \A i \in DOMAIN ledger'[k] : Truthful(ledger'[k][i], cards'[k])
        BY <3>3 DEF Truthful
      <4>4. worker[w].pc # "idle" /\ ledger' \in [Keys -> Seq(Row)] /\ queue' = queue
        BY <1>0, <2>1, <3>2
      <4> QED
        BY <2>1, <2>4, <3>1, <4>1, <4>2, <4>3, <4>4, OwnWindowOnly
    <3> QED
      BY <3>2, <3>4
  <2>5. CASE /\ Step(w, "deliver", [At(w, "record") EXCEPT !.sent = TRUE])
             /\ cards' = [cards EXCEPT ![k] = @ + 1]
    <3>1. cards' \in [Keys -> Nat] /\ cards'[k] = 1 /\ \A j \in Keys \ {k} : cards'[j] = cards[j]
      BY <1>0, <2>1, <2>5
    <3> QED
      BY <2>2, <2>4, <2>5, <3>1
  <2>6. CASE /\ Step(w, "deliver", At(w, "record"))
             /\ UNCHANGED cards \/ cards' = [cards EXCEPT ![k] = @ + 1]
    <3>1. /\ cards' \in [Keys -> Nat] /\ cards'[k] \in {0, 1}
          /\ \A j \in Keys \ {k} : cards'[j] = cards[j]
      <4>1. CASE UNCHANGED cards
        BY <1>0, <2>1, <4>1
      <4>2. CASE cards' = [cards EXCEPT ![k] = @ + 1]
        BY <1>0, <2>1, <4>2
      <4> QED
        BY <2>6, <4>1, <4>2
    <3> QED
      BY <2>1, <2>3, <2>4, <2>6, <3>1
  <2>7. CASE Step(w, "deliver", Idle) /\ UNCHANGED cards
    BY <1>0, <1>2, <1>3, <2>1, <2>7 DEF Idle
  <2> QED
    BY <1>8, <2>5, <2>6, <2>7 DEF Deliver
<1>9. CASE AlertFailed(w) \/ AlertUndelivered(w)
  <2>1. PICK from \in {"alertFailed", "alertUndelivered"} : Step(w, from, Idle)
    BY <1>9 DEF AlertFailed, AlertUndelivered, Raise
  <2>2. worker[w].pc # "idle" /\ UNCHANGED <<queue, ledgerVars, cards>>
    BY <1>9 DEF AlertFailed, AlertUndelivered, Raise, Step
  <2> QED
    BY <1>0, <1>2, <1>3, <2>1, <2>2 DEF Idle
<1> QED
  BY <1>4, <1>5, <1>6, <1>7, <1>8, <1>9 DEF Work

LEMMA SubmitKeepsInv ==
  ASSUME Inv, NEW k \in Keys, Submit(k)
  PROVE  OneJobPerWindow'
<1>0. /\ queue \in Seq(Keys) /\ main.due \subseteq Keys /\ main \in TickState
      /\ worker' = worker /\ ledger' = ledger /\ cards' = cards
      /\ dispatched' = dispatched \cup {k} /\ k \in main.due
      /\ main'.due = main.due \ {k} /\ queue' = Enqueue(k)
  BY DEF Inv, TypeOK, TickState, Submit, ledgerVars, outVars
<1>1. DueHasNoRow'
  BY <1>0 DEF Inv, OneJobPerWindow, DueHasNoRow
<1>2. QueuedHasNoRow'
  <2>1. CASE k \in dispatched
    BY <1>0, <2>1 DEF Inv, OneJobPerWindow, QueuedHasNoRow, Enqueue
  <2>2. CASE k \notin dispatched
    <3>1. queue' = Append(queue, k)
      BY <1>0, <2>2 DEF Enqueue
    <3>2. ledger[k] = <<>>
      BY <1>0, <2>2 DEF Inv, OneJobPerWindow, DueHasNoRow
    <3>3. \A w \in Workers : worker[w].key # k
      <4>1. k # None
        BY ConstantsOK
      <4> QED
        BY <2>2, <4>1 DEF Inv, OneJobPerWindow, JobMatchesRow
    <3>4. \A i \in DOMAIN queue : queue[i] # k
      BY <2>2 DEF Inv, OneJobPerWindow, QueuedHasNoRow
    <3>5. /\ \A i \in DOMAIN queue' : i \in DOMAIN queue \/ i = Len(queue) + 1
          /\ \A i \in DOMAIN queue : queue'[i] = queue[i]
          /\ queue'[Len(queue) + 1] = k
      <4>1. Len(queue) \in Nat /\ DOMAIN queue = 1..Len(queue)
        BY <1>0, LenProperties
      <4>2. /\ queue' \in Seq(Keys) /\ Len(queue') = Len(queue) + 1
            /\ \A i \in 1..Len(queue) : queue'[i] = queue[i]
            /\ queue'[Len(queue) + 1] = k
        BY <1>0, <3>1, AppendProperties
      <4>3. DOMAIN queue' = 1..Len(queue')
        BY <4>2, LenProperties
      <4> QED
        BY <4>1, <4>2, <4>3
    <3>6. ASSUME NEW i \in DOMAIN queue'
          PROVE  /\ queue'[i] \in dispatched' /\ ledger[queue'[i]] = <<>>
                 /\ \A w \in Workers : worker[w].key # queue'[i]
      <4>1. CASE i \in DOMAIN queue
        BY <1>0, <3>5, <4>1 DEF Inv, OneJobPerWindow, QueuedHasNoRow
      <4>2. CASE i = Len(queue) + 1
        BY <1>0, <3>2, <3>3, <3>5, <4>2
      <4> QED
        BY <3>5, <4>1, <4>2
    <3>7. ASSUME NEW i \in DOMAIN queue', NEW j \in DOMAIN queue', queue'[i] = queue'[j]
          PROVE  i = j
      BY <3>4, <3>5, <3>7 DEF Inv, OneJobPerWindow, QueuedHasNoRow
    <3> QED
      BY <1>0, <3>6, <3>7 DEF QueuedHasNoRow
  <2> QED
    BY <2>1, <2>2
<1>3. OneThread' /\ OneRow' /\ \A w \in Workers : JobMatchesRow(w)'
  BY <1>0 DEF Inv, OneJobPerWindow, OneThread, OneRow, JobMatchesRow
<1> QED
  BY <1>1, <1>2, <1>3 DEF OneJobPerWindow

LEMMA NextKeepsInv ==
  ASSUME "open" \notin Faults, Inv, [Next]_vars
  PROVE  OneJobPerWindow' /\ DurableLedger' /\ LedgerTruthful'
<1> USE DEF procVars, mainVars, ledgerVars, outVars
<1>1. ASSUME main'.due \subseteq main.due \/ main'.due = DueJobs(main.now),
             UNCHANGED <<dispatched, queue, worker, ledgerVars, cards>>
      PROVE  OneJobPerWindow' /\ DurableLedger' /\ LedgerTruthful'
  <2>1. DueHasNoRow'
    BY <1>1 DEF Inv, OneJobPerWindow, DueHasNoRow, DueJobs, WasHandled
  <2> QED
    BY <1>1, <2>1 DEF Inv, OneJobPerWindow, QueuedHasNoRow, OneThread, JobMatchesRow, OneRow,
                      DurableLedger, LedgerTruthful
<1>2. CASE TickStart
  BY <1>1, <1>2 DEF TickStart
<1>3. CASE MaybeIngest \/ SelectDue \/ Submitted \/ Watch \/ TickError
  <2>1. main \in TickState
    BY DEF Inv, TypeOK
  <2>2. CASE MaybeIngest
    <3>1. main'.due = main.due
      BY <2>1, <2>2 DEF MaybeIngest, TickState
    <3> QED
      BY <1>1, <2>2, <3>1 DEF MaybeIngest
  <2>3. CASE SelectDue
    <3>1. main'.due = DueJobs(main.now)
      BY <2>1, <2>3 DEF SelectDue, TickState
    <3> QED
      BY <1>1, <2>3, <3>1 DEF SelectDue
  <2>4. CASE Submitted
    <3>1. main'.due = main.due
      BY <2>1, <2>4 DEF Submitted, TickState
    <3> QED
      BY <1>1, <2>4, <3>1 DEF Submitted
  <2>5. CASE Watch \/ TickError
    BY <1>1, <2>5 DEF Watch, TickError, Asleep
  <2> QED
    BY <1>3, <2>2, <2>3, <2>4, <2>5
<1>4. ASSUME NEW k \in Keys, Submit(k) PROVE OneJobPerWindow' /\ DurableLedger' /\ LedgerTruthful'
  <2>1. OneJobPerWindow'
    BY <1>4, SubmitKeepsInv
  <2> QED
    BY <1>4, <2>1 DEF Submit, Inv, DurableLedger, LedgerTruthful
<1>5. ASSUME NEW w \in Workers, Work(w) PROVE OneJobPerWindow' /\ DurableLedger' /\ LedgerTruthful'
  BY <1>5, WorkKeepsInv
<1>6. CASE Crash
  <2>1. ledger' = ledger /\ UNCHANGED <<disk, cards>> /\ ~volatile'
    BY <1>6 DEF Crash, Inv, DurableLedger
  <2>2. DueHasNoRow' /\ QueuedHasNoRow' /\ OneThread'
    BY <1>6 DEF Crash, Asleep, DueHasNoRow, QueuedHasNoRow, OneThread, Idle
  <2>3. \A w \in Workers : JobMatchesRow(w)'
    BY <1>6 DEF Crash, JobMatchesRow, Idle
  <2> QED
    BY <2>1, <2>2, <2>3 DEF Inv, OneJobPerWindow, OneRow, DurableLedger, LedgerTruthful
<1>7. CASE Restart \/ Advance \/ UNCHANGED vars
  <2>1. UNCHANGED <<main, dispatched, queue, worker, ledgerVars, cards>>
    BY <1>7 DEF Restart, Advance, vars
  <2> QED
    BY <1>1, <2>1
<1> QED
  BY <1>2, <1>3, <1>4, <1>5, <1>6, <1>7 DEF Next, Tick

LEMMA InitInv == "open" \notin Faults /\ Init => OneJobPerWindow /\ DurableLedger /\ LedgerTruthful
<1> SUFFICES ASSUME "open" \notin Faults, Init
             PROVE  OneJobPerWindow /\ DurableLedger /\ LedgerTruthful
  OBVIOUS
<1>1. \A k \in Keys : ledger[k] = <<>> /\ cards[k] = 0 /\ Len(ledger[k]) = 0
                     /\ DOMAIN ledger[k] = {}
  BY EmptySeq DEF Init
<1>2. DurableLedger
  BY DEF Init, DurableLedger
<1>3. DueHasNoRow /\ QueuedHasNoRow /\ OneThread /\ \A w \in Workers : JobMatchesRow(w)
  BY DEF Init, Asleep, Idle, DueHasNoRow, QueuedHasNoRow, OneThread, JobMatchesRow
<1> QED
  BY <1>1, <1>2, <1>3 DEF OneJobPerWindow, OneRow, LedgerTruthful

\* The strengthened invariant: with a ledger on disk, one job per window and rows that
\* tell the truth, through every crash.
THEOREM Safe ==
  ASSUME "open" \notin Faults
  PROVE  Spec => [](OneJobPerWindow /\ DurableLedger /\ LedgerTruthful)
<1>1. Init => OneJobPerWindow /\ DurableLedger /\ LedgerTruthful
  BY InitInv
<1>2. /\ TypeOK /\ HasKey /\ [Next]_vars
      /\ OneJobPerWindow /\ DurableLedger /\ LedgerTruthful
      => (OneJobPerWindow /\ DurableLedger /\ LedgerTruthful)'
  BY NextKeepsInv DEF Inv
<1> QED
  BY <1>1, <1>2, TypeCorrect, PTL DEF Spec

\* Only delivery sends, and it runs on a window whose card has not gone out.
LEMMA CardsStep ==
  ASSUME Inv, [Next]_vars
  PROVE  \/ cards' = cards
         \/ \E k \in Keys : /\ cards[k] = 0 /\ cards' = [cards EXCEPT ![k] = 1]
                            /\ ledger' = ledger /\ Len(ledger[k]) = 1
                            /\ ledger[k][1].status = "started"
<1> USE DEF ledgerVars, outVars
<1>1. ASSUME NEW w \in Workers, Deliver(w), cards' # cards
      PROVE  \E k \in Keys : /\ cards[k] = 0 /\ cards' = [cards EXCEPT ![k] = 1]
                            /\ ledger' = ledger /\ Len(ledger[k]) = 1
                            /\ ledger[k][1].status = "started"
  <2>1. worker[w].pc = "deliver" /\ ledger' = ledger
        /\ cards' = [cards EXCEPT ![worker[w].key] = @ + 1]
    BY <1>1 DEF Deliver, Step
  <2>2. worker[w].key \in Keys /\ JobMatchesRow(w)
    BY <2>1 DEF Inv, HasKey, OneJobPerWindow
  <2>3. cards[worker[w].key] = 0 /\ Len(ledger[worker[w].key]) = 1
        /\ ledger[worker[w].key][1].status = "started"
    BY <2>1, <2>2 DEF JobMatchesRow
  <2>4. cards' = [cards EXCEPT ![worker[w].key] = 1]
    BY <2>1, <2>3
  <2> QED
    BY <2>1, <2>2, <2>3, <2>4
<1>2. ASSUME NEW w \in Workers, Work(w), ~Deliver(w) PROVE cards' = cards
  BY <1>2 DEF Work, Take, Start, Build, RecordFailure, RecordOutcome, AlertFailed,
              AlertUndelivered, Raise
<1>3. ASSUME Tick \/ TickError PROVE cards' = cards
  BY <1>3 DEF Tick, TickStart, MaybeIngest, SelectDue, TickError, Submit, Submitted, Watch
<1>4. ASSUME Crash \/ Restart \/ Advance \/ UNCHANGED vars PROVE cards' = cards
  BY <1>4 DEF Crash, Restart, Advance, vars
<1> QED
  BY <1>1, <1>2, <1>3, <1>4 DEF Next

\* The user never gets a second card for a window, whatever crashes and failing calls
\* happen, as long as the ledger file can be opened.
THEOREM DeliveredOnce ==
  ASSUME "open" \notin Faults
  PROVE  Spec => []AtMostOnce
<1>1. Init => AtMostOnce
  BY DEF Init, AtMostOnce
<1>2. /\ TypeOK /\ HasKey /\ OneJobPerWindow /\ DurableLedger /\ LedgerTruthful
      /\ AtMostOnce /\ [Next]_vars
      => AtMostOnce'
  <2> SUFFICES ASSUME Inv, AtMostOnce, [Next]_vars PROVE AtMostOnce'
    BY DEF Inv
  <2>1. cards \in [Keys -> Nat]
    BY DEF Inv, TypeOK
  <2> QED
    BY <2>1, CardsStep DEF AtMostOnce
<1> QED
  BY <1>1, <1>2, TypeCorrect, Safe, PTL DEF Spec

\* A row marked delivered stands for a card that is out, a failed one for none, whatever a
\* channel answered with the card out.
THEOREM RowsTellTheTruth ==
  ASSUME "open" \notin Faults
  PROVE  Spec => []LedgerTruthful
<1> QED
  BY Safe, PTL

-----------------------------------------------------------------------------
(***************************************************************************)
(* Catch-up: no window that should fire is overlooked by a tick that ends.  *)
(* No assumption on the faults is needed here: a ledger that comes back     *)
(* empty makes more windows due, not fewer.                                 *)
(***************************************************************************)

ShouldFire(m, w) ==
  LET f == Published[calendar][m]
  IN  /\ f.open /\ f.ko > main.now /\ f.ko <= main.now + Horizon
      /\ main.now >= f.ko - Lead[w] /\ main.now <= f.ko - Lead[w] + CatchUp

Covered ==
  /\ main.now <= now
  /\ ~up => main.pc = "asleep"
  /\ main.pc \in {"submit", "watch"} =>
       \A m \in Matches, w \in Windows :
         ShouldFire(m, w) => \/ <<m, w>> \in main.due \cup dispatched
                             \/ ledger[<<m, w>>] # <<>>
  /\ main.pc = "watch" => main.due = {}

\* Within one process rows are added and overwritten, never removed.
LEMMA RowsStay ==
  ASSUME TypeOK, HasKey, NEW w \in Workers, Work(w), NEW k \in Keys, ledger[k] # <<>>
  PROVE  ledger'[k] # <<>>
<1> USE DEF ledgerVars
<1>0. ledger \in [Keys -> Seq(Row)] /\ ledger[k] \in Seq(Row) /\ worker[w] \in Job
  BY DEF TypeOK
<1>1. ASSUME NEW j \in Keys, StartRun(j) PROVE ledger'[k] # <<>>
  <2>1. ledger' = [ledger EXCEPT ![j] = Append(ledger[j], Started(now))]
    BY <1>1 DEF StartRun, Write
  <2>2. CASE j = k
    <3>1. ledger'[k] = Append(ledger[k], Started(now))
      BY <1>0, <2>1, <2>2
    <3>2. Started(now) \in Row
      BY JobTypes, ConstantsOK DEF TypeOK
    <3>3. Len(Append(ledger[k], Started(now))) = Len(ledger[k]) + 1 /\ Len(ledger[k]) \in Nat
      BY <1>0, <3>2, AppendProperties, LenProperties
    <3> QED
      BY <3>1, <3>3, EmptySeq
  <2>3. CASE j # k
    BY <1>0, <2>1, <2>3
  <2> QED
    BY <2>2, <2>3
<1>2. ASSUME NEW j \in Keys, NEW i \in Nat, NEW st, NEW del, FinishRun(j, i, st, del)
      PROVE  ledger'[k] # <<>>
  <2> DEFINE row == [ledger[j][i] EXCEPT !.status = st, !.delivered = del]
  <2>1. ledger' = [ledger EXCEPT ![j] = [ledger[j] EXCEPT ![i] = row]]
    BY <1>2 DEF FinishRun, Write
  <2> HIDE DEF row
  <2>2. CASE j = k
    <3>1. ledger'[k] = [ledger[k] EXCEPT ![i] = row]
      BY <1>0, <2>1, <2>2
    <3>2. DOMAIN ledger'[k] = DOMAIN ledger[k]
      BY <3>1
    <3>3. DOMAIN ledger[k] = 1..Len(ledger[k]) /\ Len(ledger[k]) \in Nat /\ Len(ledger[k]) # 0
      BY <1>0, LenProperties, EmptySeq
    <3>4. 1 \in DOMAIN ledger'[k]
      BY <3>2, <3>3
    <3> QED
      BY <3>4
  <2>3. CASE j # k
    BY <1>0, <2>1, <2>3
  <2> QED
    BY <2>2, <2>3
<1>3. CASE Start(w)
  <2>1. worker[w].key \in Keys
    BY <1>3 DEF Start, Step, HasKey
  <2> QED
    BY <1>1, <1>3, <2>1 DEF Start
<1>4. CASE RecordFailure(w) \/ RecordOutcome(w)
  <2>1. worker[w].key \in Keys /\ worker[w].run \in Nat
    BY <1>0, <1>4 DEF RecordFailure, RecordOutcome, Step, HasKey, Job
  <2> QED
    BY <1>2, <1>4, <2>1 DEF RecordFailure, RecordOutcome
<1> QED
  BY <1>3, <1>4 DEF Work, Take, Build, Deliver, AlertFailed, AlertUndelivered, Raise

LEMMA NextKeepsCovered ==
  ASSUME TypeOK, HasKey, Covered, [Next]_vars
  PROVE  Covered'
<1> USE DEF procVars, mainVars, ledgerVars, outVars
<1>0. /\ main \in TickState /\ now \in Nat /\ main.now \in Nat /\ main.pc \in MainPcs
      /\ Lead \in [Windows -> Nat \ {0}] /\ CatchUp \in Nat /\ Horizon \in Nat
      /\ Published[calendar] \in [Matches -> Fixture]
  <2>1. Published[calendar] \in [Matches -> Fixture]
    BY ConstantsOK, ElementOfSeq DEF TypeOK
  <2> QED
    BY <2>1, ConstantsOK DEF TypeOK, TickState
<1>1. CASE TickStart
  BY <1>0, <1>1 DEF TickStart, Covered
<1>2. CASE MaybeIngest
  BY <1>0, <1>2 DEF MaybeIngest, Covered, TickState
<1>3. CASE SelectDue
  <2>1. main'.due = DueJobs(main.now) /\ main'.pc = "submit" /\ main'.now = main.now
    BY <1>0, <1>3 DEF SelectDue, TickState
  <2>2. ASSUME NEW m \in Matches, NEW w \in Windows, ShouldFire(m, w)',
               ledger[<<m, w>>] = <<>>
        PROVE  <<m, w>> \in DueJobs(main.now)
    <3> DEFINE f == Published[calendar][m]
    <3>1. f \in Fixture /\ Lead[w] \in Nat
      BY <1>0
    <3>2. /\ f.open /\ f.ko > main.now /\ f.ko <= main.now + Horizon
          /\ main.now >= f.ko - Lead[w] /\ main.now <= f.ko - Lead[w] + CatchUp
      BY <1>3, <2>1, <2>2 DEF ShouldFire, SelectDue
    <3>3. f.ko \in Nat
      BY <3>1 DEF Fixture
    <3>4. f.ko <= now + Horizon
      BY <1>0, <3>2, <3>3 DEF Covered
    <3>5. m \in Upcoming
      BY <3>2, <3>4 DEF Upcoming, Ko
    <3> HIDE DEF f
    <3>6. 0 <= main.now - (f.ko - Lead[w]) /\ main.now - (f.ko - Lead[w]) <= CatchUp
      BY <1>0, <3>1, <3>2, <3>3
    <3>7. WindowOpen(m, w, main.now)
      BY <3>2, <3>6 DEF WindowOpen, Ko, f
    <3> QED
      BY <2>2, <3>5, <3>7 DEF DueJobs, Keys, WasHandled
  <2> QED
    BY <1>0, <1>3, <2>1, <2>2 DEF SelectDue, Covered
<1>4. ASSUME NEW k \in Keys, Submit(k) PROVE Covered'
  <2>1. main'.due = main.due \ {k} /\ main'.pc = main.pc /\ main'.now = main.now
        /\ dispatched' = dispatched \cup {k} /\ main.pc = "submit"
    BY <1>0, <1>4 DEF Submit, TickState
  <2> QED
    BY <1>4, <2>1 DEF Submit, Covered, ShouldFire
<1>5. CASE Submitted
  <2>1. main'.due = main.due /\ main'.pc = "watch" /\ main'.now = main.now
    BY <1>0, <1>5 DEF Submitted, TickState
  <2> QED
    BY <1>5, <2>1 DEF Submitted, Covered, ShouldFire
<1>6. CASE Watch \/ TickError \/ Crash
  BY <1>0, <1>6 DEF Watch, TickError, Crash, Asleep, Covered
<1>7. ASSUME NEW w \in Workers, Work(w) PROVE Covered'
  <2>1. UNCHANGED <<now, calendar, up, main, dispatched>>
    BY <1>7 DEF Work, Take, Start, Build, RecordFailure, Deliver, RecordOutcome, AlertFailed,
                AlertUndelivered, Raise, Step
  <2>2. \A k \in Keys : ledger[k] # <<>> => ledger'[k] # <<>>
    BY <1>7, RowsStay
  <2>3. \A m \in Matches, u \in Windows : <<m, u>> \in Keys
    BY DEF Keys
  <2> QED
    BY <2>1, <2>2, <2>3 DEF Covered, ShouldFire
<1>8. CASE Restart
  BY <1>8 DEF Restart, Covered
<1>9. CASE Advance \/ UNCHANGED vars
  BY <1>0, <1>9 DEF Advance, vars, Covered, ShouldFire
<1> QED
  BY <1>1, <1>2, <1>3, <1>4, <1>5, <1>6, <1>7, <1>8, <1>9 DEF Next, Tick

\* When a tick ends, every window of an open fixture that had arrived and was not stale
\* is dispatched or on record.
THEOREM CatchUpComplete == Spec => []NothingOverlooked
<1>1. Init => Covered
  BY DEF Init, Asleep, Covered
<1>2. TypeOK /\ HasKey /\ Covered /\ [Next]_vars => Covered'
  BY NextKeepsCovered
<1>3. Covered => NothingOverlooked
  BY DEF Covered, NothingOverlooked, ShouldFire
<1> QED
  BY <1>1, <1>2, <1>3, TypeCorrect, PTL DEF Spec

-----------------------------------------------------------------------------
(***************************************************************************)
(* Within one life of the process nothing depends on the file: what keeps a *)
(* window from a second job is the set in memory, and what the ledger shows  *)
(* of it is this life's row.  Nothing is assumed about the failing calls.    *)
(***************************************************************************)

\* JobMatchesRow without the rows of an earlier life.
JobHasRow(w) ==
  LET job == worker[w]
      row == ledger[job.key]
  IN  /\ job.pc = "idle" <=> job.key = None
      /\ job.pc # "idle" => job.key \in dispatched
      /\ job.pc = "start" => row = <<>>
      /\ job.pc \in {"build", "hung", "fail", "deliver", "record"} =>
           job.run = 1 /\ Len(row) = 1 /\ row[1].status = "started"
      /\ job.pc \in {"start", "build", "deliver"} => cards[job.key] <= crashes
      /\ job.pc \in {"start", "build", "hung", "fail", "deliver"} => ~job.sent
      /\ job.pc = "record" /\ job.sent => cards[job.key] > 0

\* A window goes out at most once per life of the process: with the file this is less than
\* AtMostOnce, without it (the fallback to memory) it is all that is left.
OncePerLife == \A k \in Keys : cards[k] <= crashes + 1

\* A process that is gone has no threads and remembers nothing.
DownIsIdle == ~up => dispatched = {} /\ \A w \in Workers : worker[w].pc = "idle"

UnsentThisLife ==
  /\ \A k \in Keys \ dispatched : cards[k] <= crashes
  /\ \A i \in DOMAIN queue : cards[queue[i]] <= crashes

OneJobPerLife ==
  /\ DueHasNoRow /\ QueuedHasNoRow /\ OneThread
  /\ \A w \in Workers : JobHasRow(w)
  /\ OncePerLife /\ UnsentThisLife /\ DownIsIdle

LifeInv == TypeOK /\ HasKey /\ OneJobPerLife

\* What a thread does to its own window disturbs nobody else's part.
LEMMA OwnWindowInLife ==
  ASSUME LifeInv, NEW w \in Workers, NEW k \in Keys, NEW from, NEW job,
         worker[w].key = k, worker[w].pc # "idle", Step(w, from, job),
         job.key \in {k, None}, queue' = queue,
         \A j \in Keys \ {k} : ledger'[j] = ledger[j] /\ cards'[j] = cards[j],
         JobHasRow(w)', cards'[k] <= crashes + 1
  PROVE  OneJobPerLife'
<1> USE DEF mainVars, procVars
<1>0. /\ worker \in [Workers -> Job] /\ worker' = [worker EXCEPT ![w] = job]
      /\ dispatched' = dispatched /\ main' = main /\ crashes' = crashes
      /\ k \in dispatched /\ None \notin Keys /\ main.due \subseteq Keys /\ dispatched \subseteq Keys
  BY ConstantsOK DEF LifeInv, TypeOK, TickState, Step, OneJobPerLife, JobHasRow
<1>1. \A i \in DOMAIN queue : queue[i] \in Keys /\ queue[i] # k
  <2>1. \A i \in DOMAIN queue : queue[i] # k
    BY DEF LifeInv, OneJobPerLife, QueuedHasNoRow
  <2> QED
    BY <1>0, <2>1 DEF LifeInv, OneJobPerLife, QueuedHasNoRow
<1>2. DueHasNoRow'
  BY <1>0 DEF LifeInv, OneJobPerLife, DueHasNoRow
<1>3. QueuedHasNoRow'
  <2> SUFFICES ASSUME NEW i \in DOMAIN queue
               PROVE  /\ queue[i] \in dispatched /\ ledger'[queue[i]] = <<>>
                      /\ \A j \in DOMAIN queue : queue[i] = queue[j] => i = j
                      /\ \A v \in Workers : worker'[v].key # queue[i]
    BY <1>0 DEF QueuedHasNoRow
  <2> QED
    BY <1>0, <1>1 DEF LifeInv, OneJobPerLife, QueuedHasNoRow
<1>4. OneThread'
  BY <1>0 DEF LifeInv, OneJobPerLife, OneThread
<1>5. ASSUME NEW v \in Workers PROVE JobHasRow(v)'
  <2>1. CASE v # w /\ worker[v].pc = "idle"
    BY <1>0, <2>1 DEF LifeInv, OneJobPerLife, JobHasRow
  <2>2. CASE v # w /\ worker[v].pc # "idle"
    <3>1. worker[v].key \in Keys /\ worker[v].key # k
      BY <1>0, <2>2 DEF LifeInv, HasKey, OneJobPerLife, OneThread
    <3>2. JobHasRow(v)
      BY DEF LifeInv, OneJobPerLife
    <3> QED
      BY <1>0, <2>2, <3>1, <3>2 DEF JobHasRow
  <2> QED
    BY <2>1, <2>2
<1>6. OncePerLife' /\ UnsentThisLife' /\ DownIsIdle'
  BY <1>0, <1>1 DEF LifeInv, OneJobPerLife, OncePerLife, UnsentThisLife, DownIsIdle, Step
<1> QED
  BY <1>2, <1>3, <1>4, <1>5, <1>6 DEF OneJobPerLife

\* The job at the head of the queue has no row and no thread yet: it moves to one.
LEMMA TakeInLife ==
  ASSUME LifeInv, NEW w \in Workers, Take(w)
  PROVE  OneJobPerLife'
<1> DEFINE job == [Idle EXCEPT !.pc = "start", !.key = Head(queue)]
<1>1. queue \in Seq(Keys) /\ queue # <<>>
  BY DEF LifeInv, TypeOK, Take
<1>2. /\ Head(queue) \in Keys /\ Head(queue) = queue[1] /\ 1 \in DOMAIN queue
      /\ \A i \in DOMAIN queue' : i + 1 \in DOMAIN queue /\ queue'[i] = queue[i+1] /\ i \in Nat \ {0}
  <2>1. queue' = Tail(queue)
    BY DEF Take
  <2>2. Len(queue) \in Nat /\ DOMAIN queue = 1..Len(queue) /\ Len(queue) # 0
    BY <1>1, LenProperties, EmptySeq
  <2>3. /\ Head(queue) \in Keys /\ Tail(queue) \in Seq(Keys)
        /\ Len(Tail(queue)) = Len(queue) - 1
        /\ \A i \in 1..Len(Tail(queue)) : Tail(queue)[i] = queue[i+1]
    BY <1>1, HeadTailProperties
  <2>4. DOMAIN Tail(queue) = 1..Len(Tail(queue))
    BY <2>3, LenProperties
  <2>5. Head(queue) = queue[1]
    BY <1>1
  <2> QED
    BY <2>1, <2>2, <2>3, <2>4, <2>5
<1>3. /\ worker' = [worker EXCEPT ![w] = job] /\ worker \in [Workers -> Job]
      /\ dispatched' = dispatched /\ main' = main /\ worker[w].pc = "idle"
      /\ ledger' = ledger /\ cards' = cards /\ crashes' = crashes
  BY DEF LifeInv, TypeOK, Take, Step, mainVars, procVars, ledgerVars, outVars
<1>4. job.pc = "start" /\ job.key = Head(queue) /\ job.sent = FALSE
  BY DEF Idle
<1>5. /\ Head(queue) \in dispatched /\ ledger[Head(queue)] = <<>>
      /\ cards[Head(queue)] <= crashes
      /\ \A v \in Workers : worker[v].key # Head(queue)
  BY <1>2 DEF LifeInv, OneJobPerLife, QueuedHasNoRow, UnsentThisLife
<1> HIDE DEF job
<1>6. DueHasNoRow'
  BY <1>3 DEF LifeInv, OneJobPerLife, DueHasNoRow
<1>7. QueuedHasNoRow'
  <2> SUFFICES ASSUME NEW i \in DOMAIN queue'
               PROVE  /\ queue'[i] \in dispatched /\ ledger[queue'[i]] = <<>>
                      /\ \A j \in DOMAIN queue' : queue'[i] = queue'[j] => i = j
                      /\ \A v \in Workers : worker'[v].key # queue'[i]
    BY <1>3 DEF QueuedHasNoRow
  <2>1. queue'[i] = queue[i+1] /\ i + 1 \in DOMAIN queue /\ i \in Nat \ {0}
    BY <1>2
  <2>2. /\ queue'[i] \in dispatched /\ ledger[queue'[i]] = <<>>
        /\ \A v \in Workers : worker[v].key # queue'[i]
        /\ \A j \in DOMAIN queue : queue'[i] = queue[j] => i + 1 = j
    BY <2>1 DEF LifeInv, OneJobPerLife, QueuedHasNoRow
  <2>3. ASSUME NEW j \in DOMAIN queue', queue'[i] = queue'[j] PROVE i = j
    <3>1. queue'[j] = queue[j+1] /\ j + 1 \in DOMAIN queue /\ j \in Nat \ {0}
      BY <1>2
    <3>2. i + 1 = j + 1
      BY <2>2, <2>3, <3>1
    <3> QED
      BY <2>1, <3>1, <3>2
  <2>4. queue'[i] # Head(queue)
    BY <1>2, <2>1, <2>2
  <2> QED
    BY <1>3, <1>4, <2>2, <2>3, <2>4
<1>8. OneThread'
  BY <1>3, <1>4, <1>5 DEF LifeInv, OneJobPerLife, OneThread
<1>9. ASSUME NEW v \in Workers PROVE JobHasRow(v)'
  <2>1. CASE v = w
    <3>1. worker'[v] = job /\ job.key # None
      BY <1>2, <1>3, <1>4, <2>1, ConstantsOK
    <3> QED
      BY <1>3, <1>4, <1>5, <3>1 DEF JobHasRow
  <2>2. CASE v # w
    <3>1. worker'[v] = worker[v] /\ JobHasRow(v)
      BY <1>3, <2>2 DEF LifeInv, OneJobPerLife
    <3> QED
      BY <1>3, <3>1 DEF JobHasRow
  <2> QED
    BY <2>1, <2>2
<1>10. OncePerLife' /\ UnsentThisLife' /\ DownIsIdle'
  BY <1>2, <1>3 DEF LifeInv, OneJobPerLife, OncePerLife, UnsentThisLife, DownIsIdle, Take, Step,
                    procVars
<1> QED
  BY <1>6, <1>7, <1>8, <1>9, <1>10 DEF OneJobPerLife

\* Opening a run of a window without a row leaves exactly one row, 'started', in the table
\* this process reads, be it on disk or not.
LEMMA FirstRow ==
  ASSUME TypeOK, NEW k \in Keys, ledger[k] = <<>>, StartRun(k)
  PROVE  Len(ledger'[k]) = 1 /\ ledger'[k][1].status = "started"
<1>1. now \in Nat /\ ledger \in [Keys -> Seq(Row)] /\ Started(now) \in Row
  BY ConstantsOK, JobTypes DEF TypeOK
<1>2. ledger'[k] = Append(ledger[k], Started(now))
  BY <1>1 DEF StartRun, Write
<1>3. Len(ledger[k]) = 0
  BY <1>1, EmptySeq
<1>4. /\ Len(Append(ledger[k], Started(now))) = 1
      /\ Append(ledger[k], Started(now))[1] = Started(now)
  BY <1>1, <1>3, AppendProperties
<1> QED
  BY <1>2, <1>4 DEF Started

\* A thread at work keeps the invariant, whatever it does with its job.
LEMMA WorkInLife ==
  ASSUME LifeInv, NEW w \in Workers, Work(w)
  PROVE  OneJobPerLife'
<1> DEFINE k == worker[w].key
<1> USE DEF ledgerVars, outVars
<1>0. /\ worker \in [Workers -> Job] /\ worker[w] \in Job /\ None \notin Keys
      /\ ledger \in [Keys -> Seq(Row)] /\ cards \in [Keys -> Nat] /\ JobHasRow(w)
      /\ crashes \in Nat /\ Idle.pc = "idle" /\ Idle.key = None /\ OncePerLife
  BY ConstantsOK DEF LifeInv, TypeOK, OneJobPerLife, Idle
<1>1. ASSUME worker[w].pc # "idle" PROVE k \in Keys /\ k \in dispatched /\ cards[k] <= crashes + 1
  BY <1>0, <1>1 DEF LifeInv, HasKey, JobHasRow, OncePerLife
<1>2. ASSUME ~Take(w)
      PROVE  /\ queue' = queue
             /\ \A j \in Keys \ {k} : ledger'[j] = ledger[j] /\ cards'[j] = cards[j]
  <2>1. \/ ledger' = ledger
        \/ \E e : ledger' = [ledger EXCEPT ![k] = e]
    BY <1>2 DEF Work, Start, Build, RecordFailure, Deliver, RecordOutcome, StartRun, FinishRun,
                Write, AlertFailed, AlertUndelivered, Raise
  <2>2. \/ cards' = cards
        \/ \E e : cards' = [cards EXCEPT ![k] = e]
    BY <1>2 DEF Work, Start, Build, RecordFailure, Deliver, RecordOutcome, AlertFailed,
                AlertUndelivered, Raise
  <2>3. queue' = queue
    BY <1>2 DEF Work, Start, Build, RecordFailure, Deliver, RecordOutcome, AlertFailed,
                AlertUndelivered, Raise
  <2> QED
    BY <1>0, <2>1, <2>2, <2>3
<1> HIDE DEF k
<1>3. ASSUME ~Take(w), NEW from, NEW job, Step(w, from, job), worker[w].pc # "idle",
             job.key \in {k, None}, JobHasRow(w)', cards'[k] <= crashes + 1
      PROVE  OneJobPerLife'
  BY <1>1, <1>2, <1>3, OwnWindowInLife DEF k
<1>4. ASSUME NEW from, NEW job, Step(w, from, job)
      PROVE  /\ worker'[w] = job /\ dispatched' = dispatched /\ crashes' = crashes
             /\ worker[w].pc = from
  BY <1>0, <1>4 DEF Step, mainVars, procVars
\* A step after which the thread has no job, or only an alert to send.
<1>5. ASSUME ~Take(w), NEW from, NEW job, Step(w, from, job), from # "idle", cards' = cards,
             \/ job = Idle
             \/ \E pc \in {"alertFailed", "alertUndelivered"} : job = At(w, pc)
      PROVE  OneJobPerLife'
  <2>1. worker'[w] = job /\ dispatched' = dispatched /\ k \in dispatched /\ k \in Keys
        /\ worker[w].pc # "idle" /\ cards[k] <= crashes + 1
    BY <1>1, <1>4, <1>5
  <2>2. job = Idle \/ (job.pc \in {"alertFailed", "alertUndelivered"} /\ job.key = k)
    BY <1>0, <1>5 DEF At, Job, k
  <2>3. JobHasRow(w)'
    BY <1>0, <2>1, <2>2 DEF JobHasRow
  <2> QED
    BY <1>0, <1>3, <1>5, <2>1, <2>2, <2>3
<1>6. CASE Take(w)
  BY <1>6, TakeInLife
<1>7. CASE Start(w) /\ ~Take(w)
  <2>1. CASE Step(w, "start", Idle) /\ UNCHANGED outVars
    BY <1>5, <1>7, <2>1
  <2>2. CASE /\ Step(w, "start", [At(w, "build") EXCEPT !.run = Len(ledger[k]) + 1])
             /\ StartRun(k) /\ UNCHANGED outVars
    <3> DEFINE job == [At(w, "build") EXCEPT !.run = Len(ledger[k]) + 1]
    <3>1. Step(w, "start", job) /\ worker[w].pc = "start" /\ k \in Keys /\ k \in dispatched
      BY <1>1, <1>4, <2>2
    <3>2. ledger[k] = <<>> /\ cards[k] <= crashes /\ worker[w].sent = FALSE
      BY <1>0, <3>1 DEF JobHasRow, Job, k
    <3>3. Len(ledger[k]) = 0
      BY <3>2
    <3>4. job.pc = "build" /\ job.key = k /\ job.run = 1 /\ job.sent = FALSE
      BY <1>0, <3>2, <3>3 DEF At, Job, k
    <3>5. Len(ledger'[k]) = 1 /\ ledger'[k][1].status = "started"
      BY <2>2, <3>1, <3>2, FirstRow DEF LifeInv
    <3> HIDE DEF job
    <3>6. worker'[w] = job /\ dispatched' = dispatched /\ crashes' = crashes /\ cards' = cards
      BY <1>4, <2>2, <3>1
    <3>7. JobHasRow(w)'
      BY <1>0, <3>1, <3>2, <3>4, <3>5, <3>6 DEF JobHasRow
    <3>8. cards'[k] <= crashes + 1
      BY <1>1, <3>1, <3>6
    <3> QED
      BY <1>3, <1>7, <3>1, <3>4, <3>7, <3>8
  <2> QED
    BY <1>7, <2>1, <2>2 DEF Start, k
<1>8. CASE Build(w) /\ ~Take(w)
  <2>1. UNCHANGED <<ledger, cards>>
    BY <1>8 DEF Build
  <2>2. ASSUME NEW job, job.pc \in {"build", "hung", "fail", "deliver"}, job.key = k,
               job.run = worker[w].run, job.sent = worker[w].sent, Step(w, "build", job)
        PROVE  OneJobPerLife'
    <3>1. worker'[w] = job /\ dispatched' = dispatched /\ crashes' = crashes
          /\ worker[w].pc = "build"
      BY <1>4, <2>2
    <3>2. JobHasRow(w)'
      BY <1>0, <2>1, <2>2, <3>1 DEF JobHasRow, k
    <3>3. cards'[k] <= crashes + 1
      BY <1>1, <2>1, <3>1
    <3> QED
      BY <1>3, <1>8, <2>2, <3>1, <3>2, <3>3
  <2>3. \A pc \in {"deliver", "fail", "hung"} :
           /\ At(w, pc).pc = pc /\ At(w, pc).key = k
           /\ At(w, pc).run = worker[w].run /\ At(w, pc).sent = worker[w].sent
    BY <1>0 DEF At, Job, k
  <2>4. CASE Step(w, "build", [worker[w] EXCEPT !.tries = @ + 1])
    <3> DEFINE job == [worker[w] EXCEPT !.tries = @ + 1]
    <3>1. /\ job.pc = worker[w].pc /\ job.key = k
          /\ job.run = worker[w].run /\ job.sent = worker[w].sent
      BY <1>0 DEF Job, k
    <3>2. Step(w, "build", job) /\ worker[w].pc = "build"
      BY <2>4 DEF Step
    <3> HIDE DEF job
    <3> QED
      BY <2>2, <3>1, <3>2
  <2>5. CASE \E pc \in {"deliver", "fail", "hung"} : Step(w, "build", At(w, pc))
    BY <2>2, <2>3, <2>5
  <2> QED
    BY <1>8, <2>4, <2>5 DEF Build
<1>9. CASE (RecordFailure(w) \/ RecordOutcome(w)) /\ ~Take(w)
  <2>1. cards' = cards
    BY <1>9 DEF RecordFailure, RecordOutcome
  <2>2. PICK from, job :
               /\ from \in {"fail", "record"} /\ Step(w, from, job)
               /\ \/ job = Idle
                  \/ \E pc \in {"alertFailed", "alertUndelivered"} : job = At(w, pc)
    BY <1>9 DEF RecordFailure, RecordOutcome
  <2> QED
    BY <1>5, <1>9, <2>1, <2>2
<1>10. CASE Deliver(w) /\ ~Take(w)
  <2>1. /\ worker[w].pc = "deliver" /\ k \in Keys /\ k \in dispatched /\ ledger' = ledger
        /\ worker[w].run = 1 /\ Len(ledger[k]) = 1 /\ ledger[k][1].status = "started"
        /\ cards[k] <= crashes /\ worker[w].sent = FALSE
    <3>1. worker[w].pc = "deliver" /\ ledger' = ledger
      BY <1>10 DEF Deliver, Step
    <3> QED
      BY <1>0, <1>1, <3>1 DEF JobHasRow, Job, k
  <2>2. ASSUME NEW job, job.pc = "record", job.key = k, job.run = worker[w].run,
               Step(w, "deliver", job), job.sent => cards'[k] > 0, cards'[k] <= crashes + 1
        PROVE  OneJobPerLife'
    <3>1. worker'[w] = job /\ dispatched' = dispatched
      BY <1>4, <2>2
    <3>2. JobHasRow(w)'
      BY <1>0, <2>1, <2>2, <3>1 DEF JobHasRow
    <3> QED
      BY <1>3, <1>10, <2>1, <2>2, <3>2
  <2>3. CASE /\ Step(w, "deliver", [At(w, "record") EXCEPT !.sent = TRUE])
             /\ cards' = [cards EXCEPT ![k] = @ + 1]
    <3>1. LET job == [At(w, "record") EXCEPT !.sent = TRUE]
          IN  job.pc = "record" /\ job.key = k /\ job.run = worker[w].run
      BY <1>0 DEF At, Job, k
    <3>2. cards'[k] > 0 /\ cards'[k] <= crashes + 1
      BY <1>0, <2>1, <2>3
    <3> QED
      BY <2>2, <2>3, <3>1, <3>2
  <2>4. CASE /\ Step(w, "deliver", At(w, "record"))
             /\ UNCHANGED cards \/ cards' = [cards EXCEPT ![k] = @ + 1]
    <3>1. /\ At(w, "record").pc = "record" /\ At(w, "record").key = k
          /\ At(w, "record").run = worker[w].run /\ At(w, "record").sent = FALSE
      BY <1>0, <2>1 DEF At, Job, k
    <3>2. cards'[k] <= crashes + 1
      BY <1>0, <1>1, <2>1, <2>4
    <3> QED
      BY <2>2, <2>4, <3>1, <3>2
  <2>5. CASE Step(w, "deliver", Idle) /\ UNCHANGED cards
    BY <1>5, <1>10, <2>5
  <2> QED
    BY <1>10, <2>3, <2>4, <2>5 DEF Deliver, k
<1>11. CASE (AlertFailed(w) \/ AlertUndelivered(w)) /\ ~Take(w)
  <2>1. PICK from \in {"alertFailed", "alertUndelivered"} : Step(w, from, Idle)
    BY <1>11 DEF AlertFailed, AlertUndelivered, Raise
  <2>2. cards' = cards
    BY <1>11 DEF AlertFailed, AlertUndelivered, Raise
  <2> QED
    BY <1>5, <1>11, <2>1, <2>2
<1> QED
  BY <1>6, <1>7, <1>8, <1>9, <1>10, <1>11 DEF Work

\* A due window that this life has not dispatched has no row and no card of this life.
LEMMA SubmitInLife ==
  ASSUME LifeInv, NEW k \in Keys, Submit(k)
  PROVE  OneJobPerLife'
<1>0. /\ queue \in Seq(Keys) /\ main \in TickState
      /\ worker' = worker /\ ledger' = ledger /\ cards' = cards /\ crashes' = crashes /\ up'
      /\ dispatched' = dispatched \cup {k} /\ k \in main.due /\ k # None
      /\ main'.due = main.due \ {k} /\ queue' = Enqueue(k)
  BY ConstantsOK DEF LifeInv, TypeOK, TickState, Submit, ledgerVars, outVars, procVars
<1>1. DueHasNoRow'
  BY <1>0 DEF LifeInv, OneJobPerLife, DueHasNoRow
<1>2. QueuedHasNoRow' /\ UnsentThisLife'
  <2>1. CASE k \in dispatched
    <3>1. queue' = queue /\ dispatched' = dispatched
      BY <1>0, <2>1 DEF Enqueue
    <3> QED
      BY <1>0, <3>1 DEF LifeInv, OneJobPerLife, QueuedHasNoRow, UnsentThisLife
  <2>2. CASE k \notin dispatched
    <3>1. /\ ledger[k] = <<>> /\ cards[k] <= crashes
          /\ \A w \in Workers : worker[w].key # k
          /\ \A i \in DOMAIN queue : queue[i] # k
      BY <1>0, <2>2 DEF LifeInv, OneJobPerLife, DueHasNoRow, QueuedHasNoRow, UnsentThisLife,
                        JobHasRow
    <3>2. /\ \A i \in DOMAIN queue' : i \in DOMAIN queue \/ i = Len(queue) + 1
          /\ \A i \in DOMAIN queue : queue'[i] = queue[i]
          /\ queue'[Len(queue) + 1] = k
      <4>1. Len(queue) \in Nat /\ DOMAIN queue = 1..Len(queue)
        BY <1>0, LenProperties
      <4>2. queue' = Append(queue, k)
        BY <1>0, <2>2 DEF Enqueue
      <4>3. /\ queue' \in Seq(Keys) /\ Len(queue') = Len(queue) + 1
            /\ \A i \in 1..Len(queue) : queue'[i] = queue[i]
            /\ queue'[Len(queue) + 1] = k
        BY <1>0, <4>2, AppendProperties
      <4>4. DOMAIN queue' = 1..Len(queue')
        BY <4>3, LenProperties
      <4> QED
        BY <4>1, <4>3, <4>4
    <3>3. ASSUME NEW i \in DOMAIN queue'
          PROVE  /\ queue'[i] \in dispatched' /\ ledger[queue'[i]] = <<>>
                 /\ cards[queue'[i]] <= crashes
                 /\ \A w \in Workers : worker[w].key # queue'[i]
      <4>1. CASE i \in DOMAIN queue
        BY <1>0, <3>2, <4>1 DEF LifeInv, OneJobPerLife, QueuedHasNoRow, UnsentThisLife
      <4>2. CASE i = Len(queue) + 1
        BY <1>0, <3>1, <3>2, <4>2
      <4> QED
        BY <3>2, <4>1, <4>2
    <3>4. ASSUME NEW i \in DOMAIN queue', NEW j \in DOMAIN queue', queue'[i] = queue'[j]
          PROVE  i = j
      BY <3>1, <3>2, <3>4 DEF LifeInv, OneJobPerLife, QueuedHasNoRow
    <3>5. \A j \in Keys \ dispatched' : cards[j] <= crashes
      BY <1>0 DEF LifeInv, OneJobPerLife, UnsentThisLife
    <3> QED
      BY <1>0, <3>3, <3>4, <3>5 DEF QueuedHasNoRow, UnsentThisLife
  <2> QED
    BY <2>1, <2>2
<1>3. OneThread' /\ OncePerLife' /\ DownIsIdle' /\ \A w \in Workers : JobHasRow(w)'
  BY <1>0 DEF LifeInv, OneJobPerLife, OneThread, OncePerLife, DownIsIdle, JobHasRow
<1> QED
  BY <1>1, <1>2, <1>3 DEF OneJobPerLife

LEMMA NextInLife ==
  ASSUME LifeInv, [Next]_vars
  PROVE  OneJobPerLife'
<1> USE DEF procVars, mainVars, ledgerVars, outVars
<1>1. ASSUME main'.due \subseteq main.due \/ main'.due = DueJobs(main.now),
             UNCHANGED <<dispatched, queue, worker, ledger, cards, crashes>>, up' \/ up' = up
      PROVE  OneJobPerLife'
  <2>1. DueHasNoRow'
    BY <1>1 DEF LifeInv, OneJobPerLife, DueHasNoRow, DueJobs, WasHandled
  <2> QED
    BY <1>1, <2>1 DEF LifeInv, OneJobPerLife, QueuedHasNoRow, OneThread, JobHasRow, OncePerLife,
                      UnsentThisLife, DownIsIdle
<1>2. main \in TickState
  BY DEF LifeInv, TypeOK
<1>3. CASE TickStart \/ Watch \/ TickError
  BY <1>1, <1>3 DEF TickStart, Watch, TickError, Asleep
<1>4. CASE MaybeIngest \/ SelectDue \/ Submitted
  <2>1. main'.due = main.due \/ main'.due = DueJobs(main.now)
    BY <1>2, <1>4 DEF MaybeIngest, SelectDue, Submitted, TickState
  <2> QED
    BY <1>1, <1>4, <2>1 DEF MaybeIngest, SelectDue, Submitted
<1>5. ASSUME NEW k \in Keys, Submit(k) PROVE OneJobPerLife'
  BY <1>5, SubmitInLife
<1>6. ASSUME NEW w \in Workers, Work(w) PROVE OneJobPerLife'
  BY <1>6, WorkInLife
\* A crash begins a new life in which every window may go out once.
<1>7. CASE Crash
  <2>1. /\ dispatched' = {} /\ queue' = <<>> /\ worker' = [w \in Workers |-> Idle]
        /\ main' = Asleep /\ cards' = cards /\ crashes' = crashes + 1
    BY <1>7 DEF Crash
  <2>2. /\ \A k \in Keys : cards[k] \in Nat /\ cards[k] <= crashes + 1
        /\ crashes \in Nat
    BY ConstantsOK DEF LifeInv, TypeOK, OneJobPerLife, OncePerLife
  <2>3. OncePerLife' /\ UnsentThisLife'
    BY <2>1, <2>2 DEF OncePerLife, UnsentThisLife
  <2>4. DueHasNoRow' /\ QueuedHasNoRow' /\ OneThread'
    BY <2>1 DEF Asleep, DueHasNoRow, QueuedHasNoRow, OneThread, Idle
  <2>5. DownIsIdle' /\ \A w \in Workers : JobHasRow(w)'
    BY <2>1 DEF DownIsIdle, JobHasRow, Idle
  <2> QED
    BY <2>3, <2>4, <2>5 DEF OneJobPerLife
\* A process that falls back to memory finds no row of anything, and has no job either.
<1>8. CASE Restart
  <2>1. UNCHANGED <<main, dispatched, queue, worker, cards, crashes>> /\ up'
    BY <1>8 DEF Restart
  <2>2. CASE ledger' = ledger
    BY <1>1, <2>1, <2>2
  <2>3. CASE ledger' = [k \in Keys |-> <<>>]
    <3>1. \A w \in Workers : worker[w].pc = "idle" /\ JobHasRow(w)
      BY <1>8 DEF Restart, DownIsIdle, LifeInv, OneJobPerLife
    <3>2. \A w \in Workers : JobHasRow(w)'
      BY <2>1, <3>1 DEF JobHasRow
    <3>3. main.due \subseteq Keys /\ dispatched \subseteq Keys
      BY <1>2 DEF TickState, LifeInv, TypeOK
    <3>4. DueHasNoRow' /\ QueuedHasNoRow'
      BY <2>1, <2>3, <3>3 DEF LifeInv, OneJobPerLife, DueHasNoRow, QueuedHasNoRow
    <3> QED
      BY <2>1, <3>2, <3>4 DEF LifeInv, OneJobPerLife, OneThread, OncePerLife, UnsentThisLife,
                              DownIsIdle
  <2> QED
    BY <1>8, <2>2, <2>3 DEF Restart
<1>9. CASE Advance \/ UNCHANGED vars
  BY <1>1, <1>9 DEF Advance, vars
<1> QED
  BY <1>3, <1>4, <1>5, <1>6, <1>7, <1>8, <1>9 DEF Next, Tick

\* Whatever fails and however often the process dies, with or without a ledger on disk: one
\* card per window and life of the process, and one job with one row of this life behind it.
THEOREM SentOncePerLife == Spec => []OneJobPerLife
<1>1. Init => OneJobPerLife
  <2> SUFFICES ASSUME Init PROVE OneJobPerLife
    OBVIOUS
  <2>1. OncePerLife /\ UnsentThisLife /\ DownIsIdle
    BY DEF Init, OncePerLife, UnsentThisLife, DownIsIdle
  <2>2. DueHasNoRow /\ QueuedHasNoRow /\ OneThread /\ \A w \in Workers : JobHasRow(w)
    BY DEF Init, Asleep, Idle, DueHasNoRow, QueuedHasNoRow, OneThread, JobHasRow
  <2> QED
    BY <2>1, <2>2 DEF OneJobPerLife
<1>2. TypeOK /\ HasKey /\ OneJobPerLife /\ [Next]_vars => OneJobPerLife'
  BY NextInLife DEF LifeInv
<1> QED
  BY <1>1, <1>2, TypeCorrect, PTL DEF Spec

-----------------------------------------------------------------------------
(***************************************************************************)
(* No job ends without a trace, provided that opening its row does not fail *)
(* ("start" \notin Faults): that call is outside every try of the pipeline. *)
(***************************************************************************)

\* What a thread does to the other windows: nothing that could lose their trace.
LEMMA OthersKeepTrace ==
  ASSUME LifeInv, NEW w \in Workers, Work(w), ~Take(w), NEW k \in Keys, k # worker[w].key
  PROVE  /\ Busy(k) => Busy(k)'
         /\ ledger'[k] = ledger[k] /\ cards'[k] = cards[k] /\ alerts \subseteq alerts'
<1> USE DEF ledgerVars, outVars
<1>0. /\ worker \in [Workers -> Job] /\ ledger \in [Keys -> Seq(Row)]
      /\ cards \in [Keys -> Nat] /\ queue' = queue
  BY DEF LifeInv, TypeOK, Work, Start, Build, RecordFailure, Deliver, RecordOutcome,
         AlertFailed, AlertUndelivered, Raise
<1>1. \A v \in Workers \ {w} : worker'[v] = worker[v]
  BY <1>0 DEF Work, Start, Build, RecordFailure, Deliver, RecordOutcome,
              AlertFailed, AlertUndelivered, Raise, Step
<1>2. Busy(k) => Busy(k)'
  BY <1>0, <1>1 DEF Busy
<1>3. \/ ledger' = ledger
      \/ \E e : ledger' = [ledger EXCEPT ![worker[w].key] = e]
  BY DEF Work, Start, Build, RecordFailure, Deliver, RecordOutcome, StartRun, FinishRun, Write,
         AlertFailed, AlertUndelivered, Raise
<1>4. \/ cards' = cards
      \/ \E e : cards' = [cards EXCEPT ![worker[w].key] = e]
  BY DEF Work, Start, Build, RecordFailure, Deliver, RecordOutcome,
         AlertFailed, AlertUndelivered, Raise
<1>5. alerts \subseteq alerts'
  BY DEF Work, Start, Build, RecordFailure, Deliver, RecordOutcome,
         AlertFailed, AlertUndelivered, Raise
<1> QED
  BY <1>0, <1>2, <1>3, <1>4, <1>5

Trace(k) == \/ Busy(k) \/ cards[k] > 0
            \/ <<"failed", k>> \in alerts \/ <<"undelivered", k>> \in alerts
            \/ \E i \in DOMAIN ledger[k] : ledger[k][i].status = "started"

\* What a thread does to its own window: it is still busy, or it leaves a trace.
LEMMA OwnTrace ==
  ASSUME "start" \notin Faults, LifeInv, NEW w \in Workers, Work(w), ~Take(w),
         NEW k \in Keys, k = worker[w].key
  PROVE  Trace(k)'
<1> USE DEF ledgerVars, outVars
<1>0. worker \in [Workers -> Job] /\ worker[w] \in Job /\ JobHasRow(w)
      /\ cards \in [Keys -> Nat] /\ ledger \in [Keys -> Seq(Row)]
  BY DEF LifeInv, TypeOK, OneJobPerLife
<1>1. ASSUME worker'[w].key = k PROVE Trace(k)'
  BY <1>1 DEF Trace, Busy
<1>2. ASSUME NEW pc, NEW from, Step(w, from, At(w, pc)) PROVE worker'[w].key = k
  BY <1>0, <1>2 DEF Step, At, Job
<1>3. CASE Start(w)
  <2>1. Step(w, "start", [At(w, "build") EXCEPT !.run = Len(ledger[k]) + 1])
    BY <1>3 DEF Start
  <2>2. worker'[w].key = k
    BY <1>0, <2>1 DEF Step, At, Job
  <2> QED
    BY <1>1, <2>2
<1>4. CASE Build(w)
  <2>1. worker'[w].key = k
    BY <1>0, <1>4 DEF Build, Step, At, Job
  <2> QED
    BY <1>1, <2>1
<1>5. ASSUME Step(w, "fail", Idle) \/ Step(w, "record", Idle) \/ Step(w, "deliver", Idle),
             UNCHANGED ledgerVars
      PROVE  Trace(k)'
  <2>1. worker[w].pc \in {"fail", "deliver", "record"}
    BY <1>5 DEF Step
  <2>2. Len(ledger[k]) = 1 /\ ledger[k][1].status = "started"
    BY <1>0, <2>1 DEF JobHasRow
  <2>3. 1 \in DOMAIN ledger[k]
    BY <1>0, <2>2, LenProperties
  <2> QED
    BY <1>5, <2>2, <2>3 DEF Trace
<1>6. CASE RecordFailure(w)
  BY <1>1, <1>2, <1>5, <1>6 DEF RecordFailure
<1>7. CASE Deliver(w)
  <2>1. CASE Step(w, "deliver", [At(w, "record") EXCEPT !.sent = TRUE])
    <3>1. worker'[w].key = k
      BY <1>0, <2>1 DEF Step, At, Job
    <3> QED
      BY <1>1, <3>1
  <2> QED
    BY <1>1, <1>2, <1>5, <1>7, <2>1 DEF Deliver
<1>8. CASE RecordOutcome(w)
  <2>1. CASE Step(w, "record", Idle) /\ UNCHANGED ledgerVars
    BY <1>5, <2>1
  <2>2. CASE worker[w].sent /\ Step(w, "record", Idle) /\ UNCHANGED outVars
    <3>1. worker[w].pc = "record"
      BY <2>2 DEF Step
    <3>2. cards[k] > 0 /\ cards' = cards
      BY <1>0, <2>2, <3>1 DEF JobHasRow
    <3> QED
      BY <3>2 DEF Trace
  <2>3. CASE Step(w, "record", At(w, "alertUndelivered"))
    BY <1>1, <1>2, <2>3
  <2> QED
    BY <1>8, <2>1, <2>2, <2>3 DEF RecordOutcome
<1>9. CASE AlertFailed(w) \/ AlertUndelivered(w)
  <2>1. <<"failed", k>> \in alerts' \/ <<"undelivered", k>> \in alerts'
    BY <1>9 DEF AlertFailed, AlertUndelivered, Raise
  <2> QED
    BY <2>1 DEF Trace
<1> QED
  BY <1>3, <1>4, <1>6, <1>7, <1>8, <1>9 DEF Work

LEMMA NextKeepsTrace ==
  ASSUME "start" \notin Faults, LifeInv, [Next]_vars,
         \A k \in dispatched : Trace(k)
  PROVE  \A k \in dispatched' : Trace(k)'
<1> USE DEF procVars, mainVars, ledgerVars, outVars
<1> SUFFICES ASSUME NEW k \in dispatched' PROVE Trace(k)'
  OBVIOUS
<1>0. dispatched \subseteq Keys /\ queue \in Seq(Keys) /\ worker \in [Workers -> Job]
  BY DEF LifeInv, TypeOK
<1>1. ASSUME UNCHANGED <<dispatched, queue, worker, ledger, cards>>, alerts \subseteq alerts'
      PROVE  Trace(k)'
  BY <1>1 DEF Trace, Busy
<1>2. CASE TickStart \/ MaybeIngest \/ SelectDue \/ TickError \/ Submitted \/ Watch
  BY <1>1, <1>2 DEF TickStart, MaybeIngest, SelectDue, TickError, Submitted, Watch
<1>3. ASSUME NEW j \in Keys, Submit(j) PROVE Trace(k)'
  <2>1. dispatched' = dispatched \cup {j} /\ UNCHANGED <<worker, ledger, cards, alerts>>
        /\ queue' = Enqueue(j)
    BY <1>3 DEF Submit
  <2>2. CASE j \in dispatched
    BY <1>1, <2>1, <2>2 DEF Enqueue
  <2>3. CASE j \notin dispatched
    <3>1. /\ queue' = Append(queue, j)
          /\ \A i \in DOMAIN queue : i \in DOMAIN queue' /\ queue'[i] = queue[i]
          /\ Len(queue) + 1 \in DOMAIN queue' /\ queue'[Len(queue) + 1] = j
      <4>1. queue' = Append(queue, j)
        BY <2>1, <2>3 DEF Enqueue
      <4>2. /\ queue' \in Seq(Keys) /\ Len(queue') = Len(queue) + 1
            /\ \A i \in 1..Len(queue) : queue'[i] = queue[i]
            /\ queue'[Len(queue) + 1] = j
        BY <1>0, <4>1, AppendProperties
      <4>3. DOMAIN queue = 1..Len(queue) /\ DOMAIN queue' = 1..Len(queue') /\ Len(queue) \in Nat
        BY <1>0, <4>2, LenProperties
      <4> QED
        BY <4>1, <4>2, <4>3
    <3>2. CASE k = j
      BY <3>1, <3>2 DEF Trace, Busy
    <3>3. CASE k # j
      <4>1. Trace(k)
        BY <2>1, <3>3
      <4> QED
        BY <2>1, <3>1, <4>1 DEF Trace, Busy
    <3> QED
      BY <3>2, <3>3
  <2> QED
    BY <2>2, <2>3
<1>4. ASSUME NEW w \in Workers, Work(w) PROVE Trace(k)'
  <2>1. dispatched' = dispatched /\ k \in Keys /\ Trace(k)
    BY <1>0, <1>4 DEF Work, Take, Start, Build, RecordFailure, Deliver, RecordOutcome,
                      AlertFailed, AlertUndelivered, Raise, Step
  <2>2. CASE Take(w)
    <3>1. /\ queue # <<>> /\ queue' = Tail(queue)
          /\ worker' = [worker EXCEPT ![w] = [Idle EXCEPT !.pc = "start", !.key = Head(queue)]]
          /\ worker[w].pc = "idle" /\ UNCHANGED <<ledger, cards, alerts>>
      BY <2>2 DEF Take, Step
    <3>2. worker'[w].key = Head(queue) /\ Head(queue) = queue[1]
      BY <1>0, <3>1 DEF Idle
    <3>3. \A i \in DOMAIN queue : i = 1 \/ \E j \in DOMAIN queue' : queue'[j] = queue[i]
      <4>1. /\ queue' \in Seq(Keys) /\ Len(queue') = Len(queue) - 1
            /\ \A i \in 1..Len(queue') : queue'[i] = queue[i+1]
        BY <1>0, <3>1, HeadTailProperties
      <4>2. DOMAIN queue = 1..Len(queue) /\ DOMAIN queue' = 1..Len(queue') /\ Len(queue) \in Nat
        BY <1>0, <4>1, LenProperties
      <4>3. ASSUME NEW i \in DOMAIN queue, i # 1
            PROVE  i - 1 \in DOMAIN queue' /\ queue'[i-1] = queue[i]
        BY <4>1, <4>2, <4>3
      <4> QED
        BY <4>3
    <3>4. CASE \E i \in DOMAIN queue : queue[i] = k
      BY <3>2, <3>3, <3>4 DEF Trace, Busy
    <3>5. CASE \E v \in Workers : worker[v].key = k
      <4>1. PICK v \in Workers : worker[v].key = k
        BY <3>5
      <4>2. v # w
        BY <2>1, <3>1, <4>1, ConstantsOK DEF LifeInv, OneJobPerLife, JobHasRow
      <4> QED
        BY <1>0, <3>1, <4>1, <4>2 DEF Trace, Busy
    <3> QED
      BY <2>1, <3>1, <3>4, <3>5 DEF Trace, Busy
  <2>3. CASE ~Take(w) /\ k = worker[w].key
    BY <1>4, <2>1, <2>3, OwnTrace
  <2>4. CASE ~Take(w) /\ k # worker[w].key
    BY <1>4, <2>1, <2>4, OthersKeepTrace DEF Trace
  <2> QED
    BY <2>2, <2>3, <2>4
<1>5. CASE Crash
  BY <1>5 DEF Crash
<1>6. CASE Restart
  BY <1>6 DEF Restart, LifeInv, OneJobPerLife, DownIsIdle
<1>7. CASE Advance \/ UNCHANGED vars
  BY <1>1, <1>7 DEF Advance, vars
<1> QED
  BY <1>2, <1>3, <1>4, <1>5, <1>6, <1>7 DEF Next, Tick

\* A dispatched job that is over delivered, alerted, or left a row for the watchdog.
THEOREM NoSilentJob ==
  ASSUME "start" \notin Faults
  PROVE  Spec => []AccountedFor
<1>1. AccountedFor <=> \A k \in dispatched : Trace(k)
  BY DEF AccountedFor, Trace
<1>2. Init => AccountedFor
  BY DEF Init, AccountedFor
<1>3. TypeOK /\ HasKey /\ OneJobPerLife /\ AccountedFor /\ [Next]_vars => AccountedFor'
  BY <1>1, NextKeepsTrace DEF LifeInv, AccountedFor, Trace
<1> QED
  BY <1>2, <1>3, TypeCorrect, SentOncePerLife, PTL DEF Spec

-----------------------------------------------------------------------------
(***************************************************************************)
(* The dispatcher implements CardPromise: opening a run claims the window,  *)
(* closing it settles the window, and a card goes out in between.           *)
(***************************************************************************)

\* How a step changes the table: not at all, one row opened, or one row closed.
LEMMA LedgerStep ==
  ASSUME "open" \notin Faults, Inv, [Next]_vars
  PROVE  \/ ledger' = ledger
         \/ /\ cards' = cards
            /\ \E k \in Keys :
                 /\ \A j \in Keys \ {k} : ledger'[j] = ledger[j]
                 /\ \/ /\ ledger[k] = <<>>
                       /\ ledger'[k] # <<>> /\ ledger'[k][1].status = "started"
                    \/ /\ ledger[k] # <<>> /\ ledger[k][1].status = "started"
                       /\ ledger'[k] # <<>> /\ ledger'[k][1].status # "started"
<1> USE DEF ledgerVars, outVars
<1>1. ASSUME NEW w \in Workers, Start(w), ledger' # ledger
      PROVE  /\ cards' = cards
             /\ \E k \in Keys :
                  /\ \A j \in Keys \ {k} : ledger'[j] = ledger[j]
                  /\ ledger[k] = <<>> /\ ledger'[k] # <<>> /\ ledger'[k][1].status = "started"
  <2>1. worker[w].pc = "start" /\ StartRun(worker[w].key) /\ cards' = cards
    BY <1>1 DEF Start, Step
  <2>2. worker[w].key \in Keys /\ ledger[worker[w].key] = <<>>
    BY <2>1 DEF Inv, HasKey, OneJobPerWindow, JobMatchesRow
  <2> QED
    BY <2>1, <2>2, OneRowStarted DEF Inv
<1>2. ASSUME NEW w \in Workers, RecordFailure(w) \/ RecordOutcome(w), ledger' # ledger
      PROVE  /\ cards' = cards
             /\ \E k \in Keys :
                  /\ \A j \in Keys \ {k} : ledger'[j] = ledger[j]
                  /\ ledger[k] # <<>> /\ ledger[k][1].status = "started"
                  /\ ledger'[k] # <<>> /\ ledger'[k][1].status # "started"
  <2>1. /\ worker[w].pc \in {"fail", "record"} /\ cards' = cards
        /\ \/ FinishRun(worker[w].key, worker[w].run, "failed", FALSE)
           \/ FinishRun(worker[w].key, worker[w].run, "ok", worker[w].sent)
    BY <1>2 DEF RecordFailure, RecordOutcome, Step
  <2>2. /\ worker[w].key \in Keys /\ worker[w].run = 1 /\ Len(ledger[worker[w].key]) = 1
        /\ ledger[worker[w].key][1].status = "started"
    BY <2>1 DEF Inv, HasKey, OneJobPerWindow, JobMatchesRow
  <2>3. worker[w].sent \in BOOLEAN
    BY DEF Inv, TypeOK, Job
  <2>4. PICK st \in {"failed", "ok"}, del \in BOOLEAN : FinishRun(worker[w].key, 1, st, del)
    BY <2>1, <2>2, <2>3
  <2>5. ledger'[worker[w].key] # <<>> /\ ledger'[worker[w].key][1].status = st
        /\ \A j \in Keys \ {worker[w].key} : ledger'[j] = ledger[j]
    BY <2>2, <2>4, OneRowFinished DEF Inv, Statuses
  <2>6. ledger[worker[w].key] # <<>>
    BY <2>2
  <2> QED
    BY <2>1, <2>2, <2>5, <2>6
<1>3. ASSUME NEW w \in Workers, Work(w), ~Start(w), ~RecordFailure(w), ~RecordOutcome(w)
      PROVE  ledger' = ledger
  BY <1>3 DEF Work, Take, Build, Deliver, AlertFailed, AlertUndelivered, Raise
<1>4. ASSUME Tick \/ TickError PROVE ledger' = ledger
  BY <1>4 DEF Tick, TickStart, MaybeIngest, SelectDue, TickError, Submit, Submitted, Watch
<1>5. ASSUME Crash \/ Restart \/ Advance \/ UNCHANGED vars PROVE ledger' = ledger
  BY <1>5 DEF Crash, Restart, Advance, vars, Inv, DurableLedger
<1> QED
  BY <1>1, <1>2, <1>3, <1>4, <1>5 DEF Next

THEOREM Implements ==
  ASSUME "open" \notin Faults
  PROVE  Spec => KeepsPromise
<1>1. Init => Promise!Init
  BY DEF Init, Promise!Init, Phase
<1>2. /\ TypeOK /\ HasKey /\ OneJobPerWindow /\ DurableLedger /\ LedgerTruthful /\ [Next]_vars
      => [Promise!Next]_(Promise!vars)
  <2> SUFFICES ASSUME Inv, [Next]_vars PROVE [Promise!Next]_(Promise!vars)
    BY DEF Inv
  <2>1. CASE cards' = cards /\ ledger' = ledger
    BY <2>1 DEF Promise!vars, Phase
  <2>2. CASE cards' # cards
    <3>1. PICK k \in Keys : /\ cards[k] = 0 /\ cards' = [cards EXCEPT ![k] = 1]
                            /\ ledger' = ledger /\ Len(ledger[k]) = 1
                            /\ ledger[k][1].status = "started"
      BY <2>2, CardsStep
    <3>2. Phase[k] = "claimed" /\ Phase' = Phase
      BY <3>1 DEF Phase
    <3>3. Promise!Send(k)
      BY <3>1, <3>2 DEF Promise!Send
    <3> QED
      BY <3>3 DEF Promise!Next
  <2>3. CASE cards' = cards /\ ledger' # ledger
    <3>1. PICK k \in Keys :
                 /\ \A j \in Keys \ {k} : ledger'[j] = ledger[j]
                 /\ \/ /\ ledger[k] = <<>>
                       /\ ledger'[k] # <<>> /\ ledger'[k][1].status = "started"
                    \/ /\ ledger[k] # <<>> /\ ledger[k][1].status = "started"
                       /\ ledger'[k] # <<>> /\ ledger'[k][1].status # "started"
      BY <2>3, LedgerStep
    <3>2. CASE ledger[k] = <<>> /\ ledger'[k] # <<>> /\ ledger'[k][1].status = "started"
      <4>1. Phase[k] = "open" /\ Phase' = [Phase EXCEPT ![k] = "claimed"]
        BY <3>1, <3>2 DEF Phase
      <4>2. Promise!Claim(k)
        BY <2>3, <4>1 DEF Promise!Claim
      <4> QED
        BY <4>2 DEF Promise!Next
    <3>3. CASE /\ ledger[k] # <<>> /\ ledger[k][1].status = "started"
               /\ ledger'[k] # <<>> /\ ledger'[k][1].status # "started"
      <4>1. Phase[k] = "claimed" /\ Phase' = [Phase EXCEPT ![k] = "settled"]
        BY <3>1, <3>3 DEF Phase
      <4>2. Promise!Settle(k)
        BY <2>3, <4>1 DEF Promise!Settle
      <4> QED
        BY <4>2 DEF Promise!Next
    <3> QED
      BY <3>1, <3>2, <3>3
  <2> QED
    BY <2>1, <2>2, <2>3
<1> QED
  BY <1>1, <1>2, TypeCorrect, Safe, PTL DEF Spec, KeepsPromise, Promise!Spec
=============================================================================
