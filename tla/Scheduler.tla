------------------------------ MODULE Scheduler ------------------------------
(***************************************************************************)
(* The match-window dispatcher: the daemon's tick (schedule/runner.py), the *)
(* choice of due windows (schedule/scheduler.py), the thread pool that runs *)
(* one job per (match, window) (orchestrator/pipeline.py), the runs ledger  *)
(* that makes a window fire at most once across restarts                    *)
(* (core/obs/runs.py) and the stuck-run watchdog (schedule/watchdog.py).    *)
(*                                                                         *)
(* The process may die at any step and is restarted by systemd; only the    *)
(* rows on disk survive.  Time may pass at any step: every hook of a tick   *)
(* and every stage of a job blocks on the network.                          *)
(***************************************************************************)
EXTENDS Integers, Sequences, FiniteSets

CONSTANTS
  Matches,      \* match ids
  Windows,      \* names of the windows before a kickoff
  Workers,      \* threads of the pool
  None,         \* "no job"
  Lead,         \* minutes (time units) from a window to the kickoff
  CatchUp,      \* how late a window may still fire
  Horizon,      \* how far ahead fixtures are read
  IngestEvery,  \* time between two refreshes of the calendar
  StuckAge,     \* age at which an unfinished run is reported
  MaxAttempts,  \* attempts at building a card
  Published,    \* the successive calendars the fixture source serves
  MaxTime,      \* bound: the clock stops here
  MaxCrashes,   \* bound: how often the process dies
  Faults        \* which of the code's failing calls may fail in this instance

Keys == Matches \X Windows

FaultKinds ==
  { "start",    \* RunLedger.start raises (database is locked)
    "finish",   \* RunLedger.finish raises
    "open",     \* opening the ledger raises, runs() falls back to :memory:
    "render",   \* deliver_card raises before any channel is tried
    "channels", \* every channel fails: it refuses the card, or takes it and then fails
    "hang",     \* a model's client, called without a timeout, never returns
    "ingest",   \* the calendar refresh raises
    "tick" }    \* fixtures_fn or was_handled raises inside the tick

Fixture == [ko : Nat, open : BOOLEAN]

ASSUME ConstantsOK ==
  /\ None \notin Keys
  /\ Lead \in [Windows -> Nat \ {0}]
  /\ CatchUp \in Nat /\ Horizon \in Nat /\ IngestEvery \in Nat /\ StuckAge \in Nat
  /\ MaxAttempts \in Nat \ {0}
  /\ MaxTime \in Nat /\ MaxCrashes \in Nat
  /\ Published \in Seq([Matches -> Fixture]) /\ Published # <<>>
  /\ Faults \subseteq FaultKinds

VARIABLES
  now,         \* the wall clock
  calendar,    \* which version of Published the matches table holds
  up,          \* the daemon process exists
  crashes,     \* times it has died
  lastIngest,  \* SchedulerDaemon._last_ingest; None before the first success
  main,        \* the tick in progress: pc, the tick's own `now`, the due jobs left
  dispatched,  \* SchedulerDaemon._dispatched
  queue,       \* jobs submitted to the pool that no thread has taken
  worker,      \* the job each thread is running
  ledger,      \* the runs table this process reads and writes, by (match, window)
  disk,        \* the runs table in the OBS_DB file
  volatile,    \* this process fell back to a ledger in memory
  cards,       \* how often a card reached a channel, whatever the channel answered
  alerts       \* alerts raised so far

procVars   == <<up, crashes>>
mainVars   == <<lastIngest, main, dispatched>>
ledgerVars == <<ledger, disk, volatile>>
outVars    == <<cards, alerts>>
vars == <<now, calendar, procVars, mainVars, queue, worker, ledgerVars, outVars>>

-----------------------------------------------------------------------------
\* Rows of the runs table, and jobs in the pool.

Statuses == {"started", "ok", "failed"}
Row == [status : Statuses, delivered : BOOLEAN, at : Nat]

\* Slip: a status the summary does not know.
StartedAsRunning(t) == [status |-> "running", delivered |-> FALSE, at |-> t]

Started(t) == [status |-> "started", delivered |-> FALSE, at |-> t]

JobPcs == {"idle", "start", "build", "hung", "fail", "alertFailed",
           "deliver", "record", "alertUndelivered"}
Job == [pc : JobPcs, key : Keys \cup {None}, run : Nat, tries : Nat, sent : BOOLEAN]

Idle == [pc |-> "idle", key |-> None, run |-> 0, tries |-> 0, sent |-> FALSE]

Asleep == [pc |-> "asleep", now |-> 0, due |-> {}]
MainPcs == {"asleep", "ingest", "select", "submit", "watch"}
TickState == [pc : MainPcs, now : Nat, due : SUBSET Keys]

AlertKinds == {"failed", "undelivered", "stuck"}

TypeOK ==
  /\ now \in 0..MaxTime
  /\ calendar \in 1..Len(Published)
  /\ up \in BOOLEAN /\ crashes \in 0..MaxCrashes
  /\ lastIngest \in Nat \cup {None}
  /\ main \in TickState
  /\ dispatched \subseteq Keys
  /\ queue \in Seq(Keys)
  /\ worker \in [Workers -> Job]
  /\ ledger \in [Keys -> Seq(Row)]
  /\ disk \in [Keys -> Seq(Row)]
  /\ volatile \in BOOLEAN
  /\ cards \in [Keys -> Nat]
  /\ alerts \subseteq AlertKinds \X Keys

Init ==
  /\ now = 0
  /\ calendar = 1
  /\ up = TRUE /\ crashes = 0
  /\ lastIngest = None /\ main = Asleep /\ dispatched = {}
  /\ queue = <<>>
  /\ worker = [w \in Workers |-> Idle]
  /\ ledger = [k \in Keys |-> <<>>] /\ disk = ledger
  /\ volatile \in {b \in BOOLEAN : b => "open" \in Faults}
  /\ cards = [k \in Keys |-> 0] /\ alerts = {}

-----------------------------------------------------------------------------
\* The ledger.  A write goes to the file unless the process fell back to memory.

\* Slip: only a row closed 'ok' counts as handled.
WasDelivered(k) == \E i \in DOMAIN ledger[k] : ledger[k][i].status = "ok"

WasHandled(k) == ledger[k] # <<>>

Write(table) ==
  /\ ledger' = table
  /\ disk' = IF volatile THEN disk ELSE table
  /\ UNCHANGED volatile

StartRun(k) == Write([ledger EXCEPT ![k] = Append(@, Started(now))])

FinishRun(k, i, st, del) ==
  Write([ledger EXCEPT ![k][i] = [@ EXCEPT !.status = st, !.delivered = del]])

\* Slip: only the runs this process dispatched are looked at.
StuckHere == {k \in dispatched : \E i \in DOMAIN ledger[k] :
                                   /\ ledger[k][i].status = "started"
                                   /\ ledger[k][i].at < now - StuckAge}

\* What runs().stuck finds: rows still 'started' after StuckAge.
Stuck == {k \in Keys : \E i \in DOMAIN ledger[k] :
                          /\ ledger[k][i].status = "started"
                          /\ ledger[k][i].at < now - StuckAge}

-----------------------------------------------------------------------------
\* Which windows are due at time t: arrived, not too stale, match not started.

Ko(m) == Published[calendar][m].ko

Upcoming == {m \in Matches : /\ Published[calendar][m].open
                             /\ Ko(m) <= now + Horizon}

\* Slip: a window seen at its last admissible instant is skipped.
WindowOpenShort(m, w, t) ==
  LET late == t - (Ko(m) - Lead[w])
  IN  Ko(m) > t /\ 0 <= late /\ late < CatchUp

WindowOpen(m, w, t) ==
  LET late == t - (Ko(m) - Lead[w])
  IN  /\ Ko(m) > t
      /\ 0 <= late /\ late <= CatchUp

DueJobs(t) == {k \in Keys : /\ k[1] \in Upcoming
                            /\ WindowOpen(k[1], k[2], t)
                            /\ ~WasHandled(k)}

\* Submission order: by kickoff, then within a match in the order of WINDOWS.
Precedes(j, k) ==
  \/ Ko(j[1]) < Ko(k[1])
  \/ j[1] = k[1] /\ Lead[j[2]] > Lead[k[2]]

-----------------------------------------------------------------------------
\* SchedulerDaemon.tick, run by the main thread.

\* The tick reads the clock once; every decision of the tick uses that value.
TickStart ==
  /\ up /\ main.pc = "asleep"
  /\ main' = [pc |-> "ingest", now |-> now, due |-> {}]
  /\ UNCHANGED <<now, calendar, procVars, lastIngest, dispatched, queue, worker,
                 ledgerVars, outVars>>

IngestDue == lastIngest # None => main.now - lastIngest >= IngestEvery

\* A refresh stores what the source serves then: any version not yet superseded.
MaybeIngest ==
  /\ up /\ main.pc = "ingest"
  /\ main' = [main EXCEPT !.pc = "select"]
  /\ \/ /\ IngestDue
        /\ calendar' \in calendar..Len(Published)
        /\ lastIngest' = main.now
     \/ /\ IngestDue => "ingest" \in Faults
        /\ UNCHANGED <<calendar, lastIngest>>
  /\ UNCHANGED <<now, procVars, dispatched, queue, worker, ledgerVars, outVars>>

SelectDue ==
  /\ up /\ main.pc = "select"
  /\ main' = [main EXCEPT !.pc = "submit", !.due = DueJobs(main.now)]
  /\ UNCHANGED <<now, calendar, procVars, lastIngest, dispatched, queue, worker,
                 ledgerVars, outVars>>

\* An exception out of the tick is caught by run_forever: no submission, no watchdog.
TickError ==
  /\ up /\ main.pc = "select" /\ "tick" \in Faults
  /\ main' = Asleep
  /\ UNCHANGED <<now, calendar, procVars, lastIngest, dispatched, queue, worker,
                 ledgerVars, outVars>>

\* Slip: the in-memory set is not consulted.
QueueAgain(k) == Append(queue, k)

\* Slip: a job is dropped when another one is already waiting.
QueueOrDrop(k) == IF k \in dispatched \/ queue # <<>> THEN queue ELSE Append(queue, k)

Enqueue(k) == IF k \in dispatched THEN queue ELSE Append(queue, k)

\* The key is marked dispatched before the job exists anywhere else.
Submit(k) ==
  /\ up /\ main.pc = "submit" /\ k \in main.due
  /\ \A j \in main.due : ~Precedes(j, k)
  /\ main' = [main EXCEPT !.due = @ \ {k}]
  /\ dispatched' = dispatched \cup {k}
  /\ queue' = Enqueue(k)
  /\ UNCHANGED <<now, calendar, procVars, lastIngest, worker, ledgerVars, outVars>>

Submitted ==
  /\ up /\ main.pc = "submit" /\ main.due = {}
  /\ main' = [main EXCEPT !.pc = "watch"]
  /\ UNCHANGED <<now, calendar, procVars, lastIngest, dispatched, queue, worker,
                 ledgerVars, outVars>>

\* check_stuck raises one alert that names every stuck run, on every tick.
Watch ==
  /\ up /\ main.pc = "watch"
  /\ main' = Asleep
  /\ alerts' = alerts \cup ({"stuck"} \X Stuck)
  /\ UNCHANGED <<now, calendar, procVars, lastIngest, dispatched, queue, worker,
                 ledgerVars, cards>>

-----------------------------------------------------------------------------
\* process_match, run by a thread of the pool.

Step(w, from, job) ==
  /\ up /\ worker[w].pc = from
  /\ worker' = [worker EXCEPT ![w] = job]
  /\ UNCHANGED <<now, calendar, procVars, mainVars>>

At(w, pc) == [worker[w] EXCEPT !.pc = pc]

Take(w) ==
  /\ queue # <<>>
  /\ Step(w, "idle", [Idle EXCEPT !.pc = "start", !.key = Head(queue)])
  /\ queue' = Tail(queue)
  /\ UNCHANGED <<ledgerVars, outVars>>

\* ledger.start is outside any try: if it raises, the job ends there.
Start(w) ==
  LET k == worker[w].key
  IN  \/ /\ Step(w, "start", [At(w, "build") EXCEPT !.run = Len(ledger[k]) + 1])
         /\ StartRun(k)
         /\ UNCHANGED <<queue, outVars>>
      \/ /\ "start" \in Faults
         /\ Step(w, "start", Idle)
         /\ UNCHANGED <<queue, ledgerVars, outVars>>

\* @retry wraps the build only: transient errors are retried up to MaxAttempts.  The
\* providers set no timeout on a completion: a call that hangs holds the thread for good.
Build(w) ==
  /\ \/ Step(w, "build", At(w, "deliver"))
     \/ /\ worker[w].tries + 1 < MaxAttempts
        /\ Step(w, "build", [worker[w] EXCEPT !.tries = @ + 1])
     \/ Step(w, "build", At(w, "fail"))
     \/ "hang" \in Faults /\ Step(w, "build", At(w, "hung"))
  /\ UNCHANGED <<queue, ledgerVars, outVars>>

\* Slip: the failure is recorded but nobody is told.
RecordFailureQuietly(w) ==
  /\ Step(w, "fail", Idle)
  /\ FinishRun(worker[w].key, worker[w].run, "failed", FALSE)
  /\ UNCHANGED <<queue, outVars>>

RecordFailure(w) ==
  LET job == worker[w]
  IN  \/ /\ Step(w, "fail", At(w, "alertFailed"))
         /\ FinishRun(job.key, job.run, "failed", FALSE)
         /\ UNCHANGED <<queue, outVars>>
      \/ /\ "finish" \in Faults
         /\ Step(w, "fail", Idle)
         /\ UNCHANGED <<queue, ledgerVars, outVars>>

\* deliver_card is outside the try: an exception in it leaves the row 'started'.  It
\* returns FALSE when every channel raised, which a channel may do with the card out: a
\* request that times out after the server took it, a report written before the feed.
Deliver(w) ==
  /\ UNCHANGED <<queue, ledgerVars, alerts>>
  /\ \/ /\ Step(w, "deliver", [At(w, "record") EXCEPT !.sent = TRUE])
        /\ cards' = [cards EXCEPT ![worker[w].key] = @ + 1]
     \/ /\ "channels" \in Faults
        /\ Step(w, "deliver", At(w, "record"))
        /\ \/ UNCHANGED cards
           \/ cards' = [cards EXCEPT ![worker[w].key] = @ + 1]
     \/ /\ "render" \in Faults
        /\ Step(w, "deliver", Idle)
        /\ UNCHANGED cards

\* Slip: the row says delivered whatever deliver_card returned.
RecordAsDelivered(w) ==
  /\ Step(w, "record", IF worker[w].sent THEN Idle ELSE At(w, "alertUndelivered"))
  /\ FinishRun(worker[w].key, worker[w].run, "ok", TRUE)
  /\ UNCHANGED <<queue, outVars>>

RecordOutcome(w) ==
  LET job == worker[w]
  IN  \/ /\ Step(w, "record", IF job.sent THEN Idle ELSE At(w, "alertUndelivered"))
         /\ FinishRun(job.key, job.run, "ok", job.sent)
         /\ UNCHANGED <<queue, outVars>>
      \/ /\ "finish" \in Faults
         /\ Step(w, "record", Idle)
         /\ UNCHANGED <<queue, ledgerVars, outVars>>

Raise(w, from, kind) ==
  /\ Step(w, from, Idle)
  /\ alerts' = alerts \cup {<<kind, worker[w].key>>}
  /\ UNCHANGED <<queue, ledgerVars, cards>>

AlertFailed(w)      == Raise(w, "alertFailed", "failed")
AlertUndelivered(w) == Raise(w, "alertUndelivered", "undelivered")

Work(w) == \/ Take(w) \/ Start(w) \/ Build(w) \/ RecordFailure(w) \/ Deliver(w)
           \/ RecordOutcome(w) \/ AlertFailed(w) \/ AlertUndelivered(w)

-----------------------------------------------------------------------------
\* The process and the clock.

\* SIGTERM, SIGKILL or a power cut: everything in memory goes.
Crash ==
  /\ up /\ crashes < MaxCrashes
  /\ up' = FALSE /\ crashes' = crashes + 1
  /\ lastIngest' = None /\ main' = Asleep /\ dispatched' = {}
  /\ queue' = <<>> /\ worker' = [w \in Workers |-> Idle]
  /\ ledger' = disk /\ volatile' = FALSE
  /\ UNCHANGED <<now, calendar, disk, outVars>>

\* systemd starts a new process, whose first runs() call opens the ledger.
Restart ==
  /\ ~up /\ up' = TRUE
  /\ \/ UNCHANGED <<ledger, volatile>>
     \/ /\ "open" \in Faults
        /\ ledger' = [k \in Keys |-> <<>>] /\ volatile' = TRUE
  /\ UNCHANGED <<now, calendar, crashes, mainVars, queue, worker, disk, outVars>>

Advance ==
  /\ now < MaxTime
  /\ now' = now + 1
  /\ UNCHANGED <<calendar, procVars, mainVars, queue, worker, ledgerVars, outVars>>

Tick == TickStart \/ MaybeIngest \/ SelectDue \/ (\E k \in Keys : Submit(k))
        \/ Submitted \/ Watch

Next == \/ Tick \/ TickError
        \/ \E w \in Workers : Work(w)
        \/ Crash \/ Restart \/ Advance

Spec == Init /\ [][Next]_vars

(***************************************************************************)
(* The main loop keeps running (its network calls have timeouts, and none   *)
(* of them is to a model), and so does a thread that is not hung: the       *)
(* providers set no timeout, so a hung thread is promised nothing.  systemd *)
(* restarts the process (Restart=always), time passes, and a tick that keeps *)
(* being retried is not hit by a database error every single time.          *)
(***************************************************************************)
Fairness ==
  /\ WF_vars(Tick) /\ SF_vars(SelectDue)
  /\ \A w \in Workers : WF_vars(Work(w))
  /\ WF_vars(Restart) /\ WF_vars(Advance)

FairSpec == Spec /\ Fairness

-----------------------------------------------------------------------------
\* Correctness.

Busy(k) == \/ \E i \in DOMAIN queue : queue[i] = k
           \/ \E w \in Workers : worker[w].key = k

\* The user never gets a second card for one (match, window), whatever crashes
\* happen: the runs ledger of core/obs/runs.py gives at-most-once delivery.
AtMostOnce == \A k \in Keys : cards[k] <= 1

\* While the process lives, a dispatched job that is over has delivered its card,
\* raised an alert, or left a 'started' row for the watchdog: process_match never
\* ends without a trace.
AccountedFor ==
  \A k \in dispatched : Busy(k) \/ cards[k] > 0
                        \/ <<"failed", k>> \in alerts \/ <<"undelivered", k>> \in alerts
                        \/ \E i \in DOMAIN ledger[k] : ledger[k][i].status = "started"

DueHasNoRow == \A k \in main.due : k \in dispatched \/ ledger[k] = <<>>

QueuedHasNoRow ==
  \A i \in DOMAIN queue :
    /\ queue[i] \in dispatched /\ ledger[queue[i]] = <<>>
    /\ \A j \in DOMAIN queue : queue[i] = queue[j] => i = j
    /\ \A w \in Workers : worker[w].key # queue[i]

OneThread == \A v, w \in Workers : v # w /\ worker[v].key = worker[w].key => worker[v].key = None

JobMatchesRow(w) ==
  LET job == worker[w]
      row == ledger[job.key]
  IN  /\ job.pc = "idle" <=> job.key = None
      /\ job.pc # "idle" => job.key \in dispatched
      /\ job.pc = "start" => row = <<>> /\ ~job.sent
      /\ job.pc \in {"build", "hung", "fail", "deliver", "record"} =>
           job.run = 1 /\ Len(row) = 1 /\ row[1].status = "started"
      /\ job.pc \in {"build", "hung", "fail", "deliver"} => cards[job.key] = 0 /\ ~job.sent
      /\ job.pc = "record" => cards[job.key] <= 1 /\ (job.sent => cards[job.key] = 1)

OneRow == \A k \in Keys : Len(ledger[k]) <= 1 /\ (ledger[k] = <<>> => cards[k] = 0)

\* A dispatched window is handled by one thread of one process: while it waits or is
\* about to start it has no row, while it runs its single row is 'started', and a card
\* has gone out only if this very job sent it.  This is why at-most-once holds.
OneJobPerWindow ==
  /\ DueHasNoRow /\ QueuedHasNoRow /\ OneThread
  /\ \A w \in Workers : JobMatchesRow(w)
  /\ OneRow

Truthful(row, sent) == row.status # "started" => /\ row.delivered => sent > 0
                                                 /\ row.status = "failed" => sent = 0

\* The runs table never says of a delivery more than what happened: a row marked
\* delivered stands for a card that is out, and a window closed as failed never sent
\* one, in no life of the process.  A row 'ok' without delivered says nothing: a
\* channel may fail with the card out (docs/SCHEDULING.md:235).
LedgerTruthful ==
  \A k \in Keys : \A i \in DOMAIN ledger[k] : Truthful(ledger[k][i], cards[k])

\* When a tick ends, every window of an open fixture that had arrived at the tick's
\* clock, was at most CatchUp late and whose match had not started is dispatched or
\* on record: a restart near a kickoff overlooks nothing (schedule/scheduler.py:5-9).
NothingOverlooked ==
  main.pc = "watch" =>
    \A m \in Matches, w \in Windows :
      LET f == Published[calendar][m]
      IN  /\ f.open /\ f.ko > main.now /\ f.ko <= main.now + Horizon
          /\ main.now >= f.ko - Lead[w] /\ main.now <= f.ko - Lead[w] + CatchUp
          => <<m, w>> \in dispatched \/ ledger[<<m, w>>] # <<>>

\* A job the pool has accepted is recorded in the ledger, unless the process dies or
\* every thread of the pool hangs in a call without a timeout: one call that hangs
\* starves no queued match, and neither does a backlog.
DispatchedIsRecorded ==
  \A k \in Keys : k \in dispatched ~> \/ ledger[k] # <<>> \/ ~up
                                       \/ \A w \in Workers : worker[w].pc = "hung"

\* A run left 'started' (by a crash, or an exception after the start) is closed or
\* reported as stuck, across restarts, if the clock runs long enough to see it and
\* the process has not fallen back to a ledger in memory.
StuckIsReported ==
  \A k \in Keys :
    (\E i \in DOMAIN disk[k] : disk[k][i].status = "started"
                               /\ disk[k][i].at + StuckAge < MaxTime)
      ~> \/ <<"stuck", k>> \in alerts
         \/ \A i \in DOMAIN disk[k] : disk[k][i].status # "started"
         \/ volatile

\* The runs table read as the life of a window: the dispatcher implements CardPromise.
Phase == [k \in Keys |-> IF ledger[k] = <<>> THEN "open"
                         ELSE IF ledger[k][1].status = "started" THEN "claimed"
                         ELSE "settled"]

Promise == INSTANCE CardPromise WITH Jobs <- Keys, phase <- Phase, sent <- cards

\* Whatever crashes, failing calls and interleavings: one claim, at most one card while
\* it is open, never a card before the row or after it is closed.
KeepsPromise == Promise!Spec
=============================================================================
