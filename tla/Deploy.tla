-------------------------------- MODULE Deploy --------------------------------
(***************************************************************************)
(* infra/update.sh, the script that updates the running daemon: its guard   *)
(* against a job in flight, the bookkeeping of .last_good_sha, git pull,    *)
(* pip install, the sync of the systemd unit, the restart with its health   *)
(* check, the automatic rollback and --rollback.  `set -e` ends the script  *)
(* at the first failing command.  Around it: commits pushed to origin/main, *)
(* the daemon, which systemd restarts from whatever tree is on disk, and a  *)
(* job of the daemon, whose row in the runs table the guard looks for.      *)
(***************************************************************************)
EXTENDS Integers, FiniteSets

CONSTANTS
  Last,       \* commits are numbered 1..Last along origin/main
  Reqs,       \* what requirements.txt asks for in each commit
  Unit,       \* the systemd unit file of each commit
  Works,      \* <<commit, installed requirements>> pairs whose daemon comes up
  Noisy,      \* those of them that log an ERROR line while they start
  GuardAge,   \* ACTIVE_WORKER_AGE_SECONDS
  DayLen,     \* length of a UTC date
  MaxTime,    \* bound on the clock
  MaxJobs,    \* bound on the jobs of the daemon
  MaxRuns,    \* bound on the invocations of the script
  Faults      \* subset of FaultKinds

Commits == 1..Last
FaultKinds == {"dirty", "query", "fetch", "pull", "pip", "sync", "reset", "respawn", "errors"}

ASSUME DeployConstants ==
  /\ Last \in Nat \ {0}
  /\ DOMAIN Reqs = Commits /\ DOMAIN Unit = Commits
  /\ Noisy \subseteq Works
  /\ GuardAge \in Nat /\ DayLen \in Nat \ {0}
  /\ MaxTime \in Nat /\ MaxJobs \in Nat /\ MaxRuns \in Nat
  /\ Faults \subseteq FaultKinds

VARIABLES
  now,
  origin,    \* tip of origin/main
  head,      \* commit checked out in the install directory
  lastGood,  \* content of .last_good_sha, 0 when the file does not exist
  deps,      \* requirements installed in the venv
  unit,      \* unit file in /etc/systemd/system
  daemon,    \* what the running process was started from
  errors,    \* the journal's last 60 seconds hold an ERROR line
  script,    \* the invocation in progress
  runs,      \* invocations so far
  job,       \* the daemon's job: state and the time of its row
  jobs,      \* jobs so far
  open,      \* times of the rows still 'started'
  lost,      \* the last job a restart by the script killed
  halted     \* a command after the pull (pip, the sync) has ended a script since the process started

treeVars == <<origin, head, lastGood, deps, unit>>
jobVars == <<job, jobs, open>>
vars == <<now, treeVars, daemon, errors, script, runs, jobVars, lost, halted>>

NoJob == [state |-> "none", at |-> 0]
NotLost == [state |-> "none", at |-> 0, checked |-> 0, force |-> FALSE, blind |-> FALSE]
Quiet == [pc |-> "idle", force |-> FALSE, dry |-> FALSE, checked |-> 0, blind |-> FALSE,
          current |-> 1, noChange |-> FALSE, unitChanged |-> FALSE, cameUp |-> TRUE]

Pcs == {"idle", "guard", "record", "fetch", "pull", "pip", "sync", "decide", "restart",
        "verify", "reset", "restartOld", "verifyOld", "back", "restartBack", "verifyBack",
        "refused", "noop", "ok", "rolledBack", "down", "wentBack"}
Ended == {"refused", "noop", "ok", "rolledBack", "down", "wentBack"}

ScriptStates == [pc : Pcs, force : BOOLEAN, dry : BOOLEAN, checked : 0..MaxTime, blind : BOOLEAN,
                 current : Commits, noChange : BOOLEAN, unitChanged : BOOLEAN, cameUp : BOOLEAN]

TypeOK ==
  /\ now \in 0..MaxTime /\ runs \in 0..MaxRuns /\ jobs \in 0..MaxJobs
  /\ origin \in Commits /\ head \in Commits /\ lastGood \in Commits \cup {0}
  /\ deps \in {Reqs[c] : c \in Commits} /\ unit \in {Unit[c] : c \in Commits}
  /\ daemon \in [code : Commits, deps : {Reqs[c] : c \in Commits}]
  /\ errors \in BOOLEAN /\ halted \in BOOLEAN
  /\ script \in ScriptStates
  /\ job \in [state : {"none", "queued", "running"}, at : 0..MaxTime]
  /\ open \subseteq 0..MaxTime /\ (job.state = "running" => job.at \in open)
  /\ lost \in [state : {"none", "queued", "running"}, at : 0..MaxTime,
               checked : 0..MaxTime, force : BOOLEAN, blind : BOOLEAN]

Init ==
  /\ now = 0
  /\ origin = 1 /\ head = 1 /\ lastGood = 0 /\ deps = Reqs[1] /\ unit = Unit[1]
  /\ daemon = [code |-> 1, deps |-> Reqs[1]]
  /\ errors = FALSE /\ script = Quiet /\ runs = 0
  /\ job = NoJob /\ jobs = 0 /\ open = {}
  /\ lost = NotLost /\ halted = FALSE

\* The process runs (systemctl is-active, and it got past its startup).
Up == <<daemon.code, daemon.deps>> \in Works

-----------------------------------------------------------------------------
\* Around the script.

Push == /\ origin < Last /\ origin' = origin + 1
        /\ UNCHANGED <<now, head, lastGood, deps, unit, daemon, errors, script, runs, jobVars, lost, halted>>

Pass == /\ now < MaxTime /\ now' = now + 1
        /\ UNCHANGED <<treeVars, daemon, errors, script, runs, jobVars, lost, halted>>

\* A job waits in the pool without a row; then its row is 'started' until it is over.
Enqueue == /\ job.state = "none" /\ jobs < MaxJobs /\ Up
           /\ job' = [state |-> "queued", at |-> 0] /\ jobs' = jobs + 1
           /\ UNCHANGED <<now, treeVars, daemon, errors, script, runs, open, lost, halted>>

StartJob == /\ job.state = "queued" /\ now \notin open
            /\ job' = [state |-> "running", at |-> now] /\ open' = open \cup {now}
            /\ UNCHANGED <<now, treeVars, daemon, errors, script, runs, jobs, lost, halted>>

EndJob == /\ job.state = "running"
          /\ job' = NoJob /\ open' = open \ {job.at}
          /\ UNCHANGED <<now, treeVars, daemon, errors, script, runs, jobs, lost, halted>>

\* A process starts from the tree and the venv as they are.
Boot == /\ daemon' = [code |-> head, deps |-> deps]
        /\ errors' = (errors \/ <<head, deps>> \in Noisy)
        /\ halted' = FALSE

\* Restart=always: the daemon dies by itself and systemd starts it again; the row of
\* its job stays 'started'.
Respawn == /\ "respawn" \in Faults
           /\ Boot /\ job' = NoJob
           /\ UNCHANGED <<now, treeVars, script, runs, jobs, open, lost>>

\* The daemon logs an ERROR line (a pipeline failed, a tick raised), in operation: what
\* a process logs in its first seconds is in Noisy.
Checking == script.pc \in {"verify", "reset", "restartOld", "verifyOld", "verifyBack"}

LogError == /\ "errors" \in Faults /\ Up /\ ~Checking /\ errors' = TRUE
            /\ UNCHANGED <<now, treeVars, daemon, script, runs, jobVars, lost, halted>>

\* A minute passes without one; the script's two health checks are closer than that.
Fade == /\ errors /\ ~Checking /\ errors' = FALSE
        /\ UNCHANGED <<now, treeVars, daemon, script, runs, jobVars, lost, halted>>

-----------------------------------------------------------------------------
\* The script.

At(pc, to) == script.pc = pc /\ script' = [script EXCEPT !.pc = to]

Outside == UNCHANGED <<now, origin, runs, jobVars>>

Exit == script' = Quiet

\* Slip: --rollback does not ask whether there is a .last_good_sha.
BeginAnyway ==
  /\ script.pc = "idle" /\ runs < MaxRuns /\ runs' = runs + 1
  /\ script' = [Quiet EXCEPT !.pc = "back"]
  /\ UNCHANGED <<now, treeVars, daemon, errors, jobVars, lost, halted>>

Begin ==
  /\ script.pc = "idle" /\ runs < MaxRuns /\ runs' = runs + 1
  /\ \/ \E f, d \in BOOLEAN : script' = [Quiet EXCEPT !.pc = "guard", !.force = f, !.dry = d,
                                                      !.cameUp = Up]
     \/ lastGood # 0 /\ script' = [Quiet EXCEPT !.pc = "back"]
  /\ UNCHANGED <<now, treeVars, daemon, errors, jobVars, lost, halted>>

\* Slip: the guard looks for jobs in a table nobody writes.
LooksElsewhere == FALSE

\* started_at is an ISO string with a 'T', datetime('now') has a blank there: the two
\* compare by date first, and on the same date every row is later than the cutoff.
\* (The guard reads store/obs.db: OBS_DB must name it, as .env.example does.)
LooksBusy == \E t \in open : t \div DayLen >= (now - GuardAge) \div DayLen

\* Somebody has edited the files on the machine.
DirtyTree == "dirty" \in Faults

\* The query of the guard fails open: without the file there is nothing to ask, and an
\* sqlite3 that fails (a lock, no permission) counts as no job at all.
Guard ==
  /\ \/ /\ DirtyTree \/ (LooksBusy /\ ~script.force)
        /\ At("guard", "refused")
     \/ /\ LooksBusy => script.force
        /\ script.pc = "guard"
        /\ script' = [script EXCEPT !.pc = "record", !.checked = now]
     \/ /\ "query" \in Faults /\ script.pc = "guard"
        /\ script' = [script EXCEPT !.pc = "record", !.checked = now, !.blind = TRUE]
  /\ Outside /\ UNCHANGED <<head, lastGood, deps, unit, daemon, errors, lost, halted>>

\* Every invocation records the current commit, a dry run and a no-op included.
Record ==
  /\ script.pc = "record"
  /\ script' = [script EXCEPT !.pc = "fetch", !.current = head]
  /\ lastGood' = head
  /\ Outside /\ UNCHANGED <<head, deps, unit, daemon, errors, lost, halted>>

Fetch ==
  /\ script.pc = "fetch"
  /\ \/ /\ script' = IF script.dry THEN Quiet
                     ELSE [script EXCEPT !.pc = IF head = origin THEN "sync" ELSE "pull",
                                         !.noChange = (head = origin)]
     \/ "fetch" \in Faults /\ Exit
  /\ Outside /\ UNCHANGED <<head, lastGood, deps, unit, daemon, errors, lost, halted>>

Pull ==
  /\ \/ At("pull", "pip") /\ head' = origin
     \/ "pull" \in Faults /\ script.pc = "pull" /\ Exit /\ UNCHANGED head
  /\ Outside /\ UNCHANGED <<lastGood, deps, unit, daemon, errors, lost, halted>>

Pip ==
  /\ \/ /\ At("pip", "sync")
        /\ deps' = IF Reqs[head] = Reqs[script.current] THEN deps ELSE Reqs[head]
        /\ UNCHANGED halted
     \/ /\ "pip" \in Faults /\ script.pc = "pip" /\ Reqs[head] # Reqs[script.current]
        /\ Exit /\ UNCHANGED deps /\ halted' = TRUE
  /\ Outside /\ UNCHANGED <<head, lastGood, unit, daemon, errors, lost>>

\* cp, daemon-reload and crontab can each end the script, before or after the unit is
\* in place (of the crontab itself nothing here depends).
Sync ==
  /\ \/ /\ script.pc = "sync"
        /\ script' = [script EXCEPT !.pc = "decide", !.unitChanged = (unit # Unit[head])]
        /\ unit' = Unit[head] /\ UNCHANGED halted
     \/ /\ "sync" \in Faults /\ script.pc = "sync"
        /\ Exit /\ unit' \in {unit, Unit[head]}
        /\ halted' = (halted \/ ~script.noChange)
  /\ Outside /\ UNCHANGED <<head, lastGood, deps, daemon, errors, lost>>

\* Slip: only a changed unit file asks for a restart.
DecideByUnit ==
  /\ At("decide", IF ~script.unitChanged THEN "noop" ELSE "restart")
  /\ Outside /\ UNCHANGED <<head, lastGood, deps, unit, daemon, errors, lost, halted>>

Decide ==
  /\ At("decide", IF script.noChange /\ ~script.unitChanged THEN "noop" ELSE "restart")
  /\ Outside /\ UNCHANGED <<head, lastGood, deps, unit, daemon, errors, lost, halted>>

\* systemctl restart: the old process is killed with whatever it was doing.
Relaunch(pc, to) ==
  /\ At(pc, to)
  /\ Boot /\ job' = NoJob
  /\ lost' = IF job.state = "none" THEN lost
             ELSE [state |-> job.state, at |-> job.at,
                   checked |-> script.checked, force |-> script.force, blind |-> script.blind]
  /\ UNCHANGED <<now, treeVars, runs, jobs, open>>

Restart == Relaunch("restart", "verify")

\* Slip: the health check is not looked at.
VerifyNothing ==
  /\ At("verify", "ok")
  /\ Outside /\ UNCHANGED <<head, lastGood, deps, unit, daemon, errors, lost, halted>>

\* The journal is searched 60 seconds back from a check made 10 seconds after the restart.
Verify ==
  /\ At("verify", IF Up /\ ~errors THEN "ok" ELSE "reset")
  /\ Outside /\ UNCHANGED <<head, lastGood, deps, unit, daemon, errors, lost, halted>>

\* Slip: git reset --hard HEAD~1.
ResetToParent ==
  /\ At("reset", "restartOld")
  /\ head' = IF head = 1 THEN 1 ELSE head - 1
  /\ Outside /\ UNCHANGED <<lastGood, deps, unit, daemon, errors, lost, halted>>

\* git reset --hard: the tree only; the venv and the unit stay as they are.
Reset ==
  /\ \/ At("reset", "restartOld") /\ head' = script.current
     \/ "reset" \in Faults /\ script.pc = "reset" /\ Exit /\ UNCHANGED head
  /\ Outside /\ UNCHANGED <<lastGood, deps, unit, daemon, errors, lost, halted>>

RestartOld == Relaunch("restartOld", "verifyOld")

VerifyOld ==
  /\ At("verifyOld", IF Up /\ ~errors THEN "rolledBack" ELSE "down")
  /\ Outside /\ UNCHANGED <<head, lastGood, deps, unit, daemon, errors, lost, halted>>

GoBack ==
  /\ \/ /\ script.pc = "back"
        /\ script' = [script EXCEPT !.pc = "restartBack", !.current = head]
        /\ head' = lastGood
     \/ "reset" \in Faults /\ script.pc = "back" /\ Exit /\ UNCHANGED head
  /\ Outside /\ UNCHANGED <<lastGood, deps, unit, daemon, errors, lost, halted>>

RestartBack == Relaunch("restartBack", "verifyBack")

VerifyBack ==
  /\ At("verifyBack", "wentBack")
  /\ Outside /\ UNCHANGED <<head, lastGood, deps, unit, daemon, errors, lost, halted>>

\* After audits and a summary that only read, the script is over.
Finish ==
  /\ script.pc \in Ended /\ Exit
  /\ Outside /\ UNCHANGED <<head, lastGood, deps, unit, daemon, errors, lost, halted>>

Script == \/ Begin \/ Guard \/ Record \/ Fetch \/ Pull \/ Pip \/ Sync \/ Decide
          \/ Restart \/ Verify \/ Reset \/ RestartOld \/ VerifyOld
          \/ GoBack \/ RestartBack \/ VerifyBack \/ Finish

Next == Script \/ Push \/ Pass \/ Enqueue \/ StartJob \/ EndJob \/ Respawn \/ LogError \/ Fade

Spec == Init /\ [][Next]_vars

-----------------------------------------------------------------------------
\* Correctness.

\* "UPDATE OK" after a restart is true: the process runs the code of the tree and is up.
OkMeansRunning == script.pc = "ok" => daemon.code = head /\ Up

\* A failed update leaves the tree and the process on the commit the invocation found.
FailedUpdateRestores ==
  script.pc \in {"rolledBack", "down"} => head = script.current /\ daemon.code = script.current

\* Between invocations the process runs the commit that is checked out, so that a crash
\* and systemd's restart do not change the version; only a command that failed between
\* the pull and the restart (pip, or the sync of the unit and the crontab) leaves them
\* apart, until the next start of the process (update.sh:204-269).
NoHalfDeploy == script.pc = "idle" => daemon.code = head \/ halted

\* An update without --force whose guard could ask the ledger kills only a job that was
\* not there to be seen: it had no row when the guard looked, or its row was older than
\* the guard's age limit.  A guard that cannot ask lets a job be killed that was there to
\* be seen, and docs/SCHEDULING.md:239-240 promises more than it keeps.
OnlyUnseenJobsKilled ==
  lost.state = "running" /\ ~lost.force /\ ~lost.blind =>
    lost.at >= lost.checked \/ lost.at < lost.checked - GuardAge

\* docs/SCHEDULING.md:222-223: the rollback fails only if the previous version is broken
\* too.  The daemon that was up before the update is up after its rollback.
RollbackComesUp == script.pc = "down" => ~script.cameUp
=============================================================================
