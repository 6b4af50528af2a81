---------------------------- MODULE DeployProofs -----------------------------
(***************************************************************************)
(* Proofs about Deploy, for any history of commits, any requirements and   *)
(* unit files, any bounds and any of the faults.                           *)
(***************************************************************************)
EXTENDS Deploy, TLAPS

Agree == daemon.code = head \/ halted

\* Steps of the script between a change of the tree and the restart that follows it.
Apart == {"pip", "sync", "decide", "restart", "restartOld", "restartBack"}

\* Steps after a restart, while nothing but a respawn touches the process.
Restarted == {"verify", "reset", "ok", "verifyOld", "rolledBack", "down", "verifyBack",
              "wentBack"}

\* A tree that the script left alone, or a restart since it changed: the process agrees.
TreeInv ==
  /\ script.pc \notin Apart => Agree
  /\ script.pc \in {"sync", "decide", "restart"} /\ script.noChange => Agree
  /\ script.pc \in {"pull", "pip"} => ~script.noChange
  /\ script.pc = "back" => lastGood # 0

\* What the health check looked at is what the tree and the venv hold.
BootInv ==
  /\ script.pc \in Restarted => daemon = [code |-> head, deps |-> deps]
  /\ script.pc \in {"restartOld", "verifyOld", "rolledBack", "down"} => head = script.current
  /\ script.pc = "ok" => Up

\* The guard was there before every restart: what it can have missed is young or old.
GuardInv ==
  /\ script.checked <= now
  /\ job.state = "running" /\ ~script.force /\ ~script.blind =>
       job.at >= script.checked \/ job.at < script.checked - GuardAge

Inv == TypeOK /\ TreeInv /\ BootInv /\ GuardInv /\ OnlyUnseenJobsKilled
-----------------------------------------------------------------------------
\* The script at rest.
LEMMA QuietTyped ==
  Quiet \in ScriptStates /\ Quiet.pc = "idle" /\ Quiet.force = FALSE /\ Quiet.checked = 0
  /\ Quiet.noChange = FALSE
BY DeployConstants DEF Quiet, ScriptStates, Pcs, Commits

LEMMA NoJobTyped ==
  NoJob \in [state : {"none", "queued", "running"}, at : 0..MaxTime] /\ NoJob.state = "none"
BY DeployConstants DEF NoJob

\* Dates in order are times in order, whatever the length of a day.
LEMMA DatesInOrder ==
  ASSUME NEW a \in Int, NEW b \in Int, NEW n \in Nat \ {0}, b <= a
  PROVE  b \div n <= a \div n
<1> DEFINE p == a \div n
           q == b \div n
<1>1. p \in Int /\ q \in Int /\ n * q <= b /\ a < n * p + n
  BY SMT
<1>2. n * q < n * (p + 1)
  BY <1>1, SMT
<1>3. q < p + 1
  BY <1>1, <1>2, SMT
<1> QED BY <1>1, <1>3

\* A row the guard overlooked is older than its age limit: the comparison of the texts
\* only ever takes an old row for a new one (update.sh:60-72).
LEMMA UnseenIsOld ==
  ASSUME ~LooksBusy, now \in Nat, open \subseteq Nat, NEW t \in open
  PROVE  t < now - GuardAge
<1>1. t \div DayLen < (now - GuardAge) \div DayLen
  BY DeployConstants DEF LooksBusy
<1>2. now - GuardAge \in Int /\ t \in Int /\ DayLen \in Nat \ {0}
  BY DeployConstants
<1>3. ASSUME now - GuardAge <= t
      PROVE  FALSE
  <2>1. (now - GuardAge) \div DayLen <= t \div DayLen
    BY <1>2, <1>3, DatesInOrder
  <2> QED BY <1>1, <1>2, <2>1
<1> QED BY <1>2, <1>3

\* A restart: what it starts, and whose job it kills.
LEMMA RelaunchTyped ==
  ASSUME TypeOK, NEW pc \in Pcs, NEW to \in Pcs, Relaunch(pc, to)
  PROVE  TypeOK'
<1>1. script' \in ScriptStates
  BY DEF Relaunch, At, TypeOK, ScriptStates
<1>2. job' \in [state : {"none", "queued", "running"}, at : 0..MaxTime] /\ job'.state = "none"
  BY NoJobTyped DEF Relaunch
<1>3. lost' \in [state : {"none", "queued", "running"}, at : 0..MaxTime,
                checked : 0..MaxTime, force : BOOLEAN, blind : BOOLEAN]
  BY DEF Relaunch, TypeOK, ScriptStates
<1>4. daemon' \in [code : Commits, deps : {Reqs[c] : c \in Commits}]
      /\ errors' \in BOOLEAN /\ halted' \in BOOLEAN
  BY DEF Relaunch, Boot, TypeOK
<1> QED BY <1>1, <1>2, <1>3, <1>4 DEF Relaunch, treeVars, TypeOK

\* Every step keeps the type of the state; that a rollback has a commit to go to is
\* part of TreeInv.
LEMMA TypeStep ==
  ASSUME TypeOK, TreeInv, [Next]_vars
  PROVE  TypeOK'
<1>1. CASE Begin
  <2>1. Up \in BOOLEAN
    BY DEF Up
  <2>2. script' \in ScriptStates
    <3>1. CASE script' = [Quiet EXCEPT !.pc = "back"]
      BY <3>1, QuietTyped DEF ScriptStates, Pcs
    <3>2. ASSUME NEW f \in BOOLEAN, NEW d \in BOOLEAN,
                 script' = [Quiet EXCEPT !.pc = "guard", !.force = f, !.dry = d, !.cameUp = Up]
          PROVE  script' \in ScriptStates
      BY <3>2, <2>1, QuietTyped DEF ScriptStates, Pcs
    <3> QED BY <1>1, <3>1, <3>2 DEF Begin
  <2>3. runs' \in 0..MaxRuns
    <3>1. runs < MaxRuns /\ runs' = runs + 1
      BY <1>1 DEF Begin
    <3> QED BY <3>1, DeployConstants DEF TypeOK
  <2> QED BY <1>1, <2>2, <2>3 DEF Begin, treeVars, jobVars, TypeOK
<1>2. CASE Guard
  <2>1. script' \in ScriptStates
    <3>1. CASE script' = [script EXCEPT !.pc = "refused"]
      BY <3>1 DEF TypeOK, ScriptStates, Pcs
    <3>2. CASE script' = [script EXCEPT !.pc = "record", !.checked = now]
      BY <3>2 DEF TypeOK, ScriptStates, Pcs
    <3>3. CASE script' = [script EXCEPT !.pc = "record", !.checked = now, !.blind = TRUE]
      BY <3>3 DEF TypeOK, ScriptStates, Pcs
    <3> QED BY <1>2, <3>1, <3>2, <3>3 DEF Guard, At
  <2> QED BY <1>2, <2>1 DEF Guard, Outside, jobVars, TypeOK
<1>3. CASE Record
  BY <1>3 DEF Record, Outside, jobVars, TypeOK, ScriptStates, Pcs
<1>4. CASE Fetch
  <2>1. script' \in ScriptStates
    <3>1. CASE script' = Quiet
      BY <3>1, QuietTyped
    <3>2. CASE script' = [script EXCEPT !.pc = IF head = origin THEN "sync" ELSE "pull",
                                        !.noChange = (head = origin)]
      <4>1. (head = origin) \in BOOLEAN /\ (IF head = origin THEN "sync" ELSE "pull") \in Pcs
        BY DEF Pcs
      <4> QED BY <3>2, <4>1 DEF TypeOK, ScriptStates
    <3> QED BY <1>4, <3>1, <3>2 DEF Fetch, Exit
  <2> QED BY <1>4, <2>1 DEF Fetch, Outside, jobVars, TypeOK
<1>5. CASE Pull
  <2>1. script' \in ScriptStates /\ head' \in Commits
    BY <1>5, QuietTyped DEF Pull, At, Exit, Outside, TypeOK, ScriptStates, Pcs
  <2> QED BY <1>5, <2>1 DEF Pull, Outside, jobVars, TypeOK
<1>6. CASE Pip
  <2>1. script' \in ScriptStates
    BY <1>6, QuietTyped DEF Pip, At, Exit, TypeOK, ScriptStates, Pcs
  <2>2. deps' \in {Reqs[c] : c \in Commits} /\ halted' \in BOOLEAN
    BY <1>6 DEF Pip, TypeOK
  <2> QED BY <1>6, <2>1, <2>2 DEF Pip, Outside, jobVars, TypeOK
<1>7. CASE Sync
  <2>1. script' \in ScriptStates
    BY <1>7, QuietTyped DEF Sync, Exit, TypeOK, ScriptStates, Pcs
  <2>2. unit' \in {Unit[c] : c \in Commits} /\ halted' \in BOOLEAN
    BY <1>7 DEF Sync, TypeOK, ScriptStates
  <2> QED BY <1>7, <2>1, <2>2 DEF Sync, Outside, jobVars, TypeOK
<1>8. CASE Decide
  BY <1>8 DEF Decide, At, Outside, jobVars, TypeOK, ScriptStates, Pcs
<1>9. CASE Restart
  <2>1. Relaunch("restart", "verify")
    BY <1>9 DEF Restart
  <2> QED BY <2>1, RelaunchTyped DEF Pcs
<1>10. CASE Verify
  BY <1>10 DEF Verify, At, Outside, jobVars, TypeOK, ScriptStates, Pcs
<1>11. CASE Reset
  <2>1. script' \in ScriptStates /\ head' \in Commits
    BY <1>11, QuietTyped DEF Reset, At, Exit, TypeOK, ScriptStates, Pcs
  <2> QED BY <1>11, <2>1 DEF Reset, Outside, jobVars, TypeOK
<1>12. CASE RestartOld
  <2>1. Relaunch("restartOld", "verifyOld")
    BY <1>12 DEF RestartOld
  <2> QED BY <2>1, RelaunchTyped DEF Pcs
<1>13. CASE VerifyOld
  BY <1>13 DEF VerifyOld, At, Outside, jobVars, TypeOK, ScriptStates, Pcs
<1>14. CASE GoBack
  <2>1. script' \in ScriptStates /\ head' \in Commits
    BY <1>14, QuietTyped DEF GoBack, Exit, TypeOK, ScriptStates, Pcs, TreeInv
  <2> QED BY <1>14, <2>1 DEF GoBack, Outside, jobVars, TypeOK
<1>15. CASE RestartBack
  <2>1. Relaunch("restartBack", "verifyBack")
    BY <1>15 DEF RestartBack
  <2> QED BY <2>1, RelaunchTyped DEF Pcs
<1>16. CASE VerifyBack
  BY <1>16 DEF VerifyBack, At, Outside, jobVars, TypeOK, ScriptStates, Pcs
<1>17. CASE Finish
  <2>1. script' \in ScriptStates
    BY <1>17, QuietTyped DEF Finish, Exit
  <2> QED BY <1>17, <2>1 DEF Finish, Outside, jobVars, TypeOK
<1>18. CASE Push
  <2>1. origin' \in Commits
    BY <1>18, DeployConstants DEF Push, TypeOK, Commits
  <2> QED BY <1>18, <2>1 DEF Push, jobVars, TypeOK
<1>19. CASE Pass
  BY <1>19, DeployConstants DEF Pass, treeVars, jobVars, TypeOK, ScriptStates, Pcs
<1>20. CASE Enqueue
  BY <1>20, DeployConstants DEF Enqueue, treeVars, TypeOK, ScriptStates, Pcs
<1>21. CASE StartJob
  BY <1>21 DEF StartJob, treeVars, TypeOK, ScriptStates, Pcs
<1>22. CASE EndJob
  <2>1. job' \in [state : {"none", "queued", "running"}, at : 0..MaxTime] /\ job'.state = "none"
    BY <1>22, NoJobTyped DEF EndJob
  <2> QED BY <1>22, <2>1 DEF EndJob, treeVars, TypeOK
<1>23. CASE Respawn
  <2>1. job' \in [state : {"none", "queued", "running"}, at : 0..MaxTime] /\ job'.state = "none"
    BY <1>23, NoJobTyped DEF Respawn
  <2>2. daemon' \in [code : Commits, deps : {Reqs[c] : c \in Commits}] /\ errors' \in BOOLEAN
    BY <1>23 DEF Respawn, Boot, TypeOK
  <2> QED BY <1>23, <2>1, <2>2 DEF Respawn, Boot, treeVars, TypeOK
<1>24. CASE LogError
  BY <1>24 DEF LogError, treeVars, jobVars, TypeOK
<1>25. CASE Fade
  BY <1>25 DEF Fade, treeVars, jobVars, TypeOK
<1>26. CASE UNCHANGED vars
  BY <1>26 DEF vars, treeVars, jobVars, TypeOK
<1> QED BY <1>1, <1>2, <1>3, <1>4, <1>5, <1>6, <1>7, <1>8, <1>9, <1>10, <1>11, <1>12, <1>13,
     <1>14, <1>15, <1>16, <1>17, <1>18, <1>19, <1>20, <1>21, <1>22, <1>23, <1>24, <1>25, <1>26
     DEF Next, Script

\* A step leaves tree and process in agreement, or a restart is still to come.
LEMMA TreeStep ==
  ASSUME TypeOK, TreeInv, BootInv, [Next]_vars
  PROVE  TreeInv'
<1>1. CASE Begin
  BY <1>1 DEF Begin, Quiet, treeVars, jobVars, TreeInv, BootInv, TypeOK, ScriptStates, Commits,
     Agree, Apart, Restarted
<1>2. CASE Guard
  BY <1>2 DEF Guard, At, Outside, jobVars, TreeInv, BootInv, TypeOK, ScriptStates, Commits,
     Agree, Apart, Restarted
<1>3. CASE Record
  BY <1>3 DEF Record, Outside, jobVars, TreeInv, BootInv, TypeOK, ScriptStates, Commits, Agree,
     Apart, Restarted
<1>4. CASE Fetch
  <2>1. CASE script' = Quiet
    BY <1>4, <2>1, QuietTyped DEF Fetch, Outside, jobVars, TreeInv, Agree, Apart
  <2>2. CASE script' = [script EXCEPT !.pc = IF head = origin THEN "sync" ELSE "pull",
                                      !.noChange = (head = origin)]
    <3>1. CASE head = origin
      <4>1. script'.pc = "sync" 
        BY <2>2, <3>1 DEF TypeOK, ScriptStates
      <4> QED BY <1>4, <4>1 DEF Fetch, Outside, jobVars, TreeInv, Agree, Apart
    <3>2. CASE head # origin
      <4>1. script'.pc = "pull" /\ script'.noChange = FALSE
        BY <2>2, <3>2 DEF TypeOK, ScriptStates
      <4> QED BY <1>4, <4>1 DEF Fetch, Outside, jobVars, TreeInv, Agree, Apart
    <3> QED BY <3>1, <3>2
  <2> QED BY <1>4, <2>1, <2>2 DEF Fetch, Exit
<1>5. CASE Pull
  BY <1>5 DEF Pull, At, Exit, Quiet, Outside, jobVars, TreeInv, BootInv, TypeOK, ScriptStates,
     Commits, Agree, Apart, Restarted
<1>6. CASE Pip
  BY <1>6 DEF Pip, At, Exit, Quiet, Outside, jobVars, TreeInv, BootInv, TypeOK, ScriptStates,
     Commits, Agree, Apart, Restarted
<1>7. CASE Sync
  \* If it fails after a pull the process has been left behind; if nothing was pulled it
  \* runs the tree as before.
  <2>1. CASE script' = [script EXCEPT !.pc = "decide", !.unitChanged = (unit # Unit[head])]
    BY <1>7, <2>1 DEF Sync, Exit, Quiet, Outside, jobVars, TreeInv, TypeOK, ScriptStates, Agree, Apart
  <2>2. CASE script' = Quiet /\ halted' = (halted \/ ~script.noChange)
    <3>1. script.pc = "sync" /\ UNCHANGED <<head, daemon>>
      BY <1>7 DEF Sync, Outside
    <3>2. Agree'
      BY <2>2, <3>1 DEF TreeInv, Agree
    <3> QED BY <2>2, <3>2, QuietTyped DEF TreeInv, Apart
  <2> QED BY <1>7, <2>1, <2>2 DEF Sync, Exit
<1>8. CASE Decide
  BY <1>8 DEF Decide, At, Outside, jobVars, TreeInv, BootInv, TypeOK, ScriptStates, Commits,
     Agree, Apart, Restarted
<1>9. CASE Restart
  BY <1>9 DEF Restart, At, Relaunch, Boot, NoJob, treeVars, TreeInv, BootInv, TypeOK,
     ScriptStates, Commits, Agree, Apart, Restarted
<1>10. CASE Verify
  BY <1>10 DEF Verify, At, Outside, jobVars, TreeInv, BootInv, TypeOK, ScriptStates, Commits,
     Agree, Apart, Restarted
<1>11. CASE Reset
  BY <1>11 DEF Reset, At, Exit, Quiet, Outside, jobVars, TreeInv, BootInv, TypeOK, ScriptStates, Commits,
     Agree, Apart, Restarted
<1>12. CASE RestartOld
  BY <1>12 DEF RestartOld, At, Relaunch, Boot, NoJob, treeVars, TreeInv, BootInv, TypeOK,
     ScriptStates, Commits, Agree, Apart, Restarted
<1>13. CASE VerifyOld
  BY <1>13 DEF VerifyOld, At, Outside, jobVars, TreeInv, BootInv, TypeOK, ScriptStates, Commits,
     Agree, Apart, Restarted
<1>14. CASE GoBack
  <2>1. CASE script' = Quiet /\ UNCHANGED head
    <3>1. script.pc = "back" /\ UNCHANGED <<daemon, halted>>
      BY <1>14 DEF GoBack
    <3> QED BY <2>1, <3>1, QuietTyped DEF TreeInv, Agree, Apart
  <2>2. CASE script' = [script EXCEPT !.pc = "restartBack", !.current = head]
    <3>1. script'.pc = "restartBack"
      BY <2>2 DEF TypeOK, ScriptStates
    <3> QED BY <1>14, <3>1 DEF TreeInv, Apart
  <2> QED BY <1>14, <2>1, <2>2 DEF GoBack, Exit
<1>15. CASE RestartBack
  BY <1>15 DEF RestartBack, At, Relaunch, Boot, NoJob, treeVars, TreeInv, BootInv, TypeOK,
     ScriptStates, Commits, Agree, Apart, Restarted
<1>16. CASE VerifyBack
  BY <1>16 DEF VerifyBack, At, Outside, jobVars, TreeInv, BootInv, TypeOK, ScriptStates,
     Commits, Agree, Apart, Restarted
<1>17. CASE Finish
  BY <1>17 DEF Finish, Exit, Quiet, Ended, Outside, jobVars, TreeInv, BootInv, TypeOK,
     ScriptStates, Commits, Agree, Apart, Restarted
<1>18. CASE Push
  BY <1>18 DEF Push, jobVars, TreeInv, BootInv, TypeOK, ScriptStates, Commits, Agree, Apart,
     Restarted
<1>19. CASE Pass
  BY <1>19 DEF Pass, treeVars, jobVars, TreeInv, BootInv, TypeOK, ScriptStates, Commits, Agree,
     Apart, Restarted
<1>20. CASE Enqueue
  BY <1>20 DEF Enqueue, treeVars, TreeInv, BootInv, TypeOK, ScriptStates, Commits, Agree, Apart,
     Restarted
<1>21. CASE StartJob
  BY <1>21 DEF StartJob, treeVars, TreeInv, BootInv, TypeOK, ScriptStates, Commits, Agree,
     Apart, Restarted
<1>22. CASE EndJob
  BY <1>22 DEF EndJob, NoJob, treeVars, TreeInv, BootInv, TypeOK, ScriptStates, Commits, Agree,
     Apart, Restarted
<1>23. CASE Respawn
  BY <1>23 DEF Respawn, Boot, NoJob, treeVars, TreeInv, BootInv, TypeOK, ScriptStates, Commits,
     Agree, Apart, Restarted
<1>24. CASE LogError
  BY <1>24 DEF LogError, Checking, treeVars, jobVars, TreeInv, BootInv, TypeOK, ScriptStates,
     Commits, Agree, Apart, Restarted
<1>25. CASE Fade
  BY <1>25 DEF Fade, Checking, treeVars, jobVars, TreeInv, BootInv, TypeOK, ScriptStates,
     Commits, Agree, Apart, Restarted
<1>26. CASE UNCHANGED vars
  BY <1>26 DEF vars, treeVars, jobVars, TreeInv, BootInv, TypeOK, Agree, Apart, Restarted
<1> QED BY <1>1, <1>2, <1>3, <1>4, <1>5, <1>6, <1>7, <1>8, <1>9, <1>10, <1>11, <1>12, <1>13,
     <1>14, <1>15, <1>16, <1>17, <1>18, <1>19, <1>20, <1>21, <1>22, <1>23, <1>24, <1>25, <1>26
     DEF Next, Script

\* A step after a restart leaves alone what the restart started from.
LEMMA BootStep ==
  ASSUME TypeOK, BootInv, [Next]_vars
  PROVE  BootInv'
<1>1. CASE Begin
  BY <1>1 DEF Begin, Quiet, treeVars, jobVars, BootInv, TypeOK, ScriptStates, Restarted, Up
<1>2. CASE Guard
  <2>1. script'.pc \in {"refused", "record"}
    BY <1>2 DEF Guard, At, TypeOK, ScriptStates
  <2> QED BY <1>2, <2>1 DEF Guard, Outside, jobVars, BootInv, Restarted
<1>3. CASE Record
  BY <1>3 DEF Record, Outside, jobVars, BootInv, TypeOK, ScriptStates, Restarted, Up
<1>4. CASE Fetch
  <2>1. CASE script' = Quiet
    BY <1>4, <2>1, QuietTyped DEF Fetch, Outside, jobVars, BootInv, Restarted
  <2>2. CASE script' = [script EXCEPT !.pc = IF head = origin THEN "sync" ELSE "pull",
                                      !.noChange = (head = origin)]
    <3>1. CASE head = origin
      <4>1. script'.pc = "sync" 
        BY <2>2, <3>1 DEF TypeOK, ScriptStates
      <4> QED BY <1>4, <4>1 DEF Fetch, Outside, jobVars, BootInv, Restarted
    <3>2. CASE head # origin
      <4>1. script'.pc = "pull" 
        BY <2>2, <3>2 DEF TypeOK, ScriptStates
      <4> QED BY <1>4, <4>1 DEF Fetch, Outside, jobVars, BootInv, Restarted
    <3> QED BY <3>1, <3>2
  <2> QED BY <1>4, <2>1, <2>2 DEF Fetch, Exit
<1>5. CASE Pull
  BY <1>5 DEF Pull, At, Exit, Quiet, Outside, jobVars, BootInv, TypeOK, ScriptStates, Restarted,
     Up
<1>6. CASE Pip
  BY <1>6 DEF Pip, At, Exit, Quiet, Outside, jobVars, BootInv, TypeOK, ScriptStates, Restarted,
     Up
<1>7. CASE Sync
  <2>1. CASE script' = Quiet
    BY <1>7, <2>1, QuietTyped DEF Sync, Outside, jobVars, BootInv, Restarted
  <2>2. CASE script' = [script EXCEPT !.pc = "decide", !.unitChanged = (unit # Unit[head])]
    <3>1. script'.pc = "decide"
      BY <2>2 DEF TypeOK, ScriptStates
    <3> QED BY <1>7, <3>1 DEF Sync, Outside, jobVars, BootInv, Restarted
  <2> QED BY <1>7, <2>1, <2>2 DEF Sync, Exit
<1>8. CASE Decide
  BY <1>8 DEF Decide, At, Outside, jobVars, BootInv, TypeOK, ScriptStates, Restarted, Up
<1>9. CASE Restart
  BY <1>9 DEF Restart, At, Relaunch, Boot, NoJob, treeVars, BootInv, TypeOK, ScriptStates,
     Restarted, Up
<1>10. CASE Verify
  BY <1>10 DEF Verify, At, Outside, jobVars, BootInv, TypeOK, ScriptStates, Restarted, Up
<1>11. CASE Reset
  BY <1>11 DEF Reset, At, Exit, Quiet, Outside, jobVars, BootInv, TypeOK, ScriptStates, Restarted, Up
<1>12. CASE RestartOld
  BY <1>12 DEF RestartOld, At, Relaunch, Boot, NoJob, treeVars, BootInv, TypeOK, ScriptStates,
     Restarted, Up
<1>13. CASE VerifyOld
  BY <1>13 DEF VerifyOld, At, Outside, jobVars, BootInv, TypeOK, ScriptStates, Restarted, Up
<1>14. CASE GoBack
  <2>1. CASE script' = Quiet
    BY <1>14, <2>1, QuietTyped DEF GoBack, Outside, jobVars, BootInv, Restarted
  <2>2. CASE script' = [script EXCEPT !.pc = "restartBack", !.current = head]
    <3>1. script'.pc = "restartBack"
      BY <2>2 DEF TypeOK, ScriptStates
    <3> QED BY <1>14, <3>1 DEF GoBack, Outside, jobVars, BootInv, Restarted
  <2> QED BY <1>14, <2>1, <2>2 DEF GoBack, Exit
<1>15. CASE RestartBack
  BY <1>15 DEF RestartBack, At, Relaunch, Boot, NoJob, treeVars, BootInv, TypeOK, ScriptStates,
     Restarted, Up
<1>16. CASE VerifyBack
  BY <1>16 DEF VerifyBack, At, Outside, jobVars, BootInv, TypeOK, ScriptStates, Restarted, Up
<1>17. CASE Finish
  BY <1>17 DEF Finish, Exit, Quiet, Ended, Outside, jobVars, BootInv, TypeOK, ScriptStates,
     Restarted, Up
<1>18. CASE Push
  BY <1>18 DEF Push, jobVars, BootInv, TypeOK, ScriptStates, Restarted, Up
<1>19. CASE Pass
  BY <1>19 DEF Pass, treeVars, jobVars, BootInv, TypeOK, ScriptStates, Restarted, Up
<1>20. CASE Enqueue
  BY <1>20 DEF Enqueue, treeVars, BootInv, TypeOK, ScriptStates, Restarted, Up
<1>21. CASE StartJob
  BY <1>21 DEF StartJob, treeVars, BootInv, TypeOK, ScriptStates, Restarted, Up
<1>22. CASE EndJob
  BY <1>22 DEF EndJob, NoJob, treeVars, BootInv, TypeOK, ScriptStates, Restarted, Up
<1>23. CASE Respawn
  BY <1>23 DEF Respawn, Boot, NoJob, treeVars, BootInv, TypeOK, ScriptStates, Restarted, Up
<1>24. CASE LogError
  BY <1>24 DEF LogError, Checking, treeVars, jobVars, BootInv, TypeOK, ScriptStates, Restarted,
     Up
<1>25. CASE Fade
  BY <1>25 DEF Fade, Checking, treeVars, jobVars, BootInv, TypeOK, ScriptStates, Restarted, Up
<1>26. CASE UNCHANGED vars
  BY <1>26 DEF vars, treeVars, jobVars, BootInv, TypeOK, Restarted, Up
<1> QED BY <1>1, <1>2, <1>3, <1>4, <1>5, <1>6, <1>7, <1>8, <1>9, <1>10, <1>11, <1>12, <1>13,
     <1>14, <1>15, <1>16, <1>17, <1>18, <1>19, <1>20, <1>21, <1>22, <1>23, <1>24, <1>25, <1>26
     DEF Next, Script

\* A job that runs was hidden from the guard, or started after it looked.
LEMMA GuardStep ==
  ASSUME TypeOK, GuardInv, [Next]_vars
  PROVE  GuardInv'
<1>1. CASE Begin
  <2>1. script'.checked = 0
    <3>1. CASE script' = [Quiet EXCEPT !.pc = "back"]
      BY <3>1, QuietTyped DEF ScriptStates
    <3>2. ASSUME NEW f \in BOOLEAN, NEW d \in BOOLEAN,
                 script' = [Quiet EXCEPT !.pc = "guard", !.force = f, !.dry = d, !.cameUp = Up]
          PROVE  script'.checked = 0
      BY <3>2, QuietTyped DEF ScriptStates
    <3> QED BY <1>1, <3>1, <3>2 DEF Begin
  <2>2. UNCHANGED <<now, job>> /\ now \in Nat /\ job.at >= 0
    <3>1. UNCHANGED <<now, job>>
      BY <1>1 DEF Begin, jobVars
    <3>2. now \in Nat /\ job.at >= 0
      BY DeployConstants DEF TypeOK
    <3> QED BY <3>1, <3>2
  <2> QED BY <2>1, <2>2 DEF GuardInv
<1>2. CASE Guard
  <2>1. CASE script' = [script EXCEPT !.pc = "refused"]
    BY <1>2, <2>1 DEF Guard, Outside, jobVars, GuardInv, TypeOK, ScriptStates
  <2>3. CASE script' = [script EXCEPT !.pc = "record", !.checked = now, !.blind = TRUE]
    <3>1. script'.checked = now /\ script'.blind = TRUE
      BY <2>3 DEF TypeOK, ScriptStates
    <3> QED BY <1>2, <3>1 DEF Guard, Outside, jobVars, GuardInv, TypeOK
  <2>2. CASE LooksBusy => script.force
    <3>1. CASE script' = [script EXCEPT !.pc = "record", !.checked = now]
      <4>1. script'.checked = now /\ script'.force = script.force /\ script'.blind = script.blind
        BY <3>1 DEF TypeOK, ScriptStates
      <4>2. ASSUME job.state = "running", ~script.force
            PROVE  job.at < now - GuardAge
        BY <2>2, <4>2, UnseenIsOld DEF TypeOK
      <4> QED BY <1>2, <4>1, <4>2 DEF Guard, Outside, jobVars, GuardInv, TypeOK
    <3> QED BY <1>2, <2>1, <2>3, <3>1 DEF Guard, At
  <2> QED BY <1>2, <2>1, <2>2, <2>3 DEF Guard, At
<1>3. CASE Record
  BY <1>3 DEF Record, Outside, jobVars, GuardInv, TypeOK, ScriptStates
<1>4. CASE Fetch
  <2>1. CASE script' = Quiet
    BY <1>4, <2>1, QuietTyped DEF Fetch, Outside, jobVars, GuardInv, TypeOK
  <2>2. CASE script' = [script EXCEPT !.pc = IF head = origin THEN "sync" ELSE "pull",
                                      !.noChange = (head = origin)]
    <3>1. CASE head = origin
      <4>1. script'.pc = "sync" /\ script'.checked = script.checked /\ script'.force = script.force
            /\ script'.blind = script.blind
        BY <2>2, <3>1 DEF TypeOK, ScriptStates
      <4> QED BY <1>4, <4>1 DEF Fetch, Outside, jobVars, GuardInv, TypeOK
    <3>2. CASE head # origin
      <4>1. script'.pc = "pull" /\ script'.checked = script.checked /\ script'.force = script.force
            /\ script'.blind = script.blind
        BY <2>2, <3>2 DEF TypeOK, ScriptStates
      <4> QED BY <1>4, <4>1 DEF Fetch, Outside, jobVars, GuardInv, TypeOK
    <3> QED BY <3>1, <3>2
  <2> QED BY <1>4, <2>1, <2>2 DEF Fetch, Exit
<1>5. CASE Pull
  BY <1>5 DEF Pull, At, Exit, Quiet, Outside, jobVars, GuardInv, TypeOK, ScriptStates
<1>6. CASE Pip
  BY <1>6 DEF Pip, At, Exit, Quiet, Outside, jobVars, GuardInv, TypeOK, ScriptStates
<1>7. CASE Sync
  <2>1. CASE script' = Quiet
    BY <1>7, <2>1, QuietTyped DEF Sync, Outside, jobVars, GuardInv, TypeOK
  <2>2. CASE script' = [script EXCEPT !.pc = "decide", !.unitChanged = (unit # Unit[head])]
    <3>1. script'.pc = "decide" /\ script'.checked = script.checked /\ script'.force = script.force
          /\ script'.blind = script.blind
      BY <2>2 DEF TypeOK, ScriptStates
    <3> QED BY <1>7, <3>1 DEF Sync, Outside, jobVars, GuardInv, TypeOK
  <2> QED BY <1>7, <2>1, <2>2 DEF Sync, Exit
<1>8. CASE Decide
  BY <1>8 DEF Decide, At, Outside, jobVars, GuardInv, TypeOK, ScriptStates
<1>9. CASE Restart
  BY <1>9 DEF Restart, At, Relaunch, Boot, NoJob, treeVars, GuardInv, TypeOK, ScriptStates
<1>10. CASE Verify
  BY <1>10 DEF Verify, At, Outside, jobVars, GuardInv, TypeOK, ScriptStates
<1>11. CASE Reset
  BY <1>11 DEF Reset, At, Exit, Quiet, Outside, jobVars, GuardInv, TypeOK, ScriptStates
<1>12. CASE RestartOld
  BY <1>12 DEF RestartOld, At, Relaunch, Boot, NoJob, treeVars, GuardInv, TypeOK, ScriptStates
<1>13. CASE VerifyOld
  BY <1>13 DEF VerifyOld, At, Outside, jobVars, GuardInv, TypeOK, ScriptStates
<1>14. CASE GoBack
  <2>1. CASE script' = Quiet
    BY <1>14, <2>1, QuietTyped DEF GoBack, Outside, jobVars, GuardInv, TypeOK
  <2>2. CASE script' = [script EXCEPT !.pc = "restartBack", !.current = head]
    <3>1. script'.pc = "restartBack" /\ script'.checked = script.checked /\ script'.force = script.force
          /\ script'.blind = script.blind
      BY <2>2 DEF TypeOK, ScriptStates
    <3> QED BY <1>14, <3>1 DEF GoBack, Outside, jobVars, GuardInv, TypeOK
  <2> QED BY <1>14, <2>1, <2>2 DEF GoBack, Exit
<1>15. CASE RestartBack
  BY <1>15 DEF RestartBack, At, Relaunch, Boot, NoJob, treeVars, GuardInv, TypeOK, ScriptStates
<1>16. CASE VerifyBack
  BY <1>16 DEF VerifyBack, At, Outside, jobVars, GuardInv, TypeOK, ScriptStates
<1>17. CASE Finish
  BY <1>17 DEF Finish, Exit, Quiet, Ended, Outside, jobVars, GuardInv, TypeOK, ScriptStates
<1>18. CASE Push
  BY <1>18 DEF Push, jobVars, GuardInv, TypeOK, ScriptStates
<1>19. CASE Pass
  BY <1>19 DEF Pass, treeVars, jobVars, GuardInv, TypeOK, ScriptStates
<1>20. CASE Enqueue
  BY <1>20 DEF Enqueue, treeVars, GuardInv, TypeOK, ScriptStates
<1>21. CASE StartJob
  BY <1>21 DEF StartJob, treeVars, GuardInv, TypeOK, ScriptStates
<1>22. CASE EndJob
  BY <1>22 DEF EndJob, NoJob, treeVars, GuardInv, TypeOK, ScriptStates
<1>23. CASE Respawn
  BY <1>23 DEF Respawn, Boot, NoJob, treeVars, GuardInv, TypeOK, ScriptStates
<1>24. CASE LogError
  BY <1>24 DEF LogError, Checking, treeVars, jobVars, GuardInv, TypeOK, ScriptStates
<1>25. CASE Fade
  BY <1>25 DEF Fade, Checking, treeVars, jobVars, GuardInv, TypeOK, ScriptStates
<1>26. CASE UNCHANGED vars
  BY <1>26 DEF vars, treeVars, jobVars, GuardInv, TypeOK
<1> QED BY <1>1, <1>2, <1>3, <1>4, <1>5, <1>6, <1>7, <1>8, <1>9, <1>10, <1>11, <1>12, <1>13,
     <1>14, <1>15, <1>16, <1>17, <1>18, <1>19, <1>20, <1>21, <1>22, <1>23, <1>24, <1>25, <1>26
     DEF Next, Script

\* Only the three restarts kill a job of the daemon.
LEMMA KillStep ==
  ASSUME TypeOK, GuardInv, OnlyUnseenJobsKilled, [Next]_vars
  PROVE  OnlyUnseenJobsKilled'
<1>1. ASSUME NEW pc, NEW to, Relaunch(pc, to)
      PROVE  OnlyUnseenJobsKilled'
  <2>1. CASE lost' = lost
    BY <2>1 DEF OnlyUnseenJobsKilled
  <2>2. CASE lost' = [state |-> job.state, at |-> job.at,
                      checked |-> script.checked, force |-> script.force, blind |-> script.blind]
    BY <2>2 DEF OnlyUnseenJobsKilled, GuardInv
  <2> QED BY <1>1, <2>1, <2>2 DEF Relaunch
<1>2. CASE Restart \/ RestartOld \/ RestartBack
  BY <1>1, <1>2 DEF Restart, RestartOld, RestartBack
<1>3. CASE lost' = lost
  BY <1>3 DEF OnlyUnseenJobsKilled
<1> QED BY <1>2, <1>3 DEF Next, Script, vars, Begin, Guard, Record, Fetch, Pull, Pip, Sync, Decide,
  Verify, Reset, VerifyOld, GoBack, VerifyBack, Finish, Push, Pass, Enqueue, StartJob, EndJob,
  Respawn, LogError, Fade

LEMMA InvInit == Init => Inv
<1> SUFFICES ASSUME Init PROVE Inv
  OBVIOUS
<1>1. 1 \in Commits /\ 0 \in 0..MaxTime /\ 0 \in 0..MaxRuns /\ 0 \in 0..MaxJobs
  BY DeployConstants DEF Commits
<1>2. NotLost \in [state : {"none", "queued", "running"}, at : 0..MaxTime,
                  checked : 0..MaxTime, force : BOOLEAN, blind : BOOLEAN] /\ NotLost.state = "none"
  BY <1>1 DEF NotLost
<1>3. TypeOK
  BY <1>1, <1>2, QuietTyped, NoJobTyped DEF Init, TypeOK
<1>4. TreeInv /\ BootInv
  BY QuietTyped DEF Init, TreeInv, BootInv, Agree, Restarted
<1>5. GuardInv /\ OnlyUnseenJobsKilled
  BY <1>2, QuietTyped, NoJobTyped DEF Init, GuardInv, OnlyUnseenJobsKilled
<1> QED BY <1>3, <1>4, <1>5 DEF Inv

\* The invariant of the script, the daemon and its job together.
THEOREM DeployDiscipline == Spec => []Inv
<1>1. Inv /\ [Next]_vars => Inv'
  BY TypeStep, TreeStep, BootStep, GuardStep, KillStep DEF Inv
<1> QED BY InvInit, <1>1, PTL DEF Spec

-----------------------------------------------------------------------------
\* Commits, requirements, times and labels stay in their sets.
THEOREM TypeCorrect == Spec => []TypeOK
<1>1. Inv => TypeOK
  BY DEF Inv
<1> QED BY DeployDiscipline, <1>1, PTL

\* Between invocations the process runs the commit that is checked out, unless pip or the
\* sync ended a script after its pull since the process started (update.sh:204-269).
THEOREM TreeAndProcessAgree == Spec => []NoHalfDeploy
<1>1. Inv => NoHalfDeploy
  BY DEF Inv, TreeInv, NoHalfDeploy, Agree, Apart
<1> QED BY DeployDiscipline, <1>1, PTL

\* UPDATE OK is only printed over a process that runs the tree and is up
\* (update.sh:84-124, 353).
THEOREM SuccessIsTrue == Spec => []OkMeansRunning
<1>1. Inv => OkMeansRunning
  BY DEF Inv, BootInv, OkMeansRunning, Restarted
<1> QED BY DeployDiscipline, <1>1, PTL

\* A failed update ends on the commit it began with, in the tree and in the process
\* (update.sh:367-377).
THEOREM FailureRestores == Spec => []FailedUpdateRestores
<1>1. Inv => FailedUpdateRestores
  BY DEF Inv, BootInv, FailedUpdateRestores, Restarted
<1> QED BY DeployDiscipline, <1>1, PTL

\* Without --force an update whose guard could ask the ledger kills no job that was there
\* to be seen, for every length of a day and every age limit (update.sh:60-72, 157-170).
THEOREM GuardProtects == Spec => []OnlyUnseenJobsKilled
<1>1. Inv => OnlyUnseenJobsKilled
  BY DEF Inv
<1> QED BY DeployDiscipline, <1>1, PTL

-----------------------------------------------------------------------------
(***************************************************************************)
(* When the rollback does what the document says.  RollbackComesUp does not *)
(* hold in general: the virtual environment is not rolled back, the health  *)
(* check sees the errors of the version before, and after a sync that ended *)
(* a script the next invocation takes the tree, which no process has run,   *)
(* for the version to return to.  Without these three it holds, whatever    *)
(* else fails, respawns or comes in between.                                *)
(***************************************************************************)

SameReqs == \A c \in Commits : Reqs[c] = Reqs[1]
Silent == Noisy = {} /\ "errors" \notin Faults
Synced == "sync" \notin Faults

\* The commit comes up with the one set of requirements there is.
ComesUp(c) == <<c, Reqs[1]>> \in Works

\* An update that has recorded the commit it found.
Begun == {"fetch", "pull", "pip", "sync", "decide", "restart", "verify", "reset", "restartOld",
          "verifyOld", "noop", "ok", "rolledBack", "down"}

\* What the invocation found, it carries to the end: a daemon that was up is one whose
\* commit comes up, first as the tree's, then as the recorded one.
CarriedInv ==
  /\ ~halted /\ ~errors
  /\ script.cameUp /\ script.pc \in {"guard", "record"} => ComesUp(head)
  /\ script.cameUp /\ script.pc \in Begun => ComesUp(script.current)
  /\ RollbackComesUp

LEMMA CarriedStep ==
  ASSUME SameReqs, Silent, Synced, Inv, CarriedInv, [Next]_vars
  PROVE  CarriedInv'
<1> USE DEF At, Outside, treeVars, jobVars
<1>0. /\ script \in ScriptStates /\ deps = Reqs[1] /\ daemon.deps = Reqs[1]
      /\ "errors" \notin Faults /\ Noisy = {} /\ "sync" \notin Faults
  BY DEF Inv, TypeOK, SameReqs, Silent, Synced
\* A step that leaves the tree alone, and the verdict of the invocation.
<1>1. ASSUME ~halted', ~errors', head' = head, script'.cameUp = script.cameUp,
             script'.current = script.current, script'.pc # "down" \/ script.pc = "down",
             script'.pc \in {"guard", "record"} => script.pc \in {"guard", "record"},
             script'.pc \in Begun => script.pc \in Begun
      PROVE  CarriedInv'
  BY <1>1 DEF CarriedInv, ComesUp, RollbackComesUp
<1>2. CASE Begin
  <2>1. script.pc = "idle" /\ daemon.code = head
    BY <1>2 DEF Begin, Inv, TreeInv, Apart, Agree, CarriedInv
  <2>2. CASE \E f, d \in BOOLEAN : script' = [Quiet EXCEPT !.pc = "guard", !.force = f, !.dry = d,
                                                         !.cameUp = Up]
    <3>1. script'.pc = "guard" /\ script'.cameUp = Up
      BY <2>2 DEF Quiet
    <3>2. Up => ComesUp(head)
      BY <1>0, <2>1 DEF Up, ComesUp
    <3> QED BY <1>2, <3>1, <3>2 DEF Begin, CarriedInv, ComesUp, RollbackComesUp, Begun
  <2>3. CASE script' = [Quiet EXCEPT !.pc = "back"]
    BY <1>2, <2>3 DEF Begin, Quiet, CarriedInv, RollbackComesUp, Begun
  <2> QED BY <1>2, <2>2, <2>3 DEF Begin
<1>3. CASE Record
  <2>1. script'.pc = "fetch" /\ script'.current = head /\ script'.cameUp = script.cameUp
    BY <1>0, <1>3 DEF Record, ScriptStates
  <2> QED BY <1>3, <2>1 DEF Record, CarriedInv, ComesUp, RollbackComesUp
\* The script ends: whatever was carried is let go.
<1>4. ASSUME script' = Quiet, ~halted', ~errors' PROVE CarriedInv'
  BY <1>4 DEF Quiet, CarriedInv, RollbackComesUp, Begun
<1>5. CASE Guard
  <2>1. /\ script'.cameUp = script.cameUp /\ script'.current = script.current
        /\ script.pc = "guard" /\ script'.pc \in {"record", "refused"}
    BY <1>0, <1>5 DEF Guard, ScriptStates
  <2> QED BY <1>1, <1>5, <2>1 DEF Guard, CarriedInv, Begun
<1>6. CASE Fetch
  <2>1. CASE script' = Quiet
    BY <1>4, <1>6, <2>1 DEF Fetch, CarriedInv
  <2>2. CASE script' = [script EXCEPT !.pc = IF head = origin THEN "sync" ELSE "pull",
                                      !.noChange = (head = origin)]
    <3>1. /\ script'.cameUp = script.cameUp /\ script'.current = script.current
          /\ script.pc = "fetch" /\ script'.pc \in {"sync", "pull"}
      BY <1>0, <1>6, <2>2 DEF Fetch, ScriptStates
    <3> QED BY <1>1, <1>6, <3>1 DEF Fetch, CarriedInv, Begun
  <2> QED BY <1>6, <2>1, <2>2 DEF Fetch, Exit
<1>7. CASE Pull
  <2>1. CASE script' = Quiet
    BY <1>4, <1>7, <2>1 DEF Pull, CarriedInv
  <2>2. CASE At("pull", "pip")
    <3>1. /\ script'.cameUp = script.cameUp /\ script'.current = script.current
          /\ script.pc = "pull" /\ script'.pc = "pip"
      BY <1>0, <2>2 DEF ScriptStates
    <3> QED BY <1>7, <3>1 DEF Pull, CarriedInv, ComesUp, RollbackComesUp, Begun
  <2> QED BY <1>7, <2>1, <2>2 DEF Pull, Exit
\* No requirements changed, so pip has nothing to fail at.
<1>8. CASE Pip
  <2>1. Reqs[head] = Reqs[script.current]
    BY <1>0 DEF Inv, TypeOK, SameReqs, ScriptStates
  <2>2. At("pip", "sync") /\ UNCHANGED halted
    BY <1>8, <2>1 DEF Pip
  <2>3. /\ script'.cameUp = script.cameUp /\ script'.current = script.current
        /\ script.pc = "pip" /\ script'.pc = "sync"
    BY <1>0, <2>2 DEF ScriptStates
  <2> QED BY <1>1, <1>8, <2>2, <2>3 DEF Pip, CarriedInv, Begun
<1>9. CASE Sync \/ Decide \/ Verify
  <2>1. /\ script'.cameUp = script.cameUp /\ script'.current = script.current
        /\ script.pc \in Begun /\ script'.pc \notin {"down", "guard", "record"}
    BY <1>0, <1>9 DEF Sync, Decide, Verify, ScriptStates, Begun
  <2>2. ~halted' /\ ~errors' /\ head' = head
    BY <1>0, <1>9 DEF Sync, Decide, Verify, CarriedInv
  <2> QED BY <1>1, <2>1, <2>2
<1>10. CASE Restart \/ RestartOld \/ RestartBack
  <2>1. /\ script'.cameUp = script.cameUp /\ script'.current = script.current
        /\ \/ script.pc \in {"restart", "restartOld"} /\ script'.pc \in {"verify", "verifyOld"}
           \/ script.pc = "restartBack" /\ script'.pc = "verifyBack"
    BY <1>0, <1>10 DEF Restart, RestartOld, RestartBack, Relaunch, ScriptStates
  <2>2. ~halted' /\ ~errors' /\ head' = head
    BY <1>0, <1>10 DEF Restart, RestartOld, RestartBack, Relaunch, Boot, CarriedInv
  <2> QED BY <1>1, <2>1, <2>2 DEF Begun
<1>11. CASE Reset
  <2>1. CASE script' = Quiet
    BY <1>4, <1>11, <2>1 DEF Reset, CarriedInv
  <2>2. CASE At("reset", "restartOld")
    <3>1. /\ script'.cameUp = script.cameUp /\ script'.current = script.current
          /\ script.pc = "reset" /\ script'.pc = "restartOld"
      BY <1>0, <2>2 DEF ScriptStates
    <3> QED BY <1>11, <3>1 DEF Reset, CarriedInv, ComesUp, RollbackComesUp, Begun
  <2> QED BY <1>11, <2>1, <2>2 DEF Reset, Exit
\* The check of the old version: it runs what the invocation found, and that comes up.
<1>12. CASE VerifyOld
  <2>1. /\ script'.cameUp = script.cameUp /\ script'.current = script.current
        /\ script.pc = "verifyOld"
        /\ script'.pc = IF Up /\ ~errors THEN "rolledBack" ELSE "down"
    BY <1>0, <1>12 DEF VerifyOld, ScriptStates
  <2>2. daemon.code = script.current
    BY <2>1 DEF Inv, BootInv, Restarted
  <2>3. script.cameUp => Up /\ ~errors
    BY <1>0, <2>1, <2>2 DEF CarriedInv, Begun, Up, ComesUp
  <2> QED BY <1>12, <2>1, <2>3 DEF VerifyOld, CarriedInv, ComesUp, RollbackComesUp, Begun
<1>13. CASE GoBack \/ VerifyBack
  <2>1. CASE script' = Quiet
    BY <1>4, <1>13, <2>1 DEF GoBack, VerifyBack, CarriedInv
  <2>2. CASE script'.pc \in {"restartBack", "wentBack"}
    BY <1>13, <2>2 DEF GoBack, VerifyBack, CarriedInv, RollbackComesUp, Begun
  <2> QED BY <1>0, <1>13, <2>1, <2>2 DEF GoBack, VerifyBack, Exit, ScriptStates
<1>14. CASE Finish
  BY <1>4, <1>14 DEF Finish, Exit, CarriedInv
<1>15. CASE Push \/ Pass \/ Enqueue \/ StartJob \/ EndJob \/ Fade \/ UNCHANGED vars
  BY <1>15 DEF Push, Pass, Enqueue, StartJob, EndJob, Fade, vars, CarriedInv, ComesUp,
               RollbackComesUp
<1>16. CASE Respawn
  BY <1>0, <1>16 DEF Respawn, Boot, CarriedInv, ComesUp, RollbackComesUp
<1>17. CASE LogError
  BY <1>0, <1>17 DEF LogError
<1> QED BY <1>2, <1>3, <1>5, <1>6, <1>7, <1>8, <1>9, <1>10, <1>11, <1>12, <1>13, <1>14, <1>15,
     <1>16, <1>17 DEF Next, Script

\* If no commit changes the requirements, none logs an ERROR line and the sync does not
\* fail, an update that fails brings back a daemon that was up before (update.sh:367-377),
\* as docs/SCHEDULING.md:220-224 says of every update.
THEOREM RollbackSucceeds ==
  ASSUME SameReqs, Silent, Synced
  PROVE  Spec => []RollbackComesUp
<1>1. Init => CarriedInv
  BY QuietTyped DEF Init, CarriedInv, RollbackComesUp, Begun
<1>2. Inv /\ CarriedInv /\ [Next]_vars => CarriedInv'
  BY CarriedStep
<1>3. CarriedInv => RollbackComesUp
  BY DEF CarriedInv
<1> QED BY <1>1, <1>2, <1>3, DeployDiscipline, PTL DEF Spec
=============================================================================
