CONSTANTS
  Last = 3
  Reqs <- MCReqs
  Unit <- MCUnit
  Works <- MCWorks
  Noisy <- MCNoisy
  GuardAge = 1
  DayLen = 2
  MaxTime = 3
  MaxJobs = 2
  MaxRuns = 3
  Faults = {"dirty", "query", "fetch", "pull", "pip", "sync", "reset", "respawn", "errors"}
SPECIFICATION Spec
INVARIANTS TypeOK NoHalfDeploy OkMeansRunning FailedUpdateRestores OnlyUnseenJobsKilled
CHECK_DEADLOCK FALSE
