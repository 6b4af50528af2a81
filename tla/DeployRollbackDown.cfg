CONSTANTS
  Last = 2
  Reqs <- MCReqs2
  Unit <- OneUnit
  Works <- MCWorks2
  Noisy = {}
  GuardAge = 1
  DayLen = 2
  MaxTime = 0
  MaxJobs = 0
  MaxRuns = 1
  Faults = {}
SPECIFICATION Spec
INVARIANT RollbackComesUp
CHECK_DEADLOCK FALSE
