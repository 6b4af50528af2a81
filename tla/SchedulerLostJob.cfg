CONSTANTS
  m1 = m1  m2 = m2  early = early  lock = lock  w1 = w1  w2 = w2  None = None
  Matches = {m1}
  Windows = {lock}
  Workers = {w1}
  Lead <- MCLeadLock
  Published <- OneMatch
  Horizon = 4
  CatchUp = 2
  StuckAge = 1
  IngestEvery = 9
  MaxTime = 3
  MaxCrashes = 0
  MaxAttempts = 1
  Faults = {"start"}
SPECIFICATION Spec
INVARIANT AccountedFor
