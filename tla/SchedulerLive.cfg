CONSTANTS
  m1 = m1  m2 = m2  early = early  lock = lock  w1 = w1  w2 = w2  None = None
  Matches = {m1}
  Windows = {early, lock}
  Workers = {w1, w2}
  Lead <- MCLead
  Published <- OneMatch
  Horizon = 4
  CatchUp = 2
  StuckAge = 1
  IngestEvery = 9
  MaxTime = 2
  MaxCrashes = 1
  MaxAttempts = 1
  Faults = {"open", "hang", "tick"}
SPECIFICATION OpenedFairSpec
INVARIANT AccountedFor
PROPERTIES DispatchedIsRecorded StuckIsReported
