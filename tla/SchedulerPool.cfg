CONSTANTS
  m1 = m1  m2 = m2  early = early  lock = lock  w1 = w1  w2 = w2  None = None
  Matches = {m1, m2}
  Windows = {lock}
  Workers = {w1, w2}
  Lead <- MCLeadLock
  Published <- TwoMatches
  Horizon = 4
  CatchUp = 1
  StuckAge = 1
  IngestEvery = 2
  MaxTime = 4
  MaxCrashes = 1
  MaxAttempts = 2
  Faults = {"start", "finish", "render", "channels", "ingest"}
SPECIFICATION Spec
INVARIANTS TypeOK LedgerTruthful AtMostOnce NothingOverlooked
PROPERTY KeepsPromise
SYMMETRY WorkerSymmetry
