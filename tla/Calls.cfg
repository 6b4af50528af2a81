CONSTANTS
  Threads = {a, b}
  Chain = 2
  Keyed = {1, 2}
  Limit <- MCLimit
  Per <- MCPer
  Budget <- MCBudget
  Timeout = 1
  Answering = 1
  PeriodStarts = {2}
  Horizon = 1
  MaxTime = 5
SPECIFICATION Spec
INVARIANTS TypeOK EveryWindowBounded OvershootBounded CallsWithinBudget AuditComplete
PROPERTIES CompletionsEnd
CHECK_DEADLOCK FALSE
