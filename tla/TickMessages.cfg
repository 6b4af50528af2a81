CONSTANTS
  m1 = m1  m2 = m2  None = None
  Matches = {m1, m2}
  Calendars <- MCCalendars
  Delay = 1
  CatchUp = 2
  DayLen = 3
  Hour = 1
  MaxTime = 6
  MaxCrashes = 1
  Faults = {"read", "start", "finish", "matches", "results", "standings", "leaderboard", "budget", "picks", "lineups", "rows", "send"}
SPECIFICATION Spec
INVARIANTS TypeOK MarkedWasSent TickServesAll
PROPERTY KeepsPromise
