SPECIFICATION Spec
CONSTANTS
  me = me
  pal = pal
  None = None
  NotListed = NotListed
  NaN = NaN
  Junk = Junk
  Huge = Huge
  NonDict = NonDict
  MaxGoals = 3
  TopK = 4
  Pmf <- MCPmf
  NeutralGoals <- MCNeutral
  Clamp = 150
  OddsBudget = 6
  Units = 2
  DailyLimit = 2
  Brake = 3
  DayBudget = 4
  InjuriesTTL = 1
  Listings <- MCListings
  Prefer <- MCPrefer
  MaxFaults = 1
  Windows = {"T60", "T15", "T7"}
  Fired <- MCFired
  Lead <- MCLead
  Order <- MCOrder
  Kickoff = 4
  CatchUp = 1
  MaxTime = 3
  OddsWindows = {"T60", "T7"}
  SearchWindows = {"T60", "T15"}
  LineupWindows = {"T60", "T15"}
  ReuseWindows = {"T15", "T7"}
  Primary = "T60"
  ReuseAge = 1
  Quota <- MCQuota
  MaxQueries = 6
  Variants = 1
  Texts <- MCTexts
  Settings <- MCSettings
  Standings <- MCStandings
  FitGoals <- MCFit
  RatedHome = 64
  FlatHome = 58
  People <- MCPeople
  Operator <- MCOperator
  GlobalTilt = 5
  Overrides <- MCOverrides
INVARIANTS TypeOK HonestAudit SpendingBounded SettledAsOptimised StrongFavouriteKept RiskOrdered
CHECK_DEADLOCK FALSE
