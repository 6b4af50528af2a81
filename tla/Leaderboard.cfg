CONSTANTS
  me = me  p = p  t1 = t1  t2 = t2
  Players = {me, p}
  Me = me
  Bets = {b}  NoBet = NoBet
  NegevPays = 2
  LocalPays = 2
  MaxVersion = 3
  MaxScored = 2
  MaxFaults = 2
  Threads = {t1, t2}
  Margin = 2
  MaxWait = 1
  Life = 3
  Fallback = TRUE
  Categories = {"winner"}
  Options <- MCOptions
  OptionKey <- MCOptionKey
  ChoiceKey <- MCChoiceKey
  Choices <- MCChoices
  SideBets = {"sb"}
  None = None
  Deadline = 3
  MaxOps = 2
  Kinds <- MCKinds
SPECIFICATION MCSpec
INVARIANTS TypeOK CopyFaithful AlertedOnce
PROPERTIES MyRowStays EventuallyMirrored SentWithLiveToken
CHECK_DEADLOCK FALSE
