SPECIFICATION Spec
CONSTANTS
  Groups <- MCGroups
  Kept = 2
  Draws <- MCDraws
INVARIANT EveryoneDrawnOnce
CHECK_DEADLOCK FALSE
