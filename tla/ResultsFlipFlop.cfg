CONSTANTS
  g = g  k = k  None = None
  Matches <- MCMatches
  Pair <- MCPair
  Detonators = {"AB"}
  Stage <- MCStage
  Final <- MCFinal
  Pens <- MCPens
  Partial <- MCPartial
  Pick <- MCPick
  Odds <- MCOdds
  Base <- MCBase
  Grid <- MCGrid
  Cap <- MCCap
  Faults = {"tag", "score"}
SPECIFICATION Spec
PROPERTY NoFlipFlop
