SPECIFICATION FairMatchSpec
CONSTANTS
  c1 = c1
  c2 = c2
  c3 = c3
  c4 = c4
  c5 = c5
  c6 = c6
  c7 = c7
  top = top
  bottom = bottom
  First = First
  Second = Second
  None = None
  Cells <- MCPlainCells
  Portals <- MCPlainPortals
  Partner <- MCPlainPartner
  Axes <- MCPlainAxes
  Beside <- MCPlainBeside
  Rule = "caro"
  InARow = 3
  Swap2 = FALSE
  HasWalls = TRUE
  FirstZone <- MCZone
  FarApart <- MCFar
  Mode = "per_move"
  Seconds = 2
  Increment = 0
  Bonus = 1
  FreeRequests = 1
  Rated = FALSE
  MaxSeconds = 3
INVARIANTS
  OutcomeMatchesBoard
PROPERTIES
  FullClockPerMove
  WallRulesSurviveUndo
  GameIsDecided
\* A game that is over accepts nothing more.
CHECK_DEADLOCK FALSE
