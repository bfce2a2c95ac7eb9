SPECIFICATION TmatchSpec
CONSTANTS
  c1 = c1
  c2 = c2
  c3 = c3
  c4 = c4
  c5 = c5
  c6 = c6
  First = First
  Second = Second
  None = None
  Cells <- MCFewCells
  Portals = {}
  Partner <- Nothing
  Axes = {}
  Beside <- Nothing
  Rule = "freestyle"
  InARow = 5
  Swap2 = FALSE
  HasWalls = FALSE
  FirstZone = {}
  FarApart = {}
  Mode = "per_game"
  Seconds = 2
  Increment = 0
  Bonus = 1
  FreeRequests = 1
  Rated = FALSE
  MaxSeconds = 3
PROPERTY OnlyTheMoverIsCharged
\* A game that is over accepts nothing more.
CHECK_DEADLOCK FALSE
