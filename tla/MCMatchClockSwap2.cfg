SPECIFICATION MatchSpec
CONSTANTS
  c1 = c1
  c2 = c2
  c3 = c3
  c4 = c4
  c5 = c5
  c6 = c6
  c7 = c7
  top = top
  bottom = bottom
  First = First
  Second = Second
  None = None
  Cells <- MCSwap2Cells
  Portals = {}
  Partner <- Nothing
  Axes = {}
  Beside <- Nothing
  Rule = "freestyle"
  InARow = 5
  Swap2 = TRUE
  HasWalls = FALSE
  FirstZone = {}
  FarApart = {}
  Mode = "blitz"
  Seconds = 2
  Increment = 1
  Bonus = 1
  FreeRequests = 1
  Rated = FALSE
  MaxSeconds = 3
SYMMETRY MCCellSymmetry
INVARIANTS
  TurnFollowsStones
  SnapshotsSound
  UndoRequestApplies
  ClockOnMover
PROPERTIES
  TimeIsSpentOnTurn
\* A game that is over accepts nothing more.
CHECK_DEADLOCK FALSE
