SPECIFICATION FairSpec
CONSTANTS
  black = black
  white = white
  cell1 = cell1
  cell2 = cell2
  cell3 = cell3
  Black = black
  White = white
  Cells = {cell1, cell2}
  None = None
  MaxGames = 2
  MaxSends = 2
  MaxFaults = 2
  MaxUndos = 1
  Window = 2
INVARIANTS
  ViewsArePast
PROPERTIES
  ImplementsLedger
  PlayersRecover
\* Nobody has to move, and the last game of the bound ends the run.
CHECK_DEADLOCK FALSE
