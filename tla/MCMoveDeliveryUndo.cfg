SPECIFICATION Spec
CONSTANTS
  black = black
  white = white
  cell1 = cell1
  cell2 = cell2
  cell3 = cell3
  Black = black
  White = white
  Cells = {cell1, cell2, cell3}
  None = None
  MaxGames = 1
  MaxSends = 4
  MaxFaults = 1
  MaxUndos = 1
  Window = 2
PROPERTIES
  DeltasFit
\* Nobody has to move, and the last game of the bound ends the run.
CHECK_DEADLOCK FALSE
