SPECIFICATION Spec
CONSTANTS
  Nobody = Nobody
  Draw = Draw
  Pending = Pending
  NewLife = NewLife
  SettledLife = SettledLife
  MaxEntries = 5
  MaxPlayers = 5
  MaxUpsets = 2
  NoShowCap = 2
  Fields <- MCFields
INVARIANTS
  RoundsAreFair
  ActiveHasAMatch
  EveryDecisionCountsOnce
  TwoLossesEliminate
  RanksAreAPodium
PROPERTY ResultsAreFinal
\* A tournament that is completed or cancelled is over.
CHECK_DEADLOCK FALSE
