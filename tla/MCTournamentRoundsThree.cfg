SPECIFICATION Spec
CONSTANTS
  Nobody = Nobody
  Draw = Draw
  Pending = Pending
  NewLife = NewLife
  SettledLife = SettledLife
  MaxEntries = 3
  MaxPlayers = 3
  MaxUpsets = 0
  NoShowCap = 2
  Fields <- MCThreePlayers
INVARIANT ByesResolveAutomatically
\* A tournament that is completed or cancelled is over.
CHECK_DEADLOCK FALSE
