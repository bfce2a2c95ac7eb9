SPECIFICATION FairTournamentSpec
CONSTANTS
  Nobody = Nobody
  Draw = Draw
  Pending = Pending
  NewLife <- FreshLife
  SettledLife <- ClosedLife
  MaxEntries = 3
  MaxPlayers = 3
  MaxUpsets = 1
  MaxDraws = 2
  NoShowCap = 1
  Fields <- MCFields
  RuleSets <- MCRuleSets
  CrashFormats <- MCCrashFormats
INVARIANTS
  PairingsAreTimed
  OpenSeriesAreUndecided
PROPERTIES
  ImplementsRounds
  TournamentsEnd
\* A tournament that is completed or cancelled is over.
CHECK_DEADLOCK FALSE
