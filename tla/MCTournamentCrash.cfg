SPECIFICATION TournamentSpec
CONSTANTS
  Nobody = Nobody
  Draw = Draw
  Pending = Pending
  NewLife <- FreshLife
  SettledLife <- ClosedLife
  MaxEntries = 4
  MaxPlayers = 4
  MaxUpsets = 0
  NoShowCap = 2
  MaxDraws = 0
  Fields <- MCFieldOfFour
  RuleSets <- MCSingle
  CrashFormats <- MCBrackets
INVARIANT CrashesHeal
\* A tournament that is completed or cancelled is over.
CHECK_DEADLOCK FALSE
