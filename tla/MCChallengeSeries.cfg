SPECIFICATION Spec
CONSTANTS
  Ann = Ann
  Bob = Bob
  Eve = Eve
  None = None
  Totals = {1, 3}
  MaxGames = 3
INVARIANTS
  EveryResultIsRatedOnce
