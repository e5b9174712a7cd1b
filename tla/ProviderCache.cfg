CONSTANTS
  None = None
  Dir = {dirA, dirB}
  Sources <- Both
  Found <- Some
  Pins <- FirstPins
  MayBreak = FALSE
  MaxRuns = 2
  MaxKills = 1
SPECIFICATION Spec
INVARIANTS
  InstalledAsPinned
  StaysInstalled
PROPERTIES
  InitEnds
CHECK_DEADLOCK FALSE
