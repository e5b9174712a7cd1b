CONSTANTS
  Key = {1, 2}
  Configs <- MCConfigs
  Parallelism = 2
SPECIFICATION Spec
INVARIANTS
  NoPanic
  PassIsProven
  ModuleClosedLast
  AppliedChecksAnswered
PROPERTY
  WalkEnds
CHECK_DEADLOCK FALSE
