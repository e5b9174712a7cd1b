SPECIFICATION Spec
CONSTANTS
  a = a
  b = b
  c = c
  Resource <- ThreeResources
  Key = {1, 2}
  Conditioned <- OnlyA
  Configs <- ChainConfigs
  MaxRounds = 3
  MaxLost = 1
INVARIANTS EveryObjectRecorded  CycleOnlyFromConflict
PROPERTIES UsersGoFirst
