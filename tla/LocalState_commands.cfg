SPECIFICATION Spec
CONSTANTS
  ra = ra  rb = rb
  Res = {ra, rb}
  Nil = Nil
  Torn = Torn
  InitialDisk <- Mixed
  Pushes <- Pushable
  Interrupts = TRUE
  MaxRuns = 2
  MaxChanges = 2
  MaxFaults = 2
INVARIANTS  ReportsOverSnapshotPersisted OneFailureKept
PROPERTIES OnlyLaterReplaces
CHECK_DEADLOCK FALSE
