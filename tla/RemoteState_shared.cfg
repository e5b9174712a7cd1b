SPECIFICATION Spec
CONSTANTS
  None = None
  Proc = {proc1, proc2}
  InitialRemote <- Anything
  Migrated <- Incoming
  MaxUpdates = 3
  MaxRuns = 3
  MaxFaults = 2
INVARIANTS NoUpdateLost PersistedOverSnapshot
PROPERTIES HistoryKept
CHECK_DEADLOCK FALSE
