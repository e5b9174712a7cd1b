SPECIFICATION FairSpec
CONSTANTS
  None = None
  Proc = {proc1, proc2}
  FileExists = TRUE
  MaxRuns = 4
  MaxFaults = 2
INVARIANTS MutualExclusion LockInfoHonest NoUpdateLost
PROPERTIES WaiterServed
CHECK_DEADLOCK FALSE
