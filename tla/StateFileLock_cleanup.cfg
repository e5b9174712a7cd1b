SPECIFICATION Spec
CONSTANTS
  None = None
  Proc = {proc1}
  FileExists = FALSE
  MaxRuns = 4
  MaxFaults = 2
PROPERTIES CleansUpOnlyEmptyFile
CHECK_DEADLOCK FALSE
