CONSTANTS
  None = None
  Client = {clientA, clientB}
  MaxPuts = 1
  MaxLost = 1
  MaxFaults = 1
SPECIFICATION Spec
PROPERTIES
  UnlocksOwnLock
CHECK_DEADLOCK FALSE
