SPECIFICATION Spec
CONSTANTS
  Million = 2
  Threshold = 1
  MaxSockets = 2
  MaxThreads = 2
  MaxQps = 3
  MaxClients = 3
  MaxTime = 5
CHECK_DEADLOCK FALSE

INVARIANT ThreadLimit
INVARIANT TotalLimit
INVARIANT PaceKept
