SPECIFICATION Spec
CONSTANTS
  Bits = 4
  NThreads = 2
  Responses <- MCResponses
  SigBits = {1, 2}
  MaxEvents = 2
  MaxIntervals = 2
CHECK_DEADLOCK FALSE

INVARIANT FinalExact
INVARIANT IntervalRight
