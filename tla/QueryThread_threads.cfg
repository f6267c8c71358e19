SPECIFICATION Spec
CONSTANTS
  NQIDS = 2
  MaxOutstanding = 1
  NSocks = 1
  BatchSize = 1
  Timeout = 1
  Stream = TRUE
  TimeLimit = FALSE
  RecvErrors = {"EAGAIN", "other"}
  MaxLines = 2
  Unstamped = Unstamped
  None = None
INVARIANT TableSound
INVARIANT Conservation
INVARIANT OneInProgress
INVARIANT InFlightBound
