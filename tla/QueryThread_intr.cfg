SPECIFICATION FairSpec
CONSTANTS
  NQIDS = 2
  MaxOutstanding = 1
  NSocks = 1
  BatchSize = 1
  Timeout = 1
  Stream = FALSE
  TimeLimit = FALSE
  RecvErrors = {"EAGAIN"}
  MaxLines = 2
  Unstamped = Unstamped
  None = None
PROPERTY InterruptEnds
