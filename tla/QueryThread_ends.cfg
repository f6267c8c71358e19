SPECIFICATION FairSpec
CONSTANTS
  NQIDS = 1
  MaxOutstanding = 1
  NSocks = 2
  BatchSize = 1
  Timeout = 1
  Stream = FALSE
  TimeLimit = TRUE
  RecvErrors = {"EAGAIN"}
  MaxLines = 2
  Unstamped = Unstamped
  None = None
INVARIANT UnusedAvailable
INVARIANT FinalLedger
PROPERTY NothingSentUnheard
PROPERTY AnsweredWhereAsked
PROPERTY Termination
