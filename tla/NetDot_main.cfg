SPECIFICATION FairSpec
CONSTANTS
  MaxConns = 3
  MaxQueries = 3
  PerConn = 2
  BufSize = 4
CHECK_DEADLOCK FALSE

INVARIANT FramingKept
INVARIANT PerConnKept
PROPERTY KeepsPromise
PROPERTY LossesHandled
