SPECIFICATION FairSpec
CONSTANTS
  MaxConns = 2
  MaxQueries = 3
  PerConn = 2
  MsgMax = 2
  MaxDown = 2
CHECK_DEADLOCK FALSE

INVARIANT UsedWhenFree
INVARIANT AnswersKept
INVARIANT PerConnKept
PROPERTY KeepsPromise
PROPERTY LossesHandled
