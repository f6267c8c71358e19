SPECIFICATION FairSpec
CONSTANTS
  MaxConns = 2
  MaxQueries = 1
  PerConn = 0
  BufSize = 2
CHECK_DEADLOCK FALSE
PROPERTY LossReplaced
