SPECIFICATION FairSpec
CONSTANTS
  MaxConns = 3
  MaxQueries = 3
  PerConn = 2

INVARIANT DescriptorsKept
INVARIANT FramingKept
INVARIANT PerConnKept
PROPERTY KeepsPromise
PROPERTY LossesHandled
