SPECIFICATION FairSpec
CONSTANTS
  NSocks = 2
  MaxOutstanding = 2
  MaxQps = 2
  RampTime = 1
  SustainTime = 2
  WaitTime = 1
  QueryTimeout = 1
  BucketInterval = 1
  MaxFallBehind = 3
  UIntSize = 64
  Tries = 2

INVARIANT Conservation
INVARIANT InProgressKept
PROPERTY BucketsRight
PROPERTY TrafficEnds
PROPERTY Termination
