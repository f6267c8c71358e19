SPECIFICATION FairSpec
CONSTANTS
  Inputs <- MCInputs
  Cap <- MCCap
  InputSize <- MCInputSize
  MaxOut = 5

INVARIANT InOrder
INVARIANT RunsCounted
PROPERTY CallReturns
