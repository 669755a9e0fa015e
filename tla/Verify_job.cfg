SPECIFICATION FairSpec
CONSTANTS
  Net = TRUE
  MaxOut = 2
  OutLimit = 1
  MaxFaults = 1
INVARIANTS
  TypeOK
  CompleteIsTrue
  NotStartedIsTrue
  CleanupIsTrue
  CleanupIsExclusive
  CleanupNotSkipped
  SealedVerifies
PROPERTIES
  RunReturns
CHECK_DEADLOCK FALSE
