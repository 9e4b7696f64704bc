SPECIFICATION FairSpec
CONSTANTS
  Proc = {p1, p2}
  Genesis = Genesis
  None = None
  NSteps = 2
  MaxGeneration = 3
  MaxFaults = 2
  CanStall = FALSE
  JobsOutlive = FALSE
  SameDigest = FALSE
PROPERTIES FailedOperationFreesLock
CHECK_DEADLOCK FALSE
