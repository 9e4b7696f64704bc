\* Operators retry --resume; crashed invocations leave their roles running.
SPECIFICATION FairSpec
CONSTANTS
  Proc = {p1, p2}
  Genesis = Genesis
  None = None
  NSteps = 2
  MaxGeneration = 3
  MaxFaults = 2
  CanStall = FALSE
  JobsOutlive = TRUE
  SameDigest = TRUE
PROPERTIES PublishedCommitIsResolved
CHECK_DEADLOCK FALSE
