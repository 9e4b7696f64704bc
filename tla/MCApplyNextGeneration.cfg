SPECIFICATION Spec
CONSTANTS
  Proc = {p1, p2}
  Genesis = Genesis
  None = None
  NSteps = 2
  MaxGeneration = 3
  MaxFaults = 1
  CanStall = FALSE
  JobsOutlive = FALSE
  SameDigest = FALSE
SYMMETRY ProcSymmetry
INVARIANTS NextGenerationFree
CHECK_DEADLOCK FALSE
