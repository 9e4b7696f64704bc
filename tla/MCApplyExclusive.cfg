\* Crashes and errors, but no late client and no orphaned role.
SPECIFICATION Spec
CONSTANTS
  Proc = {p1, p2, p3}
  Genesis = Genesis
  None = None
  NSteps = 2
  MaxGeneration = 4
  MaxFaults = 2
  CanStall = FALSE
  JobsOutlive = FALSE
  SameDigest = TRUE
SYMMETRY ProcSymmetry
INVARIANTS PointersBackedBySnapshot SucceededMeansCommitted RunningRoleHoldsLock FreshRolesMatchBaseline
PROPERTIES GenerationsAdvanceByOne
CHECK_DEADLOCK FALSE
