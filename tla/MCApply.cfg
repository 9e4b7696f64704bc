\* Clients may stall past their lease and their roles outlive them.
SPECIFICATION Spec
CONSTANTS
  Proc = {p1, p2}
  Genesis = Genesis
  None = None
  NSteps = 2
  MaxGeneration = 3
  MaxFaults = 3
  CanStall = TRUE
  JobsOutlive = TRUE
  SameDigest = TRUE
SYMMETRY ProcSymmetry
INVARIANTS TypeOK LockHasJournal StepDispatchedOnce StreamsStayReadable CommitAfterAllSteps
CHECK_DEADLOCK FALSE
