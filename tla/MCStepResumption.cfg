SPECIFICATION Spec
CONSTANTS
  NSteps = 2
  MaxAttempt = 2
  MaxLen = 5
INVARIANTS AcceptsExactlyLegalStreams DecisionMatchesProgress
PROPERTIES VerdictsAreSticky
CHECK_DEADLOCK FALSE
