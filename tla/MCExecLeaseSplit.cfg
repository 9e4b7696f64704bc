\* flock(2) does not promise an atomic conversion: what survives without it.
SPECIFICATION Spec
CONSTANTS
  Token = {t1, t2}
  None = None
  HeartbeatTimeout = 1
  MaxGap = 1
  MaxWrites = 2
  AtomicDowngrade = FALSE
PROPERTIES LatestWriterOnly
CHECK_DEADLOCK FALSE
