\* Two acquisitions, late clients and late writes, with the target's scripts fair.
SPECIFICATION FairSpec
CONSTANTS
  Token = {t1, t2}
  None = None
  HeartbeatTimeout = 2
  MaxGap = 2
  MaxWrites = 1
  AtomicDowngrade = TRUE
INVARIANTS TypeOK NoHandoffDuringWrite PromptHolderKeepsLease
PROPERTIES LatestWriterOnly LivingHolderKeepsRecord ImplementsFencedLease GoneClientFreesLease
CHECK_DEADLOCK FALSE
