\* Plans with two edits, bundles of two operations, two calls in flight.
SPECIFICATION MCSpec
CONSTANTS
  None = None
  Kinds = {"backup", "restore"}
  Units <- CUnits
  DestinationNames <- CDestinationNames
  Volumes <- CVolumes
  NetworkNames <- CNetworkNames
  Base <- CBase
  Others <- COthers
  Subs <- CSubs
  MaxEdits = 2
  RunEdits = 0
  Op = {q1, q2}
  Call = {c1, c2}
  Bogus <- CBogus
  EventActions = {"staging.build", "state.restore"}
  MaxLease = 2
  MaxEvents = 1
  MaxTampers = 1
  Publisher = {p1, p2}
  Installation = "i1"
  Generations = {1, 2, 3}
  ManifestOf <- CManifestOf
  ReleaseLockOf <- CReleaseLockOf
  ToolLocks = {"t1", "t2"}
  PinnedToolLock = "t1"
  Needs <- CNeeds
  Stores <- CStores
  Destinations <- CDestinations
  CredentialStores <- CCredentialStores
  Recipient = "age1"
  Identities = {"identity", "other"}
  IdentityOf <- CIdentityOf
  Garbage = Garbage
SYMMETRY CallSymmetry
INVARIANTS PlanVerdictMatchesExecution BundleVerdictMatchesProvenance OpTypeOK EventsFollowApprovedPlan CommittedGenerationIsHonest LockNamesItsJournal OpenedKitRestoresItsGeneration PublishedKitCanBeOpened
PROPERTIES FinishedOperationIsFrozen
CHECK_DEADLOCK FALSE
