\* One optional service or two, edits, changes by hand, a failed operation.
SPECIFICATION Spec
CONSTANTS
  ServiceOrder <- CServiceOrder
  UnitOrder <- CUnitOrder
  ServiceOf <- CServiceOf
  DependsOn <- CDependsOn
  Mandatory <- CMandatory
  DbUnit <- CDbUnit
  WithVolume <- CWithVolume
  Isolated <- CIsolated
  Consumers <- CConsumers
  Gateway = "gateway"
  Routed <- CRouted
  Sees <- CSees
  Configured <- CConfigured
  Schema <- CSchema
  Manifests <- CManifests
  FirstManifest <- CFirstManifest
  UnitNeeds <- CUnitNeeds
  MaxGeneration = 5
  MaxEdits = 2
  MaxTampers = 1
  MaxFailures = 1
  MaxRotations = 1
INVARIANTS TypeOK IdempotentAfterCommit NoOpMeansConverged OperationCanSucceed LiveDataStaysExpected DeliveredSecretsAreInUse
PROPERTIES LiveDataNeverReinitialised
CHECK_DEADLOCK FALSE
