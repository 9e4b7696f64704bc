\* An operation fails and services.yml is reverted.
SPECIFICATION Spec
CONSTANTS
  ServiceOrder <- CServiceOrder
  UnitOrder <- CUnitOrder
  ServiceOf <- CServiceOf
  DependsOn <- CDependsOn
  Mandatory <- CMandatory
  DbUnit <- CDbUnit
  WithVolume <- CWithVolume
  Isolated <- CIsolated
  Consumers <- CConsumers
  Gateway = "gateway"
  Routed <- CRouted
  Sees <- CSees
  Configured <- CConfigured
  Schema <- CSchema
  Manifests <- CManifests
  FirstManifest <- CFirstManifest
  UnitNeeds <- CUnitNeeds
  MaxGeneration = 5
  MaxEdits = 2
  MaxTampers = 0
  MaxFailures = 1
  MaxRotations = 0
INVARIANTS NoOpMeansConvergedHere
CHECK_DEADLOCK FALSE
