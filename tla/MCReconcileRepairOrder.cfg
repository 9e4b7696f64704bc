\* Two containers of one service are changed by hand.
SPECIFICATION Spec
CONSTANTS
  ServiceOrder <- CServiceOrder
  UnitOrder <- CUnitOrder
  ServiceOf <- CServiceOf
  DependsOn <- CDependsOn
  Mandatory <- CMandatory
  DbUnit <- CDbUnit
  WithVolume <- CWithVolume
  Isolated <- CIsolated
  Consumers <- CConsumers
  Gateway = "gateway"
  Routed <- CRouted
  Sees <- CSees
  Configured <- CConfigured
  Schema <- CSchema
  Manifests <- CManifests
  FirstManifest <- CFirstManifest
  UnitNeeds <- CUnitNeeds
  MaxGeneration = 5
  MaxEdits = 1
  MaxTampers = 2
  MaxFailures = 0
  MaxRotations = 0
INVARIANTS SiblingsStartFirst
CHECK_DEADLOCK FALSE
