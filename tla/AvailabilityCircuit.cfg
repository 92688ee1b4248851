SPECIFICATION AvailabilitySpec
CONSTANTS
  Resolver = {q1}
  Binding = {b1}
  ModuleVersion = {v1}
  CatalogVersion = v1
  SnapshotTTL = 1
  MaxVersion = 2
  MaxTime = 1
  None = None
INVARIANT OpenCircuitDenies
CHECK_DEADLOCK FALSE
