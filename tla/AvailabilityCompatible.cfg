SPECIFICATION AvailabilitySpec
CONSTANTS
  Resolver = {q1}
  Binding = {b1}
  ModuleVersion = {v1, v2}
  CatalogVersion = v2
  SnapshotTTL = 1
  MaxVersion = 2
  MaxTime = 1
  None = None
INVARIANT CompatibleOnly
CHECK_DEADLOCK FALSE
