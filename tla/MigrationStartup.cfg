SPECIFICATION FairSpec
CONSTANTS
  Process = {api, worker, replica}
  Migrating = {api, worker}
  Files = 4
  Renamed = {3, 4}
  Guarded = {2}
  Required = {1, 2}
  Located = {1}
  MaxFault = 2
INVARIANT MigrationTypeOK
INVARIANT AppliedExactly
INVARIANT ServingIsMigrated
INVARIANT OneRunner
PROPERTY InOrder
PROPERTY EventuallyServing
CHECK_DEADLOCK FALSE
