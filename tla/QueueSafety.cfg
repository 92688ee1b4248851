SPECIFICATION Spec
CONSTANTS
  Op = {o1, o2}
  Poster = {p1}
  Background = {o1}
  Keyless = {}
  Shared = {o1, o2}
  BadInput = {}
  Uncatalogued = {}
  Foreign = {}
  JobAttempts = 1
  ReconcileLimit = 2
  MaxPost = 2
  MaxCrash = 1
  MaxEvict = 0
  NoOp = NoOp
INVARIANT TypeOK
INVARIANT CompletedHasEffect
INVARIANT ExecutionsBounded
CHECK_DEADLOCK FALSE
