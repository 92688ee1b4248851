SPECIFICATION FairSpec
CONSTANTS
  Op = {o1, o2}
  Poster = {p1}
  Background = {}
  Keyless = {}
  Shared = {}
  BadInput = {}
  Uncatalogued = {o2}
  Foreign = {}
  JobAttempts = 1
  ReconcileLimit = 2
  MaxPost = 2
  MaxCrash = 2
  MaxEvict = 0
  NoOp = NoOp
PROPERTY PendingReconciled
CHECK_DEADLOCK FALSE
