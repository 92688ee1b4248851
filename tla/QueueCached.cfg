SPECIFICATION Spec
CONSTANTS
  Op = {o1}
  Poster = {p1}
  Background = {o1}
  Keyless = {}
  Shared = {}
  BadInput = {}
  Uncatalogued = {}
  Foreign = {}
  JobAttempts = 1
  ReconcileLimit = 1
  MaxPost = 1
  MaxCrash = 0
  MaxEvict = 0
  NoOp = NoOp
PROPERTY SecondExecutionCached
CHECK_DEADLOCK FALSE
