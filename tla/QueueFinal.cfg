SPECIFICATION Spec
CONSTANTS
  Op = {o1}
  Poster = {p1, p2}
  Background = {o1}
  Keyless = {}
  Shared = {}
  BadInput = {}
  Uncatalogued = {}
  Foreign = {}
  JobAttempts = 1
  ReconcileLimit = 1
  MaxPost = 2
  MaxCrash = 0
  MaxEvict = 0
  NoOp = NoOp
PROPERTY CompletedFinal
CHECK_DEADLOCK FALSE
