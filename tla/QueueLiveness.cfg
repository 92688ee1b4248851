SPECIFICATION FairSpec
CONSTANTS
  Op = {o1, o2}
  Poster = {p1}
  Background = {o1}
  Keyless = {o1, o2}
  Shared = {}
  BadInput = {}
  Uncatalogued = {o2}
  Foreign = {o2}
  JobAttempts = 2
  ReconcileLimit = 1
  MaxPost = 1
  MaxCrash = 1
  MaxEvict = 1
  NoOp = NoOp
PROPERTY EventuallyTaken
CHECK_DEADLOCK FALSE
