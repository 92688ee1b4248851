SPECIFICATION FairSpec
CONSTANTS
  Key = {k1}
  Requester = {q1}
  Consumer = {c1}
  Operator = {}
  MaxCrash = 0
  MaxSlow = 0
  MaxReplay = 2
  MaxMove = 0
  NoKey = NoKey
PROPERTY ReplayRepairs
CHECK_DEADLOCK FALSE
