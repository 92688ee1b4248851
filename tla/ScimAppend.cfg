SPECIFICATION FairSpec
CONSTANTS
  Key = {k1}
  Requester = {q1, q2}
  Consumer = {c1}
  Operator = {}
  MaxCrash = 1
  MaxSlow = 0
  MaxReplay = 0
  MaxMove = 0
  NoKey = NoKey
PROPERTY EventuallyAppended
CHECK_DEADLOCK FALSE
