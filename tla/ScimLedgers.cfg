SPECIFICATION Spec
CONSTANTS
  Key = {k1}
  Requester = {q1}
  Consumer = {c1}
  Operator = {}
  MaxCrash = 0
  MaxSlow = 0
  MaxReplay = 0
  MaxMove = 0
  NoKey = NoKey
INVARIANT LedgersAgree
CHECK_DEADLOCK FALSE
