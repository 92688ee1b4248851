SPECIFICATION Spec
CONSTANTS
  Op = {o1}
  Worker = {w1, w2}
  Caller = {c1}
  Held = {}
  MaxAttempts = 2
  JobAttempts = 2
  MaxFault = 0
  MaxSlow = 0
  MaxDoubt = 1
  MaxRepeat = 1
  MaxCancel = 0
  MaxRetry = 0
  MaxEvict = 0
  MaxEvent = 2
  Unsaved = Unsaved
  None = None
INVARIANT SuccessNamesRow
CHECK_DEADLOCK FALSE
