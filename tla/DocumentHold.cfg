SPECIFICATION Spec
CONSTANTS
  Op = {o1}
  Worker = {w1, w2}
  Caller = {c1}
  Held = {o1}
  MaxAttempts = 2
  JobAttempts = 2
  MaxFault = 2
  MaxSlow = 1
  MaxDoubt = 1
  MaxRepeat = 1
  MaxCancel = 1
  MaxRetry = 1
  MaxEvict = 1
  MaxEvent = 2
  Unsaved = Unsaved
  None = None
SYMMETRY Symmetry
INVARIANT HoldKept
CHECK_DEADLOCK FALSE
