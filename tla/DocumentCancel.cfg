SPECIFICATION Spec
CONSTANTS
  Op = {o1}
  Worker = {w1}
  Caller = {c1}
  Held = {}
  MaxAttempts = 2
  JobAttempts = 2
  MaxFault = 0
  MaxSlow = 0
  MaxDoubt = 0
  MaxRepeat = 0
  MaxCancel = 1
  MaxRetry = 0
  MaxEvict = 0
  MaxEvent = 1
  Unsaved = Unsaved
  None = None
PROPERTY TerminalNotCancelled
CHECK_DEADLOCK FALSE
