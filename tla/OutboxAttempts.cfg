SPECIFICATION Spec
CONSTANTS
  Event = {e1}
  Dispatcher = {d1, d2}
  MaxAttempts = 2
  BatchLimit = 1
  MaxCrash = 1
  MaxSlow = 1
  NoEvent = NoEvent
INVARIANT AttemptsBounded
CHECK_DEADLOCK FALSE
