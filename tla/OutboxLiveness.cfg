SPECIFICATION FairSpec
CONSTANTS
  Event = {e1, e2}
  Dispatcher = {d1}
  MaxAttempts = 2
  BatchLimit = 2
  MaxCrash = 1
  MaxSlow = 1
  NoEvent = NoEvent
PROPERTY EventuallySettled
CHECK_DEADLOCK FALSE
