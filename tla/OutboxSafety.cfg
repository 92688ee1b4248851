SPECIFICATION Spec
CONSTANTS
  Event = {e1, e2}
  Dispatcher = {d1, d2}
  MaxAttempts = 2
  BatchLimit = 2
  MaxCrash = 1
  MaxSlow = 1
  NoEvent = NoEvent
SYMMETRY Symmetry
INVARIANT TypeOK
INVARIANT LeaseExclusive
INVARIANT DeliveriesCharged
PROPERTY ImplementsContract
CHECK_DEADLOCK FALSE
