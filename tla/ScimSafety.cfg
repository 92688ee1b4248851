SPECIFICATION Spec
CONSTANTS
  Key = {k1}
  Requester = {q1, q2}
  Consumer = {c1, c2}
  Operator = {o1}
  MaxCrash = 1
  MaxSlow = 1
  MaxReplay = 1
  MaxMove = 1
  NoKey = NoKey
INVARIANT TypeOK
INVARIANT InboxLedger
INVARIANT ReceiptExclusive
INVARIANT EffectsCharged
INVARIANT StuckByCrashOnly
PROPERTY ReceiptFinal
PROPERTY LegalMoves
CHECK_DEADLOCK FALSE
