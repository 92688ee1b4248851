SPECIFICATION Spec
CONSTANTS
  Role = {r1, r2}
  Owner = {o1}
  Admin = {a1}
  Reader = {d1}
  None = None
  MaxRequest = 3
  MaxDecision = 0
  MaxFault = 0
INVARIANT FailedWroteNothing
CHECK_DEADLOCK FALSE
