SPECIFICATION Spec
CONSTANTS
  Role = {r1, r2}
  Owner = {o1}
  Admin = {a1, a2}
  Reader = {d1}
  None = None
  MaxRequest = 3
  MaxDecision = 1
  MaxFault = 1
SYMMETRY Symmetry
INVARIANT TypeOK
INVARIANT HeldAtOnce
CHECK_DEADLOCK FALSE
