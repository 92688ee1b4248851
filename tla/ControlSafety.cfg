SPECIFICATION Spec
CONSTANTS
  Caller = {c1, c2}
  Runtime = {r1, r2}
  Foreign = {r2}
  Binding = {b1, b2}
  ModuleVersion = {v1}
  Contract = {k1}
  MaxVersion = 3
  None = None
SYMMETRY Symmetry
INVARIANT TypeOK
INVARIANT ExecutableIsEligible
INVARIANT PendingMoveLegal
PROPERTY LifecycleImplemented
CHECK_DEADLOCK FALSE
