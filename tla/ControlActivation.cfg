SPECIFICATION Spec
CONSTANTS
  Caller = {c1, c2}
  Runtime = {r1}
  Foreign = {}
  Binding = {b1, b2}
  ModuleVersion = {v1}
  Contract = {k1}
  MaxVersion = 5
  None = None
PROPERTY ActivationHasBinding
CHECK_DEADLOCK FALSE
