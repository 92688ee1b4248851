SPECIFICATION Spec
CONSTANTS
  Request = {r1, r2, r3}
  Contacts <- OneContact
  Overlap = 2
  MaxRefuse = 1
  MaxFault = 1
  None = None
SYMMETRY Symmetry
INVARIANT TypeOK
INVARIANT StepsAreReal
INVARIANT CompletedIsBootstrapped
INVARIANT OrganizationFound
INVARIANT RunningHasRequest
CHECK_DEADLOCK FALSE
