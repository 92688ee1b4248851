SPECIFICATION Spec
CONSTANTS
  Request = {r1, r2, r3}
  Contacts <- OneContact
  Overlap = 1
  MaxRefuse = 2
  MaxFault = 0
  None = None
INVARIANT OneOrganization
CHECK_DEADLOCK FALSE
