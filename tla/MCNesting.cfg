SPECIFICATION Spec
CONSTANTS
  Limit = 2
  MaxLength = 8
CHECK_DEADLOCK FALSE
INVARIANTS
  TypeOK
  AcceptedStaysWithinLimit
  RejectedIsTooDeep
