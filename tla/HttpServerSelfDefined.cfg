SPECIFICATION Spec
CONSTANTS
  MaxRequests = 1
  MaxWrites = 1
  MaxHeaders = 1
INVARIANT SelfDefined
CHECK_DEADLOCK FALSE
