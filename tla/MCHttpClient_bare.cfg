\* A response without headers.
SPECIFICATION Spec
CONSTANTS
  MaxEndpoints = 1
  MaxHeaders = 1
  MaxContent = 1
INVARIANTS CompleteIsDelivered
CHECK_DEADLOCK FALSE
