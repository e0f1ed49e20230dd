\* Responses of any shape, cut into reads anywhere.
SPECIFICATION FairSpec
CONSTANTS
  MaxEndpoints = 2
  MaxHeaders = 2
  MaxContent = 3
INVARIANTS CallbackHasAll 
PROPERTIES EndsWithServer
CHECK_DEADLOCK FALSE
