\* The request timer when its handler is queued as the request arrives.
SPECIFICATION FairSpec
CONSTANTS
  MaxConns = 1
  RequestTimeout = TRUE
  IdleTimeout = FALSE
  Sockets = {"WS"}
PROPERTIES TimeoutGuardsRead
CHECK_DEADLOCK FALSE
