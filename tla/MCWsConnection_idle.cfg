\* Both timers: what the server class allows.
SPECIFICATION FairSpec
CONSTANTS
  MaxConns = 2
  RequestTimeout = TRUE
  IdleTimeout = TRUE
  Sockets = {"WS", "WSS"}
INVARIANTS  CallbackProtocol MembersAreOpen CloseOnce 
PROPERTIES HandshakeEnds LostIsReleased
CHECK_DEADLOCK FALSE
