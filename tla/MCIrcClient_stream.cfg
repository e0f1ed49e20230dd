\* Three messages in pieces of any size; PASS, NICK and two answers, each of which
\* the socket takes in up to two pieces.
SPECIFICATION ClientSpec
CONSTANTS
  LineLength = 4
  MaxMessages = 3
  MaxCommands = 4
  Parts = 2
INVARIANTS LinesPartition  PartsInOrder StringsInUse
PROPERTIES ArrivedIsHandled StringsAreFreed
CHECK_DEADLOCK FALSE
