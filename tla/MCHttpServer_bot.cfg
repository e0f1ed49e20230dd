\* The bot's server, and one with TLS; a client that waits for its answers or does not.
SPECIFICATION FairSpec
CONSTANTS
  MaxRequests = 3
  MaxBody = 1
  MaxFile = 3
  Piece = 2
  RequestTimeout = TRUE
  ContentTimeout = TRUE
  Sockets = {"HTTP", "HTTPS"}
INVARIANTS AnswersInOrder AnswersMatch NoAnswerTwice ContentIsComplete CloseIsObeyed
PROPERTIES ConnectionEnds
CHECK_DEADLOCK FALSE
