\* Two messages, cut into reads anywhere; and every message of up to two middle
\* arguments, or 13 and 14, and every line of up to four lexemes, parsed.
SPECIFICATION FairSpec
CONSTANTS
  Messages <- MCMessages
  MaxMessages = 2
  MaxMiddle = 2
  MaxLexemes = 4
INVARIANTS ForwardedAsSaid  ArgumentsKept 
PROPERTIES ServerIsAnswered
CHECK_DEADLOCK FALSE
