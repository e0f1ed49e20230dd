\* Two threads, two connections, a server that is stopped and started again.
SPECIFICATION FairSpec
CONSTANTS
  Threads = {t1, t2}
  MaxConns = 2
  MaxStarts = 2
  MaxCopies = 1
  MaxFailures = 1
INVARIANTS  EveryStartAccepts
PROPERTIES StartReturns
CHECK_DEADLOCK FALSE
