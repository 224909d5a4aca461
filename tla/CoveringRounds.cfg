CONSTANTS
  Callers = {t1, t2, t3}
  MaxCalls = 4
SPECIFICATION RoundsLive
INVARIANTS AckCovered OneRound
PROPERTY EveryCallReturns
\* The threads stop when no call is left to make.
CHECK_DEADLOCK FALSE
