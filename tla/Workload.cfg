CONSTANTS
  t1 = t1  t2 = t2  t3 = t3
  Thread = {t1, t2, t3}
  Size = 6
  Dummies = 2
  total_ops = 3
  MaxLost = 2
SPECIFICATION FairSpec
INVARIANTS
  IndexInBounds
  HandedOutOnce
  TraceIsWhatRan
PROPERTIES
  Termination
CHECK_DEADLOCK FALSE
