SPECIFICATION FairSpec
CONSTANTS
  t1 = t1
  t2 = t2
  x1 = x1
  x2 = x2
  x3 = x3
  r1 = r1
  r2 = r2
  None = None
  Thread <- TwoThreads
  Conn <- TwoConns
  Row <- TwoRows
CHECK_DEADLOCK TRUE
INVARIANTS ReturnedIsCommitted
PROPERTIES ConnectionIsReturned
