SPECIFICATION FairSpec
CONSTANTS
  t1 = t1
  t2 = t2
  m1 = m1
  m2 = m2
  m3 = m3
  m4 = m4
  b1 = b1
  NoMsg = NoMsg
  Thread <- TwoThreads
  Msg <- FourMsgs
  Streaming <- NoBrowser
  LongPolling <- FirstBrowser
  Threshold = 2
  MaxRestarts = 1
CHECK_DEADLOCK FALSE
INVARIANTS RipeQueueIsServed NoOvertaking
PROPERTIES  SentIsBroadcast HandleReturns
