SPECIFICATION FairSpec
CONSTANTS
  t1 = t1
  t2 = t2
  t3 = t3
  u1 = u1
  u2 = u2
  s1 = s1
  s2 = s2
  m1 = m1
  m2 = m2
  m3 = m3
  None = None
  Thread <- TwoThreads
  User <- OneUser
  Session <- TwoSessions
  Msg <- OneMsg
  Ops <- RoomOps
  MaxJoins = 2
  MaxResets = 1
CHECK_DEADLOCK FALSE
 
INVARIANTS LastJoinWins SettledMessageIsPrivate
