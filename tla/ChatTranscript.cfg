SPECIFICATION Spec
CONSTANTS
  t1 = t1
  t2 = t2
  t3 = t3
  u1 = u1
  u2 = u2
  s1 = s1
  s2 = s2
  m1 = m1
  m2 = m2
  m3 = m3
  None = None
  Thread <- ThreeThreads
  User <- OneUser
  Session <- TwoSessions
  Msg <- ThreeMsgs
  Ops <- TranscriptOps
  MaxJoins = 0
  MaxResets = 0
CHECK_DEADLOCK FALSE
SYMMETRY ThreadSymmetry
INVARIANTS NoLineLost  ToldIsReadable
