SPECIFICATION Spec
CONSTANTS
  c1 = c1
  c2 = c2
  own = own
  shared = shared
  Null = Null
  Client <- TwoClients
  Key <- SharedKey
  Uses <- AllShared
  MaxInt = 3
  MaxCalls = 1
CHECK_DEADLOCK FALSE
INVARIANTS NoUpdateLost
