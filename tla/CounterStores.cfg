SPECIFICATION Spec
CONSTANTS
  c1 = c1
  c2 = c2
  own = own
  shared = shared
  Null = Null
  Client <- TwoClients
  Key <- TwoKeys
  Uses <- OwnAndShared
  MaxInt = 2
  MaxCalls = 3
CHECK_DEADLOCK FALSE
INVARIANTS NoOverCount
 
