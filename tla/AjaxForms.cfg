SPECIFICATION FairSpec
CONSTANTS
  r1 = r1
  r2 = r2
  None = None
  Shared = Shared
  Req <- TwoReqs
  Settings <- SomeSettings
  PlainGet <- Get
  Uploads <- TimedUploads
  DomChecks = 2
INVARIANTS  OwnAnswer 
PROPERTIES TimedCallsEnd
CHECK_DEADLOCK FALSE
