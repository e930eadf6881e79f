SPECIFICATION DocumentsSpec
CONSTANTS
  Size = 4
  Documents <- SomeDocuments
  Questions <- SomeQuestions
  Control <- SomeControls
  Texts = {"s", "t"}
  NoControl = NoControl
  MaxDeeds = 5
  Letters = {"x", "-", " "}
  MaxLetters = 3
  MaxIndex = 5
  Sieved <- SomeSieved
  Lists <- SomeLists
  SieveParts <- SomeParts
  MaxParts = 3
  NoAttr = NoAttr
  PropName <- TwoNames
  Heaps <- SomeHeaps
  Calls <- SomeCopies
  Boxes <- SomeBoxes
  NewSizes <- SomeSizes
  Opacities <- SomeOpacities
  Scenes <- SomeScenes
  Targets = {0, 15}
  AutoLeft = AutoLeft
  Within <- SomeWithin
  LoadArgs <- SomeLoads
  MaxLoads = 3
  m1 = m1
  Msg <- OneMsg
  Browsers = {"standard", "ie"}
  Transports <- AllTransports
  Fallback = "streaming"
  WebSockets = TRUE
  MaxRequest = 2
  MaxSubs = 2
  MaxFaults = 1
  Junk = Junk
  Absent = Absent
INVARIANTS SubscriptionLives ClientIsSound FindsTheMatches  FiltersMean CopiesStayApart  LoadsAreShown
CHECK_DEADLOCK FALSE
