SPECIFICATION LibrarySpec
CONSTANTS
  Counts = {1, 2}
  Numbers = {1}
  MaxWorkers = 3
  MaxCalls = 3
  MaxPosts = 3
  MaxBoth = 5
  Request <- SomeRequests
  Unset = Unset
  Numeric = {"7"}
  MaxRequests = 2
  Elem = {"a", "b", "null"}
  Nothing = {"null"}
  MaxLength = 3
  MaxNode = 40
  StartKids <- SomeKids
  StartTag <- SomeTags
  Html <- SomeHtml
  Tags = {"p", "div"}
  Content = {"p"}
  MaxTargets = 2
  MaxWeight = 5
  Reserve = 29
  Nil = Nil
  MaxSteps = 3
  Form <- SomeForm
  Values = {"", "x"}
  ClassLists <- SomeClassLists
  NoValue = NoValue
  MaxEdits = 3
  Structures <- SomeStructures
  Fn = {"f", "g", "h", "i", "b"}
  Bound = {"b"}
  Throws = {"h"}
  Inner <- OneInner
  Up <- SomeUp
  TextNodes = {5}
  Hoverable = {2, 4}
  Rows = {3, 4, 6}
  Stops = {4}
  NoPlace = 0
  Chrome = 9
  MaxMoves = 3
  Item = {"a", "b"}
  Added = "b"
  NoItem = "null"
  MaxItems = 3
INVARIANTS AnswerReachesAsker OwnRequest CacheIsWhole LibraryIsSound
PROPERTIES DirectMessageArrives  EveryoneRuns
CHECK_DEADLOCK FALSE
