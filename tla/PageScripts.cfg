SPECIFICATION ScriptsSpec
CONSTANTS
  e1 = e1
  e2 = e2
  Elem = {e1, e2}
  Effect <- SomeEffects
  MaxAnims = 3
  MaxStops = 1
  NoElem = NoElem
  doc = doc
  box = box
  item = item
  copy = copy
  f = f
  g = g
  None = None
  LiveFn = LiveFn
  Doc = doc
  Handler = {f, g}
  Node <- Elements
  Kind <- Kinds
  StartTree <- Tree
  StartKind <- KindOf
  Call <- SomeCalls
  Result = {"ok", "false", "throw"}
  MaxCalls = 3
  MaxClicks = 1
  MaxDepth = 2
INVARIANTS EffectsAreSound LastEffectWins RegistryIsSound HandlersStay DeafOnlyToEchoes
PROPERTIES QueueDrains
CHECK_DEADLOCK FALSE
