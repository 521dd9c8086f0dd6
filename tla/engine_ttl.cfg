SPECIFICATION Spec
CONSTANTS
  Calls = {c1, c2, c3}
  Keys = {k1}
  Old = Old
  None = None
  Ops = {"GetOrCompute", "Get", "Set", "Delete", "Clear"}
  TTL = 1
  StaleTTL = 0
  NoExpiration = FALSE
  KeepStaleOnError = FALSE
  FreshValueStore = TRUE
  StoreFaults = TRUE
  Panics = TRUE
  MaxClock = 3
SYMMETRY Symmetry
INVARIANTS EngineInv OneComputationPerKey ServedValueIsJustified
PROPERTY ImplementsSingleFlight
