SPECIFICATION Spec
CONSTANTS
  Calls = {c1, c2, c3}
  Keys = {k1}
  Old = Old
  None = None
  Ops = {"GetOrCompute"}
  TTL = 1
  StaleTTL = 0
  NoExpiration = FALSE
  KeepStaleOnError = FALSE
  FreshValueStore = TRUE
  StoreFaults = FALSE
  Panics = TRUE
  MaxClock = 3
SYMMETRY Symmetry
INVARIANTS AnswerIsFreshOrComputed
