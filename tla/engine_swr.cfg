SPECIFICATION Spec
CONSTANTS
  Calls = {c1, c2, c3}
  Keys = {k1}
  Old = Old
  None = None
  Ops = {"GetOrCompute", "Delete"}
  TTL = 1
  StaleTTL = 1
  NoExpiration = FALSE
  KeepStaleOnError = TRUE
  FreshValueStore = FALSE
  StoreFaults = TRUE
  Panics = FALSE
  MaxClock = 4
SYMMETRY Symmetry
INVARIANTS LeaderNeverRecomputesFresh ServedValueIsJustified KeepStaleHidesErrors MetricsAddUp DeadlinesOrdered
PROPERTY FreshnessNeverMovesBack
