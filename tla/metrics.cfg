SPECIFICATION Spec
CONSTANTS
  Calls = {c1, c2, c3, c4}
  Names = {n1, n2}
  None = None
  Events <- MCEvents
  RingSize = 2
SYMMETRY Symmetry
INVARIANTS NothingLost StatsAreCurrent RingHoldsLatest
