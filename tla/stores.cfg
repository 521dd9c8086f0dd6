SPECIFICATION StoresSpec
CONSTANTS
  Calls = {c1, c2, c3}
  Keys = {k1, k2}
  Old = Old
  None = None
  Tagged = {Old}
  Backends = {"local", "redis", "sharded", "single"}
  Envelopes <- MCEnvelopes
  Limits <- MCLimits
  EntryBytes = 2
  MaxFaults = 1
  MaxTime = 2
  MaxOnWire = 1
SYMMETRY Symmetry
INVARIANTS ExpiryFitsDeadline FilesAreWhole TotalsWithinLimits
PROPERTY ImplementsContract OthersKeepContract
