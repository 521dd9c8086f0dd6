SPECIFICATION Spec
CONSTANTS
  k1 = k1
  k2 = k2
  k3 = k3
  k4 = k4
  k5 = k5
  plain = plain
  tagged = tagged
  t = t
  Keys = {k1, k2, k3, k4, k5}
  Vals = {plain, tagged}
  None = None
  NoKey = NoKey
  Tags = {t}
  TagsOf <- MCTagsOf
  EntryBytes = 10
  emptyIndex = 99
  Options <- MCOptions
INVARIANTS IndexMatchesArena RingIsWhole WithinLimits
PROPERTY ImplementsLRU
SYMMETRY Symmetry
