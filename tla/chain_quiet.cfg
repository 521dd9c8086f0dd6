SPECIFICATION Spec
CONSTANTS
  Calls = {c1, c2, c3}
  Keys = {k1}
  None = None
  Old = Old
  N = 3
  Faults = TRUE
SYMMETRY Symmetry
INVARIANTS ChainInv QuietWriteIsFinal
