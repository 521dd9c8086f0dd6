SPECIFICATION Spec
CONSTANTS
  Calls = {c1, c2}
  Keys = {k1}
  None = None
  Old = Old
  N = 2
  Faults = FALSE
SYMMETRY Symmetry
INVARIANTS DeletePropagates
