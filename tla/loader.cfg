SPECIFICATION FairSpec
CONSTANTS
  Readers = {r1, r2}
  Stoppers = {s1, s2}
  MaxLoads = 2
INVARIANTS LoaderInv AnswersAreValues
PROPERTIES NothingAfterStop StopEnds KeepsLoading NoGoroutineLeft
