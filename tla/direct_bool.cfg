SPECIFICATION Spec
CONSTANTS
  Calls = {c1, c2}
  Keys = {k1}
  Old = Old
  None = None
  Ops = {"GetOrCompute"}
  StoreFaults = FALSE
  Panics = TRUE
  Lists <- NoLists
  Served <- NoLists
  Memoized <- MCMemoized
  Functions <- FlagLast
INVARIANTS AnswersOwnArguments
