SPECIFICATION FairSpec
CONSTANTS
  Calls = {c1, c2}
  Keys = {k1}
  Old = Old
  None = None
  Ops = {"GetOrCompute", "Get", "Set", "Clear"}
  StoreFaults = TRUE
  Panics = TRUE
  Lists <- MCLists
  Served <- MCServed
  Memoized <- MCMemoized
  Functions <- Separated
INVARIANTS ServedValueIsJustified EngineStaysSound BypassAlwaysComputes ObeysSettings AnswersOwnArguments
PROPERTY EveryCallReturns
