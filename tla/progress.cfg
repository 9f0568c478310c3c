SPECIFICATION MCFairSpec
CONSTANTS
  t1 = t1
  t2 = t2
  None = None
  Unused = Unused
  NumObjs = 4
  Graphs <- MCGraphs
  RootSets <- MCRootSets
  MARK_STACK_MAX = 1
  MaxRoom = 1
  Inputs <- MCInputs
  Unordered <- MCUnordered
  MEDIAN3 = 5
  MEDIAN9 = 9
  CHKLIM = 5
  Loaders = {t1, t2}
  Files = {"a", "b", "c"}
  MaxCalls = 1
INVARIANTS
  NothingReachableSwept
  GrayAccounted
  SortSound
PROPERTIES
  MarkingEnded
  SortEnds
  RequireReturns
CHECK_DEADLOCK FALSE
