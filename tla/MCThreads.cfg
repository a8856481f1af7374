SPECIFICATION FairSpec
CONSTANTS
  None = None
  NoThread = NoThread
  N = 2
  Kids <- TwoSubmit
  Roots <- TwoRoots
  Callers = {p, q, r}
  MaxCalls = 5
  Lockers = {t1, t2}
  Mutexes = {"high", "low", "other"}
  hierarchy_value <- Levels
  MaxLevel = 10
  Keys = {1, 2, 3}
  Values = {1, 2}
  Buckets = 2
  Hash <- Itself
  MaxUpdates = 4
  Parts = 4
  Size = 1
  Length = 5
  Value <- Powers
  Blocks <- ThreeBlocks
  Members = 3
  MaxBlocks = 3
  Nodes = {n1, n2, n3}
  Null = Null
  Root = Root
  MaxWalks = 5
  SkipKeys = {1, 2, 3}
  Height = 2
  Readers = {p}
  Exprs = {1, 2, 3, 4, 5, 6, 7, 8, 9}
  Kind <- Kinds
  Group <- Groups
  Operands <- Args
  Asked = {3, 5, 6, 8, 9}
  MaxElems = 2
  MaxLayers = 3
INVARIANTS HierarchyHolds ReadersMissNothing TaskRunsOnce CondIsThere SumsInStep EvaluatedInOrder
PROPERTIES ServeInOrder WaitsEnd HandlesReady EvalEnds
CHECK_DEADLOCK FALSE
