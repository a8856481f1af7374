SPECIFICATION Spec
CONSTANTS
  None = None
  Keys = {"a", "b", "c"}
  HashOf <- CollidingHash
  Charges = {1, 2}
  Capacities = {0, 2, 3}
  MinLength = 2
  MaxNodes = 4
  MaxHandles = 2
  Sizes = {1, 2}
  InitNum = 1
  MAX_POOL_SIZE = 5
  Conns = {1, 2}
  MaxBytes <- TwoStreams
  Objects = {1, 2, 3}
  Shapes <- TwoShapes
  Unit = 2
  MaxBlocks = 2
  MaxWrites = 1
  KBlockSize = 24
  PointerSize = 8
  Requests = {5, 9}
  Heap = {8, 40}
INVARIANTS OneOwner StreamsKept CacheConsistent
PROPERTIES PinnedStays ValuesKept
CHECK_DEADLOCK FALSE
