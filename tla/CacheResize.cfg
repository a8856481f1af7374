SPECIFICATION Spec
CONSTANTS
  Keys = {"a", "b", "c", "d", "e"}
  HashOf <- HashAtFour
  Charges = {1}
  Capacities = {4}
  MinLength = 4
  MaxNodes = 5
  MaxHandles = 1
INVARIANT EvictionFinds
CHECK_DEADLOCK FALSE
