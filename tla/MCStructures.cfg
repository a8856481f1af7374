SPECIFICATION Spec
CONSTANTS
  None = None
  p = p
  q = q
  r = r
  Both = {t1, t2}
  Nodes = {n1, n2, n3, n4}
  NoNode = NoNode
SYMMETRY Symmetry
INVARIANTS NodesSafe AssertionsHold GradientsRight StacksPair
PROPERTIES AreSequential
CHECK_DEADLOCK FALSE
