SPECIFICATION FairSpec
CONSTANTS
  Workers = {w1, w2, w3}
  Size = 2
  Clients = {c1, c2}
  Tasks = {k1, k2}
  NoTask = NoTask
  NoThread = NoThread
  LateSubmit = TRUE
INVARIANTS FifoDispatch NoStrandedTask DoneMeansQuiet
PROPERTIES DestructorReturns
CHECK_DEADLOCK FALSE
