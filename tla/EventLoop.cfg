SPECIFICATION FairSpec
CONSTANTS
  Threads = {t1, t2}
  Loop = looper
  Makers = {t1, looper}
  MaxTasks = 3
INVARIANTS NoTaskStranded NoQuitMissed TasksInOrder
PROPERTY LoopEnds
CHECK_DEADLOCK FALSE
