SPECIFICATION FairSpec
CONSTANTS
  MaxConns = 2
  Fds = {1, 2}
  Workers = {w1}
  TimerIds = {0, 1, 2, 3, 4, 5, 6, 7}
  MaxUnread = 1
  MaxBuffer = 2
  MaxListed = 1
  MaxTimeouts = 1
  MaxBytes = 1
INVARIANTS Tracked
PROPERTIES EventsNoticed
CHECK_DEADLOCK FALSE
