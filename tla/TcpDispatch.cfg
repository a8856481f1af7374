SPECIFICATION Spec
CONSTANTS
  MaxConns = 1
  Fds = {1, 2}
  Workers = {w1, w2}
  TimerIds = {0, 1, 2, 3}
  MaxUnread = 1
  MaxBuffer = 1
  MaxListed = 1
  MaxTimeouts = 2
  MaxBytes = 1
INVARIANT DispatchFinds
CHECK_DEADLOCK FALSE
