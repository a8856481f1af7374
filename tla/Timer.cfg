SPECIFICATION FairSpec
CONSTANTS
  Callers = {c1, c2}
  Millis = {1}
  Points = {1}
  Repeats = {1}
  Grain = 2
  MaxTimers = 2
  MaxTime = 4
INVARIANTS NoOversleep RunsAccounted
PROPERTIES Spaced DestructorReturns
CHECK_DEADLOCK FALSE
