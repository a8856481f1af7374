SPECIFICATION FairSpec
CONSTANTS
  Producers = {p1, p2}
  Lines = 2
  Sizes = {0, 1, 2}
  split_lines_ = 1
  PushReply = {TRUE, FALSE}
  MaxOdd = 1
INVARIANTS LinesInOrder FileSize
PROPERTIES WriterEnds
CHECK_DEADLOCK FALSE
