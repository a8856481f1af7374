SPECIFICATION Spec
CONSTANTS
  Threads = {t1, t2, t3}
  Items = {a, b}
  capacity_ = 3
  PushReply = {TRUE, FALSE}
  Garbage = Garbage
  Nothing = Nothing
  MaxCnt = 5
INVARIANTS RingConsistent NoSleepOnItems
PROPERTY FifoSpec
