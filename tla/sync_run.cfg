CONSTANTS
  w1 = w1
  w2 = w2
  Worker = {w1, w2}
  Batches = 5
  QueueSize = 2
  Poison = 0
  Slow = TRUE
  ReadFails = TRUE
  StoreFails = TRUE
  CallerCancels = TRUE
SPECIFICATION FairRunSpec
INVARIANT AllCounted
PROPERTY RunEnds
CHECK_DEADLOCK FALSE
