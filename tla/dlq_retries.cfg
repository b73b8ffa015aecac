CONSTANTS
  l1 = l1
  l2 = l2
  w1 = w1
  w2 = w2
  NoLetter = NoLetter
  Letter = {l1, l2}
  Worker = {w1, w2}
  Quick = {l1}
  MaxAttempts = 2
  BatchSize = 1
  MaxFaults = 1
SPECIFICATION FairSpec
INVARIANTS NoDoubleDispatch NotRepeated DeadDeserved
PROPERTY Retried
CHECK_DEADLOCK FALSE
