CONSTANTS
  main = main
  t1 = t1
  t2 = t2
  NoTask = NoTask
  Main = main
  Scanner = {t1, t2}
  MaxStarts = 2
  MaxFaults = 1
SPECIFICATION FairSpec
INVARIANTS  Layers OneConnection
PROPERTY Settles
CHECK_DEADLOCK FALSE
