CONSTANTS
  e1 = e1
  e2 = e2
  e3 = e3
  s1 = s1
  s2 = s2
  Event = {e1, e2, e3}
  Sub = {s1, s2}
  Matches <- Topics
  Sentinel = Sentinel
  HasDLQ = TRUE
  Hang = {s1}
  DlqFails = TRUE
  QueueSize = 2
  MaxPending = 1
  MaxDlq = 1
  MaxStarts = 1
SPECIFICATION FairBusSpec
INVARIANTS BusTypeOK NoneOutlives
PROPERTIES Reaches StopEnds
CHECK_DEADLOCK FALSE
