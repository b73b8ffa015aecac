CONSTANTS
  a = a
  b = b
  agent = agent
  Mod = {a, b}
  Agent = agent
  Id = {a, b, agent}
  SameFile = a
  MaxAnswers = 1
  MaxTries = 2
  Threshold = 2
  MaxCycles = 1
  MaxCalls = 2
  MaxFaults = 1
SPECIFICATION Spec
INVARIANTS NoneUnapproved PendingHasCaller CycleTells Delivered
CHECK_DEADLOCK FALSE
