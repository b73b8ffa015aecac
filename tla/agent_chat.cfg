CONSTANTS
  c1 = c1
  c2 = c2
  a = a
  Call = {c1, c2}
  NoCall = NoCall
  Chat = {a}
  ChatOf <- OneChat
  Swapper = Swapper
  MaxRounds = 2
  MaxContext = 4
  Preserve = 2
  Faults = {"provider", "tool", "database", "cancel", "spike"}
  MaxFaults = 1
SPECIFICATION FairSpec
INVARIANTS Paired QuestionKept
PROPERTIES ChatEnds Recovers
CHECK_DEADLOCK FALSE
