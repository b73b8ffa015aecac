CONSTANTS
  r1 = r1
  r2 = r2
  r3 = r3
  esp = esp
  NoRun = NoRun
  NoAgent = NoAgent
  Agent = {"synthesis", "xedit", "dyndolod"}
  Run = {r1, r2}
  File = {esp}
  Resource = {"dyndolod-pipeline", "DynDOLOD.esp"}
  ServiceOf <- LodTwice
  FileOf <- OneEsp
  LockOf <- OwnNames
  AgentOf <- AgentOfService
  Slow = {}
  InitialFile <- Existing
  Cancels <- NotBeginMark
  Faults = {"snapshot", "locks", "bus", "evict", "restore"}
  TTL = 1
  MaxTime = 2
SPECIFICATION Spec
INVARIANTS   NeverPending
CHECK_DEADLOCK FALSE
