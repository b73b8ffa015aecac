CONSTANTS
  r1 = r1
  r2 = r2
  r3 = r3
  esp = esp
  NoRun = NoRun
  NoAgent = NoAgent
  Agent = {"synthesis", "xedit", "dyndolod"}
  Run = {r2, r3}
  File = {esp}
  Resource = {"Synthesis.esp"}
  ServiceOf <- SynthesisTwice
  FileOf <- OneEsp
  LockOf <- SameName
  AgentOf <- AgentOfService
  Slow = {}
  InitialFile <- Existing
  Cancels <- AllAwaits
  Faults = {"snapshot", "journal", "locks", "bus", "crash", "evict", "restore"}
  TTL = 1
  MaxTime = 1
SPECIFICATION FairSpec
INVARIANTS TypeOK  
PROPERTIES CommittedFinal RunsEnd
CHECK_DEADLOCK FALSE
