CONSTANTS
  r1 = r1
  r2 = r2
  r3 = r3
  esp = esp
  NoRun = NoRun
  NoAgent = NoAgent
  Agent = {"synthesis", "xedit", "dyndolod"}
  Run = {r1}
  File = {esp}
  Resource = {"Synthesis.esp"}
  ServiceOf <- SynthesisTwice
  FileOf <- OneEsp
  LockOf <- SameName
  AgentOf <- AgentOfService
  Slow = {}
  InitialFile <- Existing
  Cancels = {"running"}
  Faults = {}
  TTL = 1
  MaxTime = 2
SPECIFICATION Spec
INVARIANTS RolledBack
CHECK_DEADLOCK FALSE
