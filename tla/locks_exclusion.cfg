CONSTANTS
  s1 = s1
  s2 = s2
  s3 = s3
  synthesis = synthesis
  dyndolod = dyndolod
  xedit = xedit
  NoAgent = NoAgent
  Agent = {synthesis, dyndolod, xedit}
  Session = {s1, s2, s3}
  Resource = {esp}
  AgentOf <- OwnAgents
  DiskFaults = FALSE
  ForcedRelease = FALSE
  MaxTime = 2
  TTL = 1
  MaxRetries = 1
SPECIFICATION Spec
INVARIANTS TypeOK MutualExclusion LeaseIsRow DurableLease
PROPERTY ImplementsLeases
