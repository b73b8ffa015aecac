CONSTANTS
  s1 = s1
  s2 = s2
  s3 = s3
  synthesis = synthesis
  dyndolod = dyndolod
  xedit = xedit
  NoAgent = NoAgent
  Agent = {synthesis, dyndolod, xedit}
  Session = {s1, s2}
  Resource = {esp}
  AgentOf <- ServiceAgents
  DiskFaults = TRUE
  ForcedRelease = TRUE
  MaxTime = 2
  TTL = 1
  MaxRetries = 2
SPECIFICATION FairSpec
INVARIANT LeakBounded
PROPERTY CallsTerminate
