SPECIFICATION Spec
CONSTANTS
    o1 = o1  o2 = o2  o3 = o3  r1 = r1  r2 = r2  p1 = p1  p2 = p2
    NoOp = NoOp
    Op = {o1, o2, o3}
    Rollback = {r1, r2}
    Path = {p1, p2}
    PathOf <- OnTwoFiles
    Deletes = {o2}
    Existing = {p1, p2}
    Overlap = FALSE
    Ties = FALSE
    Faults = {"journal", "snapshot", "evict", "restore", "cancel", "crash"}
    MaxFaults = 1
INVARIANT JournalTellsFile
  
CHECK_DEADLOCK FALSE
