SPECIFICATION Spec
CONSTANTS
  Tasks = {t1, t2}
  Sessions = {s1}
  SessionOf <- MCSessionOf
  Calls = {c1, c2}
  NotApproved <- MCNotApproved
  Workers = {w1, w2}
  MaxIterations = 2
  CacheLimit = 1
  MaxSheds = 1
  DatabaseFails = TRUE
  NoJob = NoJob
  NoMemory = NoMemory
INVARIANTS
  MemoryFreed
  OnceAlone
  WaiterHasJob
  RunsAreAudited
SYMMETRY MCSymmetry
CHECK_DEADLOCK FALSE
