SPECIFICATION Spec
CONSTANTS
  a = a
  b = b
  c = c
  s = s
  t = t
  Jobs = {a, b, c}
  BrainJobs = {a, b}
  Sessions = {s, t}
  SessionOf <- MCSessionOf
  Priority <- MCPriority
  QueueSize = 1
  MaxArms = 1
  MaxSessions = 1
  BatchSize = 2
  MaxLives = 2
INVARIANTS
  OwedJobsCarried
  OneRunPerLife
PROPERTIES
  CloseKeepsJobs
  ImplementsService
CHECK_DEADLOCK FALSE
SYMMETRY MCSymmetry
