SPECIFICATION FairSpec
CONSTANTS
  a = a
  b = b
  c = c
  s = s
  t = t
  Jobs = {a, b, c}
  BrainJobs = {a, b}
  Sessions = {s}
  SessionOf <- MCOneSession
  Priority <- MCPriority
  QueueSize = 1
  MaxArms = 1
  MaxSessions = 2
  BatchSize = 1
  MaxLives = 1
PROPERTIES
  OwedJobsFinish
  CallersAnswered
  CloseReturns
CHECK_DEADLOCK FALSE
