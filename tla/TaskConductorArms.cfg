SPECIFICATION Spec
CONSTANTS
  a = a
  b = b
  c = c
  s = s
  t = t
  Jobs = {a, b, c}
  BrainJobs = {a, b}
  Sessions = {s, t}
  SessionOf <- MCSessionOf
  Priority <- MCPriority
  QueueSize = 1
  MaxArms = 2
  MaxSessions = 2
  BatchSize = 2
  MaxLives = 1
INVARIANTS
  LedgerInTurnOrder
PROPERTIES
  AnswerAfterLedger
CHECK_DEADLOCK FALSE
SYMMETRY MCSymmetry
