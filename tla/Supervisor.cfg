SPECIFICATION MCSpec
CONSTANTS
  Procs = {p1, p2, p3}
  Pids = {1, 2, 3}
  third = p3
  spare = 3
  None = None
  MaxStarts = 5
  MaxAttempts = 2
  MaxSupervisors = 2
INVARIANTS
  GivesUpAfterRow
PROPERTIES
  SettledStays
  OverLimitEnds
  ServiceRestored
CHECK_DEADLOCK FALSE
