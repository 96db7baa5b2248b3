SPECIFICATION Spec
CONSTANTS
  u1 = u1
  Skills = {s}
  Codes = {x, b}
  Broken = {b}
  Agents = {u1}
  Cycle = cycle
  None = None
  Scores <- MCScores
  Threshold = 60
  Trip = 2
  MaxCalls = 3
  MaxCycles = 2
  MaxClock = 1
PROPERTIES
  PromotedWhenBetter
CHECK_DEADLOCK FALSE
