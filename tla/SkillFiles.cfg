SPECIFICATION FilesSpec
CONSTANTS
  o1 = o1
  o2 = o2
  Skills = {s, t}
  Codes = {x, b}
  Broken = {b}
  Calls = {o1, o2}
  None = None
  KeepVersions = 2
  Trip = 1
  MaxCalls = 3
  MaxClock = 1
INVARIANTS
  ServedAsOnDisk
PROPERTIES
  OverwritesTheArchived
SYMMETRY MCSymmetry
CHECK_DEADLOCK FALSE
