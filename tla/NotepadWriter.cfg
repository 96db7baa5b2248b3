SPECIFICATION FairSpec
CONSTANTS
  Rows = {a, b, c, d}
  Other = other
  Readers = {f}
  BatchSize = 2
  MaxOthers = 1
INVARIANTS
  ReadMissesOne
  ClosedIsComplete
PROPERTIES
  ImplementsLedger
  RowsGetPlaces
  CloseReturns
CHECK_DEADLOCK FALSE
