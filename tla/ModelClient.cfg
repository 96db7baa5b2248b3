SPECIFICATION MCSpec
CONSTANTS
  Calls = {c, d}
  Costs <- MCCosts
  RequestCap = 2
  TokenCap = 2
  RequestRate = 1
  TokenRate = 1
  None = None
  Names = {"one", "two"}
  Answers <- MCAnswers
  Residues <- MCResidues
INVARIANTS
  RateLimited
  RaceTakesAnAnswer
  ReturnedIsOver
  ParserFindsEachOnce
PROPERTIES
  CallsEnd
CHECK_DEADLOCK FALSE
