SPECIFICATION Spec
CONSTANTS
  NodeList <- MCNodeList
  Calls <- MCCalls
  MaxCalls = 6
  FirstId = 2
  BlackBoxes <- MCBlackBoxes
  Patterns <- MCPatterns
  Queries <- MCQueries
INVARIANT ConstantDriversOnly
CHECK_DEADLOCK FALSE
