SPECIFICATION Spec
CONSTANTS
  NodeList <- MCNodeList
  Calls <- MCCalls
  MaxCalls = 6
  FirstId = 2
  BlackBoxes <- MCBlackBoxes
  Patterns <- MCPatterns
  Queries <- MCQueries
INVARIANTS NamesExact ConesConverse AnswersComplete RoundTrip
CHECK_DEADLOCK FALSE
