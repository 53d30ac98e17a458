SPECIFICATION Spec
CONSTANTS
  Symbols <- MCSymbols
  Width = 3
  Cuts <- MCCuts
  Blocks <- MCBlocks
  Expressions <- MCExpressions
  Conditions <- MCConditions
  MaxStmts = 4
  MaxDepth = 2
  MaxArms = 2
INVARIANTS DefinitionsExact ReadsResolved HandedExact AlignmentExact
CHECK_DEADLOCK FALSE
