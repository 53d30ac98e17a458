SPECIFICATION Spec
CONSTANTS
  Width = 4
  Drivers = {a, b}
  Merges = {TRUE, FALSE}
  MaxCalls = 4
INVARIANTS
  TypeOK
  IntervalsDisjoint
  CoverageExact
  NoDriverLost
CHECK_DEADLOCK FALSE
