SPECIFICATION Spec
CONSTANTS
  Width = 4
  Drivers = {a}
  Merges = {FALSE}
  MaxCalls = 4
INVARIANTS
  NeverFreedHandle
CHECK_DEADLOCK FALSE
