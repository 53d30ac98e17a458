SPECIFICATION Spec
CONSTANTS
  Designs <- MCDesigns
  Root = "top"
INVARIANTS ConnectionsReach CutsReachEveryLevel ConnectionsExact
CHECK_DEADLOCK FALSE
