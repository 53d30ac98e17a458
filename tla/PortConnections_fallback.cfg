SPECIFICATION Spec
CONSTANTS
  Designs <- DefaultDesigns
  Root = "top"
INVARIANT NoConnectionMissed
CHECK_DEADLOCK FALSE
