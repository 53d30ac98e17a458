SPECIFICATION Spec
CONSTANTS
  Threads = {t1, t2}
  Vectors = {own, other}
  Shared = own
  Symbols = {a, b}
  NoCall = NoCall
  MaxCalls = 4
INVARIANTS InBounds VisitAllExact
PROPERTIES ReferencesStayValid EveryAddReturns ImplementsStore
CHECK_DEADLOCK FALSE
