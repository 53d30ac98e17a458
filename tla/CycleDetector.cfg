CONSTANTS
  Nodes = {1, 2, 3}
  Graphs <- SomeGraphs
SPECIFICATION CycleSpec
INVARIANTS
  TypeOK
  StackIsPath
  OneParent
  VisitsReachable
  PathsExact
  LoopsAreCycles
  NoLoopEscapes
CHECK_DEADLOCK FALSE
