CONSTANTS
  x = x
  y = y
  q = q
  w = w
  Symbols = {x, y, q, w}
  Width = 3
  Nodes = {1, 2, 3, 4, 5, 6, 7, 8, 9}
  NodeBounds <- SomeBounds
  Main = main
  Workers = {w1, w2}
  Ports <- SomePorts
  Blocks <- SomeBlocks
  Faults <- SomeFaults
  Parallel = {TRUE, FALSE}
  Threshold = 3
SPECIFICATION FairSpec
INVARIANTS
  EdgesExact
  AnnotationsExact
  OneWriterPerTarget
  TasksJoined
  FailureReported
PROPERTY BuildEnds
CHECK_DEADLOCK FALSE
