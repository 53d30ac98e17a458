CONSTANTS
  n1 = n1
  n2 = n2
  n3 = n3
  t1 = t1
  t2 = t2
  Nodes = {n1, n2, n3}
  Threads = {t1, t2}
  NoThread = NoThread
  Requests <- AcyclicRequests
  Threshold = 1
  MaxCalls = 4
SPECIFICATION FairSpec
INVARIANTS
  TypeOK
  NoDanglingInEdge
  EveryEdgeLinked
  IndexIsFirst
  NoWaitCycle
PROPERTIES
  AddEdgeDeduplicates
  EveryCallReturns
CHECK_DEADLOCK FALSE
