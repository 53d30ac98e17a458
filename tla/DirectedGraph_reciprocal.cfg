CONSTANTS
  n1 = n1
  n2 = n2
  n3 = n3
  t1 = t1
  t2 = t2
  Nodes = {n1, n2, n3}
  Threads = {t1, t2}
  NoThread = NoThread
  Requests <- ReciprocalRequests
  Threshold = 1
  MaxCalls = 2
SPECIFICATION Spec
INVARIANT NoWaitCycle
CHECK_DEADLOCK FALSE
