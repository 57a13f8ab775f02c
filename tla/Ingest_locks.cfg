SPECIFICATION FairSpec
CONSTANTS
  NodeIds = {n1, n2, n3}
  MaxEdges = 3
  Times = {1, 2}
  maxNodes = 2
  MaxEvents = 2
  MaxSweeps = 1
  SignalBuffer = 1
  None = None
PROPERTIES GoroutinesFinish
CHECK_DEADLOCK FALSE
