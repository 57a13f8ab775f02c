SPECIFICATION Spec
CONSTANTS
  NodeIds = {n1, n2, n3, n4}
  MaxEdges = 4
  Times = {1, 2}
  maxNodes = 0
  MaxEvents = 3
  MaxSweeps = 1
  SignalBuffer = 1
  None = None
INVARIANTS ScorerFollowsGraphWhenIdle
CHECK_DEADLOCK FALSE
