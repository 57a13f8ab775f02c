SPECIFICATION Spec
CONSTANTS
  NodeIds = {n1, n2, n3, n4, n5}
  MaxEdges = 4
  Times = {1}
  maxNodes = 4
  MaxEvents = 3
  MaxSweeps = 0
  SignalBuffer = 1
  None = None
SYMMETRY Symmetry
INVARIANTS IncidentsAreComponents SignalsNameTheirIncident ScorerFollowsGraphWhenIdle
CHECK_DEADLOCK FALSE
