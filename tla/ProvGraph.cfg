SPECIFICATION Spec
CONSTANTS
  NodeIds = {n1, n2, n3, n4}
  MaxEdges = 3
  Times = {1, 2}
  maxNodes = 2
  MaxTouch = 8
SYMMETRY Symmetry
INVARIANTS WellLinked WithinBound
PROPERTIES LeastRecentFirst AppendedEdgeLives SweepKeepsFresh
CHECK_DEADLOCK FALSE
