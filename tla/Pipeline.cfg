SPECIFICATION FairSpec
CONSTANTS
  Incidents = {i1, i2}
  MaxEvents = 2
  MaxSteps = 1
  SignalBuffer = 1
  Idle = TRUE
  HasIntel = TRUE
  None = None
INVARIANTS ReportsFollowTheirChain BurstsCoalesce
PROPERTIES CancelEnds SignalsAnswered
\* Nothing is left to do once Run has returned.
CHECK_DEADLOCK FALSE
