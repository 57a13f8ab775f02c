SPECIFICATION FairSpec
CONSTANTS
  Incidents = {i1, i2}
  Window = 3
  MaxLog = 4
  MaxSockets = 3
  InitialRetry = 1
  MaxRetry = 3
  None = None
INVARIANTS OneSocket ReplayIsTransparent
PROPERTIES SilentAfterClose EventuallyShown
\* A closed page stays closed.
CHECK_DEADLOCK FALSE
