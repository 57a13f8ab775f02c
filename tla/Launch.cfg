SPECIFICATION FairSpec
CONSTANTS
  Procs = {p1, p2}
  Conns = {c1}
  Watched = {p2}
  MaxRetries = 2
  None = None
INVARIANTS LeavesNothing SuccessWasAskedFor
PROPERTIES SavedIsWholeAndProbed StopsAsAWhole
