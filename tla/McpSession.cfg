SPECIFICATION FairSpec
CONSTANTS
  Callers = {c1, c2}
  Purposes <- PurposesVal
  Names <- NamesVal
  Exact <- ExactVal
  Aliased <- AliasedVal
  Lists <- ListsVal
  Torn = Torn
  MaxSessions = 3
  None = None
INVARIANTS NoSessionLeaks NamesFollowSession
PROPERTIES OnlyFailedAreDropped CallsReturn
\* Callers may all be idle, and the sessions used up.
CHECK_DEADLOCK FALSE
