SPECIFICATION FairSpec
CONSTANTS
  Events = {e1, e2}
  MaxTime = 2
  OutCap = 1
  InitialBackoff = 1
  MaxBackoff = 3
  None = None
INVARIANTS NoPanic NothingSkipped
PROPERTIES OnlyLastInstantRepeated CloseReturns EventuallyDelivered
\* A closed source stays closed.
CHECK_DEADLOCK FALSE
