SPECIFICATION FairSpec
CONSTANTS
  Conns = {c1, c2}
  BacklogCap = 2
  SlowClientBuffer = 1
  MaxSent = 5
INVARIANTS NoPanic SeamlessStream
PROPERTIES ImplementsFeed EventuallyDelivered CloseReleasesHandlers
\* Everybody may have left a closed broadcaster for good.
CHECK_DEADLOCK FALSE
