SPECIFICATION OrderlySpec
CONSTANTS
  Events = {e1, e2}
  MaxTime = 2
  OutCap = 1
  InitialBackoff = 1
  MaxBackoff = 3
  None = None
PROPERTIES OversizedSkipped
CHECK_DEADLOCK FALSE
