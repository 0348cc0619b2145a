SPECIFICATION MonitorSpec
CONSTANTS
  near = near
  far = far
  None = None
  Frames <- MCFrames
  Stamps = {TRUE}
  Retention = 2
  Window = 2
  StaleAfter = 1
  Grace = 2
  MaxFrames = 3
  MaxSessions = 2
  EndOfStream = 3
INVARIANTS ArrivalIsOwned
CHECK_DEADLOCK FALSE
