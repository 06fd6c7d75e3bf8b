CONSTANTS
  MaxTimers = 1
  MaxTime = 3
  MaxPending = 1
  Delays = {2}
  Idle = 1
SPECIFICATION Spec
INVARIANT AllHandlersRun
CHECK_DEADLOCK FALSE
