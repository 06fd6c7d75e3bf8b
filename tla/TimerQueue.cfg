CONSTANTS
  MaxTimers = 2
  MaxTime = 5
  MaxPending = 2
  Delays = {2}
  Idle = 1
SPECIFICATION FairSpec
INVARIANTS TypeOK AtMostOnce AbortedOrDue NeverLate
PROPERTIES TimerRuns DestroyReturns
CHECK_DEADLOCK FALSE
