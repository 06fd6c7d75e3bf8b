CONSTANTS
  Size = 1
  Reach = {0}
  Depth = 2
  MaxGoals = 2
  MaxCallbacks = 1
SPECIFICATION FairSpec
INVARIANTS TypeOK Settled
PROPERTIES BackNeedsCause MoveArrives
CHECK_DEADLOCK FALSE
