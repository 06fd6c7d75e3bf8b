CONSTANTS
  Leaves = {l1, l2}
  NoLeaf = NoLeaf
  MaxGoals = 2
  Outcomes = {"SUCCEEDED", "ABORTED", "CANCELED"}
  Rejecting = TRUE
  Halting = TRUE
SPECIFICATION FairSpec
INVARIANTS StaleSuccessNeedsTimeout
PROPERTY RunningEnds
CHECK_DEADLOCK FALSE
