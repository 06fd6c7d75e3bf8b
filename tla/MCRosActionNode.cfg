CONSTANTS
  Leaves = {l1, l2}
  NoLeaf = NoLeaf
  MaxGoals = 3
  Outcomes = {"SUCCEEDED", "ABORTED", "CANCELED"}
  Rejecting = TRUE
  Halting = FALSE
SPECIFICATION Spec
INVARIANTS TypeOK SuccessIsOwn OverlapNeedsAbandoned ResultNotLost CrashNeedsTimeout
PROPERTY ImplementsActionLeaf
SYMMETRY Symmetry
CHECK_DEADLOCK FALSE
