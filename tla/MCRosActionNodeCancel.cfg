CONSTANTS
  Leaves = {l1, l2}
  NoLeaf = NoLeaf
  MaxGoals = 3
  Outcomes = {"SUCCEEDED"}
  Rejecting = FALSE
  Halting = FALSE
SPECIFICATION Spec
INVARIANT CancelsCurrentGoal
SYMMETRY Symmetry
CHECK_DEADLOCK FALSE
