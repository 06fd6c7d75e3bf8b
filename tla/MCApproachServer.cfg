CONSTANTS
  Callbacks = {c1, c2}
  Threads = 3
  Labels = {cola, grape}
  MaxGoals = 2
  NoBoxLimit = 2
  GoalLimit = 1
  Overlapping = TRUE
SPECIFICATION Spec
INVARIANTS TypeOK ResultIsOwn StuckNeedsEarlyFinish
SYMMETRY Symmetry
CHECK_DEADLOCK FALSE
