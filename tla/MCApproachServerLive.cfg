CONSTANTS
  Callbacks = {c1, c2}
  Threads = 3
  Labels = {cola}
  MaxGoals = 2
  NoBoxLimit = 2
  GoalLimit = 1
  Overlapping = FALSE
SPECIFICATION FairSpec
PROPERTY GoalEnds
CHECK_DEADLOCK FALSE
