CONSTANTS
  MaxGoals = 2
  Depth = 2
  MaxLines = 1
SPECIFICATION FairSpec
INVARIANTS BeltStops BeltRunsForGoal EndsWithObject
PROPERTY GoalEnds
