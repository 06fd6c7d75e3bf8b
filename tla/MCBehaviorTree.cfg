CONSTANTS
  Forest  <- MCForest
  Subject <- MCSubject
  Values = {"v"}
SPECIFICATION SpecR
INVARIANTS TypeOK NoOrphan FreshStart EarlyNeedsOldHandler StartedOrGoesOn
PROPERTY ResultPromised
CHECK_DEADLOCK FALSE
