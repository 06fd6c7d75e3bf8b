CONSTANTS
  Others = {"lemon"}
  Unreachable = {"approach", "move", "conveyor"}
SPECIFICATION Spec
INVARIANTS ReleasedInBin BeltOnlyWhenEmpty HeldIsLabel NothingHalted
PROPERTIES HeldNeverJumps FollowsPlan KeepsLooking TicksReturn
