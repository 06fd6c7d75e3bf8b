CONSTANTS
  Others = {"lemon"}
  Unreachable = {"approach"}
SPECIFICATION TreeSpec
PROPERTY TickReturns
