SPECIFICATION WireSpec
CONSTANTS
  MaxEvents = 4
  MaxItems = 6
  MaxCalls = 2
  Functions = {"f", "g"}
  MaxTurns = 5
  MaxBlocks = 2
  MaxSaid = 5
  Tools = {"f", "g"}
  MaxSystem = 3
INVARIANTS
  EveryAnswerIsAccounted
  OneTerminal
  OrderKept
  ReleasedBySummary
  BlocksWellFormed
  
  ArrivesAsAssumed
  
  
  SystemKept
CHECK_DEADLOCK FALSE
