CONSTANTS
  Callers = {r1, r2}
  Workers = {w1, w2}
  Keys = {"vectors", "claim"}
  MaxEntries = 1
  Horizon = 1
  ValueTTL = 1
  ClaimTTL = 1
  MaxPolls = 1
  Deadlines = FALSE
SPECIFICATION FairSpec
INVARIANTS
  FreshDimensions
CHECK_DEADLOCK FALSE
