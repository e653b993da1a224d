CONSTANTS
  Workers = {w1, w2}
  Keys = {k1, k2}
  StaticKeys = {}
  Grants = {2}
  Costs = {1}
  MaxKeys = 1
  MaxCredits = 1
  MaxAttempts = 1
  Horizon = 1
  MaxCalls <- MCMaxCalls
SPECIFICATION FairSpec
INVARIANTS
  KeysWithinCap
  MutualExclusion
PROPERTIES
  ImplementsLedger
  EveryCallReturns
CHECK_DEADLOCK FALSE
