CONSTANTS
  Workers = {w1}
  Keys = {k1, k2}
  StaticKeys = {}
  Grants = {2}
  Costs = {1}
  MaxKeys = 2
  MaxCredits = 2
  MaxAttempts = 1
  Horizon = 1
  MaxCalls <- MCMaxCalls
SPECIFICATION Spec
INVARIANTS
  NoStrandedCredit
CHECK_DEADLOCK FALSE
