CONSTANTS
  w1 = w1
  w2 = w2
  pA = pA
  pB = pB
  k1 = k1
  k2 = k2
  Requests = {r1, r2, r3}
  Remote = {r3}
  Workers = {w1, w2}
  Providers = {pA}
  Targets = {k1}
  ProviderOf <- OneTarget
  Chain <- SameTarget
  WorkerOf <- TwoWorkers
  CacheUsers = {r1, r2, r3}
  Errors = {"5xx"}
  MaxAttempts = 1
  MaxPolls = 1
  Threshold = 2
  Cooldowns = FALSE
  Deadlines = TRUE
  Lapses = FALSE
  Crashes = TRUE
SPECIFICATION FairSpec
INVARIANTS
  OneHolder
  
PROPERTIES
  EveryRequestAnswered
CHECK_DEADLOCK FALSE
