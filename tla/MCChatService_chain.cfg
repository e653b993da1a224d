CONSTANTS
  w1 = w1
  w2 = w2
  pA = pA
  pB = pB
  k1 = k1
  k2 = k2
  Requests = {r1, r2}
  Remote = {r2}
  Workers = {w1, w2}
  Providers = {pA, pB}
  Targets = {k1, k2}
  ProviderOf <- TwoProviders
  Chain <- WithFallback
  WorkerOf <- TwoWorkers
  CacheUsers = {r1}
  Errors = {"4xx", "429", "5xx", "broken"}
  MaxAttempts = 2
  MaxPolls = 1
  Threshold = 2
  Cooldowns = TRUE
  Deadlines = TRUE
  Lapses = TRUE
  Crashes = FALSE
SPECIFICATION Spec
SYMMETRY Symmetry
INVARIANTS
  NeverFallsThrough
  NoTargetForgotten
CHECK_DEADLOCK FALSE
