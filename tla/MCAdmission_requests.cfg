SPECIFICATION AdmissionSpec
CONSTANTS
  Clients = {c1, c2}
  Users = {}
  NoUser = NoUser
  Cap = 1
  MaxCost = 1
  MaxCalls = 3
  MaxWindow = 1
  Requests = {r1, r2, r3}
  Budget = 1
  TokenLimit = 2
  MaxConcurrent = 2
  Ids = {1, 2, 3}
  Capacity <- MCCapacity
  Window = 3
  MaxBuckets = 2
  EvictTarget = 1
  EndOfTime = 5
  MaxBytes = 2
  Chunks = {0, 1, 2}
  MaxChunks = 3
  Askers = {r1, r2, r3}
  Questions <- MCQuestions
  Resemblance <- MCResemblance
  MinSimilarity = 3
  VerifyMin = 2
  EntryTTL = 1
  Sizes = {1, 2}
  EndOfClock = 1
SYMMETRY Symmetry
INVARIANTS
  OverrunBounded
  BucketsBounded
  WaitIsEnough
  ReadsWhatWasSent
  OneResponse
  AnswersTheQuestion
PROPERTIES
  NoFalseDenial
  DropsTheFullest
CHECK_DEADLOCK FALSE
