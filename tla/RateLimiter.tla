------------------------------ MODULE RateLimiter ------------------------------
(***************************************************************************)
(* The in-process rate limiter (RateLimiter of rate_limit.py): a token     *)
(* bucket per client, made when the client is first seen, refilled when it *)
(* is looked at, and dropped to make room for others.                      *)
(*                                                                         *)
(* Tokens are counted in parts of a token, Window parts to one: a bucket   *)
(* of capacity c then gains c parts a second, and nothing is rounded.      *)
(***************************************************************************)
EXTENDS Naturals, FiniteSets, Dict

CONSTANTS
  Ids,          \* client identifiers, as numbers: sorted() breaks ties by them
  Capacity,     \* the capacity each is asked with: the default, or its override
  Window,       \* window, in seconds
  MaxBuckets,   \* max_buckets
  EvictTarget,  \* max(1, int(max_buckets * _EVICT_FRACTION))
  EndOfTime     \* bound: how far the clock goes

ASSUME LimiterAssumption ==
  /\ Ids \subseteq Nat /\ Capacity \in [Ids -> Nat \ {0}]
  /\ Window \in Nat \ {0} /\ EndOfTime \in Nat
  /\ MaxBuckets \in Nat \ {0} /\ EvictTarget \in 1 .. MaxBuckets

VARIABLES
  buckets,      \* _buckets
  clock,        \* time.time()
  refused       \* the client that was just told to come back later, if any

limiterVars == <<buckets, clock, refused>>

Whole == Window
FullOf(k) == Capacity[k] * Whole
Less(a, b) == IF a < b THEN a ELSE b

\* _tokens_now of a bucket that was last written at time b.last.
Refilled(k, b, t) == Less(FullOf(k), b.tokens + (t - b.last) * Capacity[k])

\* A client without a bucket has a full one.
LevelIn(d, k, t) == IF k \in DOMAIN d THEN Refilled(k, d[k], t) ELSE FullOf(k)
Level(k) == LevelIn(buckets, k, clock)

\* Is i after j in the order of (level / cap, key)?
Fuller(d, i, j) ==
  LET a == LevelIn(d, i, clock) * Capacity[j]
      b == LevelIn(d, j, clock) * Capacity[i]
  IN a > b \/ (a = b /\ i > j)

\* Variant: what has most to refill goes.
EvictedEmptiest(d) ==
  {k \in DOMAIN d : Cardinality({j \in DOMAIN d : Fuller(d, k, j)}) < EvictTarget}

\* remaining[-target:]: the last of the sorted list.
Evicted(d) == {k \in DOMAIN d : Cardinality({j \in DOMAIN d : Fuller(d, j, k)}) < EvictTarget}

\* Variant: only buckets that are full again go.
ReclaimFullOnly(d) == Without(d, {k \in DOMAIN d : LevelIn(d, k, clock) = FullOf(k)})

\* _reclaim
Reclaimed(d) ==
  LET idle == {k \in DOMAIN d : LevelIn(d, k, clock) = FullOf(k)}
      left == Without(d, idle)
  IN IF Cardinality(DOMAIN left) < MaxBuckets THEN left ELSE Without(left, Evicted(left))

Room(d) == IF Cardinality(DOMAIN d) >= MaxBuckets THEN Reclaimed(d) ELSE d

\* allow: make room, refill, and take a token if there is one.
Allow(k) ==
  LET d == Room(buckets)
      tokens == LevelIn(d, k, clock)
      taken == IF tokens < Whole THEN 0 ELSE Whole
  IN /\ buckets' = With(d, k, [tokens |-> tokens - taken, last |-> clock])
     /\ refused' = IF taken = 0 THEN {k} ELSE {}
     /\ UNCHANGED clock

\* Variant: the seconds are cut off, not rounded up.
RetryAfterCut(k) ==
  IF Level(k) >= Whole THEN 0
  ELSE LET s == (Whole - Level(k)) \div Capacity[k] IN IF s < 1 THEN 1 ELSE s

\* retry_after: ceil((1 - tokens) * window / cap), at least 1.
RetryAfter(k) ==
  IF Level(k) >= Whole THEN 0
  ELSE LET s == (Whole - Level(k) + Capacity[k] - 1) \div Capacity[k] IN IF s < 1 THEN 1 ELSE s

\* remaining
Remaining(k) == Level(k) \div Whole

Second ==
  /\ clock < EndOfTime
  /\ clock' = clock + 1
  /\ refused' = {}
  /\ UNCHANGED buckets

LimiterInit == buckets = EmptyDict /\ clock = 0 /\ refused = {}
LimiterNext == (\E k \in Ids : Allow(k)) \/ Second

LimiterSpec == LimiterInit /\ [][LimiterNext]_limiterVars

-----------------------------------------------------------------------------
(* Correctness *)

\* However many distinct clients come, the buckets do not outgrow the cap: where
\* none is full, some are given up ("the dict then grew past the cap without limit").
BucketsBounded == Cardinality(DOMAIN buckets) <= MaxBuckets

\* Giving up buckets hands out as little as it can: a client whose level a request
\* raises, by dropping its bucket, had at least as much of its capacity left as any
\* whose bucket stays, so that nobody floods the table with new names to have a bucket
\* of its own reset before others'; and it is one of EvictTarget clients at most.
DropsTheFullest ==
  [][\A k \in Ids :
       LET raised == {i \in Ids : LevelIn(buckets', i, clock) > Level(i)}
           kept == (DOMAIN buckets \cap DOMAIN buckets') \ (raised \cup {k})
       IN Allow(k) =>
            /\ Cardinality(raised) <= EvictTarget
            /\ \A i \in raised, j \in kept : Level(i) * Capacity[j] >= Level(j) * Capacity[i]
    ]_limiterVars

\* A client refused a moment ago that waits for as long as its Retry-After says has a
\* token then, and one second less would not do.  Nobody is refused who has a token.
WaitIsEnough ==
  \A k \in refused :
    LET wait == RetryAfter(k)
    IN /\ wait > 0 /\ LevelIn(buckets, k, clock + wait) >= Whole
       /\ LevelIn(buckets, k, clock + wait - 1) < Whole
       /\ Remaining(k) = 0
=============================================================================
