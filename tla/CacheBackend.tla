----------------------------- MODULE CacheBackend -----------------------------
(***************************************************************************)
(* The cache backends (cache.py): MemoryCache, one per worker, and         *)
(* RedisCache, shared by the workers until an access raises; from then on  *)
(* the worker has a MemoryCache of its own.                                *)
(*                                                                         *)
(* An access to Redis takes two steps, sending it and having its answer,   *)
(* and other accesses of the worker may be under way meanwhile.  One to a  *)
(* MemoryCache is atomic.                                                  *)
(***************************************************************************)
EXTENDS Naturals, FiniteSets, Dict

CONSTANTS
  Callers,      \* coroutines that use the cache
  Workers,
  Keys,
  MaxEntries,   \* max_entries of a MemoryCache
  Horizon       \* bound: how far the clock goes

ASSUME BackendAssumption == MaxEntries \in Nat /\ Horizon \in Nat

VARIABLES
  backend,      \* which one build_cache made
  workerOf,     \* the worker each coroutine runs on
  flaky,        \* an access to Redis may raise in this behaviour
  now,          \* time.time(), and Redis' clock
  redis,        \* the entries of Redis
  local,        \* the entries of each worker's MemoryCache: its _store
  fallen,       \* _local is not None
  sent          \* the coroutines whose access to Redis is under way

backendVars == <<backend, workerOf, flaky, now, redis, local, fallen, sent>>

W(c) == workerOf[c]
Missing == "missing"

Live(d, k) == k \in DOMAIN d /\ d[k].exp > now
Entry(v, ttl) == [val |-> v, exp |-> now + ttl]
ValueIn(d, k) == IF Live(d, k) THEN d[k].val ELSE Missing

BackendInit ==
  /\ backend \in {"memory", "redis"}
  /\ workerOf \in [Callers -> Workers]
  /\ flaky \in BOOLEAN
  /\ now = 0
  /\ local = [w \in Workers |-> EmptyDict]
  /\ fallen = [w \in Workers |-> backend = "memory"]
  /\ sent = [c \in Callers |-> FALSE]

-----------------------------------------------------------------------------
(* MemoryCache *)

\* get() drops an entry it finds expired.
AfterGet(d, k) == IF Live(d, k) THEN d ELSE Without(d, {k})

\* _evict_expired_if_full: only what is expired goes, so the cap is a soft one.
Evict(d) ==
  IF Cardinality(DOMAIN d) >= MaxEntries
  THEN Without(d, {k \in DOMAIN d : d[k].exp <= now})
  ELSE d

\* Variant: at the cap, what is live goes too.
MemorySetEvicting(d, k, v, ttl) ==
  With(IF Cardinality(DOMAIN d) >= MaxEntries THEN EmptyDict ELSE d, k, Entry(v, ttl))

MemorySet(d, k, v, ttl) == With(Evict(d), k, Entry(v, ttl))

\* add(): the entry is not in the way once it is due.
Addable(d, k) == ~Live(d, k)
MemoryAdd(d, k, v, ttl) == IF Addable(d, k) THEN MemorySet(d, k, v, ttl) ELSE d

-----------------------------------------------------------------------------
(* Where an access goes *)

\* The worker's own MemoryCache becomes d.
OnLocal(c, d) ==
  /\ fallen[W(c)] /\ ~sent[c]
  /\ local' = [local EXCEPT ![W(c)] = d]
  /\ UNCHANGED <<backend, workerOf, flaky, now, redis, fallen, sent>>

\* Redis answers, and is d.
OnRedis(c, d) ==
  /\ sent[c]
  /\ redis' = d
  /\ sent' = [sent EXCEPT ![c] = FALSE]
  /\ UNCHANGED <<backend, workerOf, flaky, now, local, fallen>>

\* The access raises, whether or not Redis had carried it out (D: what it may be
\* now), and _degrade installs a new MemoryCache, also in the place of an earlier
\* one.  It is m after the access is repeated on it.
Degrade(c, D, m) ==
  /\ sent[c] /\ flaky
  /\ redis' \in D
  /\ local' = [local EXCEPT ![W(c)] = m]
  /\ fallen' = [fallen EXCEPT ![W(c)] = TRUE]
  /\ sent' = [sent EXCEPT ![c] = FALSE]
  /\ UNCHANGED <<backend, workerOf, flaky, now>>

Mine(c) == local[W(c)]

\* RedisCache.get: the answer is v.
Get(c, k, v) ==
  \/ OnLocal(c, AfterGet(Mine(c), k)) /\ v = ValueIn(Mine(c), k)
  \/ OnRedis(c, redis) /\ v = ValueIn(redis, k)
  \/ Degrade(c, {redis}, EmptyDict) /\ v = Missing

\* RedisCache.set: when it raises, nothing is written.
Set(c, k, v, ttl) ==
  LET d == With(redis, k, Entry(v, ttl))
  IN \/ OnLocal(c, MemorySet(Mine(c), k, v, ttl))
     \/ OnRedis(c, d)
     \/ Degrade(c, {redis, d}, EmptyDict)

\* RedisCache.add: the answer is whether the entry was added.  When it raises, the
\* add is repeated on the fallback just installed.
Add(c, k, v, ttl, added) ==
  LET d == IF Live(redis, k) THEN redis ELSE With(redis, k, Entry(v, ttl))
  IN \/ OnLocal(c, MemoryAdd(Mine(c), k, v, ttl)) /\ added = Addable(Mine(c), k)
     \/ OnRedis(c, d) /\ added = ~Live(redis, k)
     \/ Degrade(c, {redis, d}, MemoryAdd(EmptyDict, k, v, ttl)) /\ added = TRUE

\* RedisCache.delete
Delete(c, k) ==
  LET d == Without(redis, {k})
  IN \/ OnLocal(c, Without(Mine(c), {k}))
     \/ OnRedis(c, d)
     \/ Degrade(c, {redis, d}, EmptyDict)

\* An access is sent to Redis, if the worker still uses it.
Send(c) ==
  /\ ~fallen[W(c)] /\ ~sent[c]
  /\ sent' = [sent EXCEPT ![c] = TRUE]
  /\ UNCHANGED <<backend, workerOf, flaky, now, redis, local, fallen>>

\* Time passes: Redis drops what is due, a MemoryCache does not.
Tick ==
  /\ now < Horizon
  /\ now' = now + 1
  /\ redis' = Without(redis, {k \in DOMAIN redis : redis[k].exp <= now'})
  /\ UNCHANGED <<backend, workerOf, flaky, local, fallen, sent>>
=============================================================================
