--------------------------- MODULE EmbeddingsProofs ---------------------------
(***************************************************************************)
(* Proofs about CacheBackend and the embeddings that use it, for any       *)
(* callers, workers, caps and lifetimes.  What an access does is stated    *)
(* once, as what each worker sees of the cache after it (the lemmas on     *)
(* Shown); the rest follows from that.                                     *)
(***************************************************************************)
EXTENDS Embeddings, TLAPS

Items == [val : Holders \cup Vectors, exp : Nat]
IsCache(d) == IsDict(d, Keys, Items)

CacheTypes ==
  /\ backend \in {"memory", "redis"}
  /\ workerOf \in [Callers -> Workers]
  /\ flaky \in BOOLEAN
  /\ now \in Nat
  /\ IsCache(redis)
  /\ local \in [Workers -> UNION {[K -> Items] : K \in SUBSET Keys}]
  /\ fallen \in [Workers -> BOOLEAN]
  /\ sent \in [Callers -> BOOLEAN]

\* Where no access raises, a deployment uses one kind of cache for good.
Steady ==
  ~flaky =>
    /\ \A w \in Workers : fallen[w] <=> backend = "memory"
    /\ \A c \in Callers : sent[c] => backend = "redis"
    /\ backend = "memory" => "claim" \notin DOMAIN redis
    /\ backend = "redis" => \A w \in Workers : "claim" \notin DOMAIN local[w]

CacheInv == CacheTypes /\ Steady

-----------------------------------------------------------------------------
(* What is seen of a dict *)

LEMMA WithCache ==
  ASSUME NEW d, IsCache(d), NEW k \in Keys, NEW e \in Items
  PROVE  IsCache(With(d, k, e))
BY DEF IsCache, IsDict, With

LEMMA WithoutCache ==
  ASSUME NEW d, IsCache(d), NEW S
  PROVE  IsCache(Without(d, S))
BY DEF IsCache, IsDict, Without

LEMMA EmptyCache == IsCache(EmptyDict)
BY DEF IsCache, IsDict, EmptyDict

LEMMA LocalCache ==
  ASSUME CacheTypes
  PROVE  /\ \A w \in Workers : IsCache(local[w])
         /\ \A d : IsCache(d) => \A w \in Workers :
              [local EXCEPT ![w] = d] \in [Workers -> UNION {[K -> Items] : K \in SUBSET Keys}]
<1>1. \A d : IsCache(d) <=> d \in UNION {[K -> Items] : K \in SUBSET Keys}
  BY DEF IsCache, IsDict
<1> HIDE DEF IsCache
<1> QED
  BY <1>1 DEF CacheTypes

LEMMA EntryIsItem ==
  ASSUME CacheTypes, NEW v \in Holders \cup Vectors, NEW ttl \in Nat
  PROVE  Entry(v, ttl) \in Items
BY DEF CacheTypes, Entry, Items

\* A get is not to be seen.
LEMMA GetUnseen ==
  ASSUME NEW d, NEW k
  PROVE  Visible(AfterGet(d, k)) = Visible(d)
<1>1. CASE Live(d, k)
  BY <1>1 DEF AfterGet
<1>2. CASE ~Live(d, k)
  <2> DEFINE e == Without(d, {k})
  <2>1. DOMAIN e = DOMAIN d \ {k} /\ \A j \in DOMAIN e : e[j] = d[j]
    BY DEF Without
  <2> HIDE DEF e
  <2>2. {j \in DOMAIN e : Live(e, j)} = {j \in DOMAIN d : Live(d, j)}
    BY <1>2, <2>1 DEF Live
  <2>3. Visible(e) = Visible(d)
    BY <2>1, <2>2 DEF Visible
  <2> QED
    BY <1>2, <2>3 DEF AfterGet, e
<1> QED
  BY <1>1, <1>2

\* An entry that is written is seen, and nothing else changes, whatever was evicted.
LEMMA WrittenIsSeen ==
  ASSUME CacheTypes, NEW d, IsCache(d), NEW k, NEW v, NEW ttl \in Nat \ {0}
  PROVE  /\ Visible(With(d, k, Entry(v, ttl))) = With(Visible(d), k, Entry(v, ttl))
         /\ Visible(MemorySet(d, k, v, ttl)) = With(Visible(d), k, Entry(v, ttl))
<1> DEFINE x == Entry(v, ttl)
<1>0. now \in Nat
  BY DEF CacheTypes
<1>1. x.exp > now
  BY <1>0 DEF Entry
<1> HIDE DEF x
<1>2. ASSUME NEW f, Visible(f) = Visible(d)
      PROVE  Visible(With(f, k, x)) = With(Visible(d), k, x)
  <2> DEFINE e == With(f, k, x)
  <2>1. /\ DOMAIN e = DOMAIN f \cup {k} /\ e[k] = x
        /\ \A j \in DOMAIN f \ {k} : e[j] = f[j]
    BY DEF With
  <2> HIDE DEF e
  <2>2. {j \in DOMAIN e : Live(e, j)} = {j \in DOMAIN f : Live(f, j)} \cup {k}
    BY <1>1, <2>1 DEF Live
  <2>3. Visible(e) = [j \in {j \in DOMAIN f : Live(f, j)} \cup {k} |-> e[j]]
    BY <2>2 DEF Visible
  <2>4. \A j \in {j \in DOMAIN f : Live(f, j)} \cup {k} : e[j] = IF j = k THEN x ELSE Visible(f)[j]
    BY <2>1 DEF Visible
  <2>5. Visible(e) = With(Visible(f), k, x)
    BY <2>3, <2>4 DEF With, Visible
  <2> QED
    BY <1>2, <2>5 DEF e
<1>3. Visible(Evict(d)) = Visible(d)
  <2> DEFINE e == Without(d, {j \in DOMAIN d : d[j].exp <= now})
  <2>1. CASE Evict(d) = d
    BY <2>1
  <2>2. CASE Evict(d) = e
    <3>1. DOMAIN e = {j \in DOMAIN d : ~(d[j].exp <= now)} /\ \A j \in DOMAIN e : e[j] = d[j]
      BY DEF Without
    <3> HIDE DEF e
    <3>2. \A j \in DOMAIN d : Live(d, j) => j \in DOMAIN e
      <4>1. \A j \in DOMAIN d : d[j].exp > now => ~(d[j].exp <= now)
        BY <1>0 DEF IsCache, IsDict, Items
      <4> QED
        BY <3>1, <4>1 DEF Live
    <3>3. {j \in DOMAIN e : Live(e, j)} = {j \in DOMAIN d : Live(d, j)}
      BY <3>1, <3>2 DEF Live
    <3> QED
      BY <2>2, <3>1, <3>3 DEF Visible
  <2> QED
    BY <2>1, <2>2 DEF Evict
<1> QED
  BY <1>2, <1>3 DEF MemorySet, x

LEMMA DeletedIsUnseen ==
  ASSUME NEW d, NEW k
  PROVE  Visible(Without(d, {k})) = Without(Visible(d), {k})
<1> DEFINE e == Without(d, {k})
<1>1. DOMAIN e = DOMAIN d \ {k} /\ \A j \in DOMAIN e : e[j] = d[j]
  BY DEF Without
<1> HIDE DEF e
<1>2. {j \in DOMAIN e : Live(e, j)} = {j \in DOMAIN d : Live(d, j)} \ {k}
  BY <1>1 DEF Live
<1>3. Visible(e) = Without(Visible(d), {k})
  BY <1>1, <1>2 DEF Visible, Without
<1> QED
  BY <1>3 DEF e

-----------------------------------------------------------------------------
(* What an access shows *)

\* What a worker uses; who uses the same as c; whose worker the access of c took to its
\* fallback.
Seen(w) == IF fallen[w] THEN local[w] ELSE redis
Shares(c, w) == w = W(c) \/ backend = "redis"
Fell(c, w) == W(c) = w /\ sent[c] /\ flaky /\ fallen'[w]

\* An access of c, which makes its MemoryCache l, or Redis d, or a new fallback m.
Accesses(c, l, d, m) == OnLocal(c, l) \/ OnRedis(c, d) \/ Degrade(c, {redis, d}, m)

LEMMA AccessKeeps ==
  ASSUME CacheInv, NEW c \in Callers, NEW l, NEW d, NEW m, IsCache(l), IsCache(d), IsCache(m),
         Accesses(c, l, d, m)
  PROVE  CacheInv' /\ now' = now /\ flaky' = flaky /\ workerOf' = workerOf /\ backend' = backend
<1>1. W(c) \in Workers
  BY DEF CacheInv, CacheTypes, W
<1>2. CacheTypes'
  <2>1. CASE OnLocal(c, l)
    <3>1. local' \in [Workers -> UNION {[K -> Items] : K \in SUBSET Keys}]
      BY <1>1, <2>1, LocalCache DEF CacheInv, OnLocal
    <3> QED
      BY <2>1, <3>1 DEF OnLocal, CacheInv, CacheTypes
  <2>2. CASE OnRedis(c, d)
    BY <2>2 DEF OnRedis, CacheInv, CacheTypes
  <2>3. CASE Degrade(c, {redis, d}, m)
    <3>1. local' \in [Workers -> UNION {[K -> Items] : K \in SUBSET Keys}]
      BY <1>1, <2>3, LocalCache DEF CacheInv, Degrade
    <3>2. redis' = redis \/ redis' = d
      BY <2>3 DEF Degrade
    <3>3. IsCache(redis')
      BY <3>2 DEF CacheInv, CacheTypes
    <3> QED
      BY <1>1, <2>3, <3>1, <3>3 DEF Degrade, CacheInv, CacheTypes
  <2> QED
    BY <2>1, <2>2, <2>3 DEF Accesses
<1>3. now' = now /\ flaky' = flaky /\ workerOf' = workerOf /\ backend' = backend
  BY DEF Accesses, OnLocal, OnRedis, Degrade
<1>4. Steady'
  <2> SUFFICES ASSUME ~flaky PROVE Steady'
    BY <1>3 DEF Steady
  <2>1. CASE OnLocal(c, l)
    <3>1. backend = "memory" /\ redis' = redis /\ fallen' = fallen /\ sent' = sent
      BY <1>1, <2>1 DEF OnLocal, CacheInv, Steady
    <3> QED
      BY <1>3, <3>1 DEF CacheInv, Steady
  <2>2. CASE OnRedis(c, d)
    <3>1. /\ backend = "redis" /\ local' = local /\ fallen' = fallen
          /\ \A e \in Callers : sent'[e] => sent[e]
      BY <2>2 DEF OnRedis, CacheInv, CacheTypes, Steady
    <3> QED
      BY <1>3, <3>1 DEF CacheInv, Steady
  <2>3. ~Degrade(c, {redis, d}, m)
    BY DEF Degrade
  <2> QED
    BY <2>1, <2>2, <2>3 DEF Accesses
<1> QED
  BY <1>2, <1>3, <1>4 DEF CacheInv

LEMMA AccessShown ==
  ASSUME CacheInv, NEW c \in Callers, NEW l, NEW d, NEW m, Accesses(c, l, d, m),
         NEW w \in Workers
  PROVE  \/ Fell(c, w)
         \/ Shown(w)' = Shown(w) /\ (~flaky => ~Shares(c, w))
         \/ Shown(w)' = Visible(l) /\ Seen(w) = Mine(c) /\ Shares(c, w)
         \/ Shown(w)' = Visible(d) /\ Seen(w) = redis /\ (~flaky => Shares(c, w))
<1>1. W(c) \in Workers
  BY DEF CacheInv, CacheTypes, W
<1>2. now' = now
  BY DEF Accesses, OnLocal, OnRedis, Degrade
<1>3. Shown(w)' = Visible(IF fallen'[w] THEN local'[w] ELSE redis')
  BY <1>2 DEF Shown, Visible, Live
<1>4. Shown(w) = Visible(Seen(w))
  BY DEF Shown, Seen
<1>5. CASE OnLocal(c, l)
  <2>1. CASE w = W(c)
    <3>1. fallen'[w] /\ local'[w] = l /\ Seen(w) = Mine(c)
      BY <1>1, <1>5, <2>1 DEF OnLocal, Seen, Mine, CacheInv, CacheTypes
    <3> QED
      BY <1>3, <2>1, <3>1 DEF Shares
  <2>2. CASE w # W(c)
    <3>1. fallen'[w] = fallen[w] /\ local'[w] = local[w] /\ redis' = redis
      BY <1>1, <1>5, <2>2 DEF OnLocal, CacheInv, CacheTypes
    <3>2. ~flaky => ~Shares(c, w)
      BY <1>1, <1>5, <2>2 DEF OnLocal, Shares, CacheInv, Steady
    <3> QED
      BY <1>3, <1>4, <3>1, <3>2 DEF Seen
  <2> QED
    BY <2>1, <2>2
<1>6. CASE OnRedis(c, d)
  <2>1. fallen' = fallen /\ local' = local /\ redis' = d /\ (~flaky => Shares(c, w) /\ ~fallen[w])
    BY <1>6 DEF OnRedis, Shares, CacheInv, Steady
  <2> QED
    BY <1>3, <1>4, <2>1 DEF Seen
<1>7. CASE Degrade(c, {redis, d}, m)
  <2>1. flaky /\ sent[c] /\ fallen' = [fallen EXCEPT ![W(c)] = TRUE] /\ redis' \in {redis, d}
        /\ local' = [local EXCEPT ![W(c)] = m]
    BY <1>7 DEF Degrade
  <2>2. CASE w = W(c)
    BY <1>1, <2>1, <2>2 DEF Fell, CacheInv, CacheTypes
  <2>3. CASE w # W(c)
    <3>1. fallen'[w] = fallen[w] /\ local'[w] = local[w]
      BY <1>1, <2>1, <2>3 DEF CacheInv, CacheTypes
    <3> QED
      BY <1>3, <1>4, <2>1, <3>1 DEF Seen
  <2> QED
    BY <2>2, <2>3
<1> QED
  BY <1>5, <1>6, <1>7 DEF Accesses

\* The four operations, as what the workers see of them.
Unseen(c) == \A w \in Workers : Fell(c, w) \/ Shown(w)' = Shown(w)
Puts(c, k, e) ==
  \A w \in Workers :
    \/ Fell(c, w)
    \/ Shown(w)' = Shown(w) /\ (~flaky => ~Shares(c, w))
    \/ Shown(w)' = With(Shown(w), k, e) /\ (~flaky => Shares(c, w))
Drops(c, k) ==
  \A w \in Workers :
    \/ Fell(c, w)
    \/ Shown(w)' = Shown(w) /\ (~flaky => ~Shares(c, w))
    \/ Shown(w)' = Without(Shown(w), {k}) /\ (~flaky => Shares(c, w))

\* What every access leaves alone.
Kept == CacheInv' /\ now' = now /\ flaky' = flaky /\ workerOf' = workerOf /\ backend' = backend

LEMMA MineIsCache ==
  ASSUME CacheInv, NEW c \in Callers
  PROVE  IsCache(Mine(c)) /\ IsCache(redis)
<1>1. W(c) \in Workers
  BY DEF CacheInv, CacheTypes, W
<1> QED
  BY <1>1, LocalCache DEF Mine, CacheInv, CacheTypes

LEMMA GetShown ==
  ASSUME CacheInv, NEW c \in Callers, NEW k, NEW v, Get(c, k, v)
  PROVE  Kept /\ Unseen(c)
<1> DEFINE l == AfterGet(Mine(c), k)
<1>1. IsCache(l)
  BY MineIsCache, WithoutCache DEF AfterGet
<1>2. Accesses(c, l, redis, EmptyDict)
  BY DEF Get, Accesses, Degrade
<1>3. Kept
  BY <1>1, <1>2, AccessKeeps, EmptyCache, MineIsCache DEF Kept
<1>4. ASSUME NEW w \in Workers
      PROVE  Fell(c, w) \/ Shown(w)' = Shown(w)
  <2>1. Visible(l) = Visible(Mine(c)) /\ Shown(w) = Visible(Seen(w))
    BY GetUnseen DEF Shown, Seen
  <2> HIDE DEF l
  <2> QED
    BY <1>2, <2>1, AccessShown
<1> QED
  BY <1>3, <1>4 DEF Unseen

LEMMA SetShown ==
  ASSUME CacheInv, NEW c \in Callers, NEW k \in Keys, NEW v \in Holders \cup Vectors,
         NEW ttl \in Nat \ {0}, Set(c, k, v, ttl)
  PROVE  Kept /\ Puts(c, k, Entry(v, ttl))
<1> DEFINE l == MemorySet(Mine(c), k, v, ttl)
           d == With(redis, k, Entry(v, ttl))
<1>1. IsCache(l) /\ IsCache(d)
  <2>1. Entry(v, ttl) \in Items
    BY EntryIsItem DEF CacheInv
  <2>2. IsCache(Evict(Mine(c)))
    BY MineIsCache, WithoutCache DEF Evict
  <2> QED
    BY <2>1, <2>2, MineIsCache, WithCache DEF MemorySet
<1>2. Accesses(c, l, d, EmptyDict)
  BY DEF Set, Accesses
<1>3. Kept
  BY <1>1, <1>2, AccessKeeps, EmptyCache DEF Kept
<1>4. ASSUME NEW w \in Workers
      PROVE  \/ Fell(c, w)
             \/ Shown(w)' = Shown(w) /\ (~flaky => ~Shares(c, w))
             \/ Shown(w)' = With(Shown(w), k, Entry(v, ttl)) /\ (~flaky => Shares(c, w))
  <2>1. /\ Visible(l) = With(Visible(Mine(c)), k, Entry(v, ttl))
        /\ Visible(d) = With(Visible(redis), k, Entry(v, ttl))
        /\ Shown(w) = Visible(Seen(w))
    BY WrittenIsSeen, MineIsCache DEF Shown, Seen, CacheInv
  <2> HIDE DEF l, d
  <2> QED
    BY <1>2, <2>1, AccessShown
<1> QED
  BY <1>3, <1>4 DEF Puts

LEMMA DeleteShown ==
  ASSUME CacheInv, NEW c \in Callers, NEW k, Delete(c, k)
  PROVE  Kept /\ Drops(c, k)
<1> DEFINE l == Without(Mine(c), {k})
           d == Without(redis, {k})
<1>1. IsCache(l) /\ IsCache(d)
  BY MineIsCache, WithoutCache
<1>2. Accesses(c, l, d, EmptyDict)
  BY DEF Delete, Accesses
<1>3. Kept
  BY <1>1, <1>2, AccessKeeps, EmptyCache DEF Kept
<1>4. ASSUME NEW w \in Workers
      PROVE  \/ Fell(c, w)
             \/ Shown(w)' = Shown(w) /\ (~flaky => ~Shares(c, w))
             \/ Shown(w)' = Without(Shown(w), {k}) /\ (~flaky => Shares(c, w))
  <2>1. /\ Visible(l) = Without(Visible(Mine(c)), {k})
        /\ Visible(d) = Without(Visible(redis), {k})
        /\ Shown(w) = Visible(Seen(w))
    BY DeletedIsUnseen DEF Shown, Seen
  <2> HIDE DEF l, d
  <2> QED
    BY <1>2, <2>1, AccessShown
<1> QED
  BY <1>3, <1>4 DEF Drops

\* An add writes where there was nothing to be seen, if the cache is the same for all.
LEMMA AddShown ==
  ASSUME CacheInv, NEW c \in Callers, NEW k \in Keys, NEW v \in Holders \cup Vectors,
         NEW ttl \in Nat \ {0}, NEW added \in BOOLEAN, Add(c, k, v, ttl, added)
  PROVE  /\ Kept
         /\ \/ Unseen(c) /\ (~flaky => ~added)
            \/ Puts(c, k, Entry(v, ttl)) /\ (~flaky => added)
         /\ ~flaky /\ added => \A w \in Workers : Shares(c, w) => k \notin DOMAIN Shown(w)
<1> DEFINE e == Entry(v, ttl)
           l == MemoryAdd(Mine(c), k, v, ttl)
           d == IF Live(redis, k) THEN redis ELSE With(redis, k, e)
           m == MemoryAdd(EmptyDict, k, v, ttl)
<1>0. W(c) \in Workers
  BY DEF CacheInv, CacheTypes, W
<1>1. e \in Items /\ IsCache(d) /\ IsCache(m)
  <2>1. e \in Items
    BY EntryIsItem DEF CacheInv
  <2>2. IsCache(Evict(EmptyDict))
    BY EmptyCache, WithoutCache DEF Evict
  <2> QED
    BY <2>1, <2>2, EmptyCache, MineIsCache, WithCache DEF MemoryAdd, MemorySet
<1>2. ASSUME Accesses(c, Mine(c), redis, m)
      PROVE  Kept /\ Unseen(c)
  <2>1. Kept
    BY <1>1, <1>2, AccessKeeps, MineIsCache DEF Kept
  <2>2. ASSUME NEW w \in Workers PROVE Fell(c, w) \/ Shown(w)' = Shown(w)
    <3>1. Shown(w) = Visible(Seen(w))
      BY DEF Shown, Seen
    <3> HIDE DEF m
    <3> QED
      BY <1>2, <3>1, AccessShown
  <2> QED
    BY <2>1, <2>2 DEF Unseen
<1>3. CASE OnLocal(c, l) /\ added = Addable(Mine(c), k)
  <2>1. CASE added
    <3>1. Set(c, k, v, ttl)
      BY <1>3, <2>1 DEF Set, MemoryAdd
    <3>2. ASSUME ~flaky, NEW w \in Workers, Shares(c, w) PROVE k \notin DOMAIN Shown(w)
      <4>1. fallen[w] /\ local[w] = Mine(c) /\ ~Live(Mine(c), k)
        BY <1>0, <1>3, <2>1, <3>2 DEF OnLocal, Addable, Shares, Mine, CacheInv, Steady
      <4> QED
        BY <4>1 DEF Shown, Visible
    <3> QED
      BY <2>1, <3>1, <3>2, SetShown
  <2>2. CASE ~added
    <3>1. OnLocal(c, Mine(c))
      BY <1>3, <2>2 DEF MemoryAdd
    <3>2. Accesses(c, Mine(c), redis, m)
      BY <3>1 DEF Accesses
    <3>3. Kept /\ Unseen(c)
      BY <1>2, <3>2
    <3> QED
      BY <2>2, <3>3
  <2> QED
    BY <2>1, <2>2
<1>4. CASE OnRedis(c, d) /\ added = ~Live(redis, k)
  <2>1. CASE added
    <3>1. Set(c, k, v, ttl)
      BY <1>4, <2>1 DEF Set
    <3>2. ASSUME ~flaky, NEW w \in Workers PROVE k \notin DOMAIN Shown(w)
      <4>1. ~fallen[w] /\ ~Live(redis, k)
        BY <1>4, <2>1, <3>2 DEF OnRedis, CacheInv, Steady
      <4> QED
        BY <4>1 DEF Shown, Visible
    <3> QED
      BY <2>1, <3>1, <3>2, SetShown
  <2>2. CASE ~added
    <3>1. OnRedis(c, redis)
      BY <1>4, <2>2
    <3>2. Accesses(c, Mine(c), redis, m)
      BY <3>1 DEF Accesses
    <3>3. Kept /\ Unseen(c)
      BY <1>2, <3>2
    <3> QED
      BY <2>2, <3>3
  <2> QED
    BY <2>1, <2>2
<1>5. CASE Degrade(c, {redis, d}, m)
  <2>0. flaky
    BY <1>5 DEF Degrade
  <2>1. CASE Live(redis, k)
    <3>1. Degrade(c, {redis, redis}, m)
      BY <1>5, <2>1
    <3> QED
      BY <1>2, <2>0, <3>1 DEF Accesses
  <2>2. CASE ~Live(redis, k)
    <3>0. d = With(redis, k, e)
      BY <2>2
    <3> HIDE DEF d, m
    <3>1. Accesses(c, Mine(c), d, m)
      BY <1>5 DEF Accesses
    <3>2. Kept
      BY <1>1, <3>1, AccessKeeps, MineIsCache DEF Kept
    <3>3. ASSUME NEW w \in Workers
          PROVE  Fell(c, w) \/ Shown(w)' = Shown(w) \/ Shown(w)' = With(Shown(w), k, e)
      <4>1. /\ Shown(w) = Visible(Seen(w)) /\ Visible(d) = With(Visible(redis), k, e)
        BY <3>0, WrittenIsSeen, MineIsCache DEF Shown, Seen, CacheInv
      <4> QED
        BY <3>1, <4>1, AccessShown
    <3> QED
      BY <2>0, <3>2, <3>3 DEF Puts
  <2> QED
    BY <2>1, <2>2
<1> QED
  BY <1>3, <1>4, <1>5 DEF Add

LEMMA SendShown ==
  ASSUME CacheInv, NEW c \in Callers, Send(c)
  PROVE  Kept /\ Unseen(c)
<1>1. W(c) \in Workers
  BY DEF CacheInv, CacheTypes, W
<1>2. sent' \in [Callers -> BOOLEAN] /\ UNCHANGED <<backend, workerOf, flaky, now, redis, local, fallen>>
  BY DEF Send, CacheInv, CacheTypes
<1>3. CacheTypes'
  BY <1>2 DEF CacheInv, CacheTypes, IsCache
<1>4. \A e \in Callers : sent'[e] => sent[e] \/ e = c
  BY DEF Send, CacheInv, CacheTypes
<1>5. ~flaky => backend = "redis"
  BY <1>1 DEF Send, CacheInv, CacheTypes, Steady
<1>6. Steady'
  BY <1>2, <1>4, <1>5 DEF CacheInv, Steady
<1>7. \A w \in Workers : Shown(w)' = Shown(w)
  BY <1>2 DEF Shown, Visible, Live
<1> QED
  BY <1>2, <1>3, <1>6, <1>7 DEF Kept, Unseen, CacheInv

\* What is due goes from everyone's sight, and nothing else.
LEMMA TickShown ==
  ASSUME CacheInv, Tick
  PROVE  /\ CacheInv' /\ now' = now + 1 /\ UNCHANGED <<flaky, workerOf, backend, fallen>>
         /\ \A w \in Workers :
              Shown(w)' = Without(Shown(w), {k \in DOMAIN Shown(w) : Shown(w)[k].exp <= now'})
         /\ \A w \in Workers :
              "claim" \in DOMAIN Seen(w) /\ Seen(w)["claim"].exp > now' => "claim" \in DOMAIN Shown(w)'
<1> DEFINE due == {k \in DOMAIN redis : redis[k].exp <= now'}
<1>1. now \in Nat /\ now' = now + 1 /\ redis' = Without(redis, due)
      /\ UNCHANGED <<backend, workerOf, flaky, local, fallen, sent>>
  BY DEF Tick, CacheInv, CacheTypes
<1>2. CacheTypes'
  <2>1. IsCache(redis')
    BY <1>1, WithoutCache, MineIsCache DEF CacheInv, CacheTypes
  <2> QED
    BY <1>1, <2>1 DEF CacheInv, CacheTypes, IsCache
<1>3. Steady'
  <2>1. DOMAIN redis' \subseteq DOMAIN redis
    BY <1>1 DEF Without
  <2> QED
    BY <1>1, <2>1 DEF CacheInv, Steady
<1>4. ASSUME NEW d, IsCache(d), NEW e, e = d \/ e = Without(d, {k \in DOMAIN d : d[k].exp <= now'})
      PROVE  [k \in {j \in DOMAIN e : e[j].exp > now'} |-> e[k]]
               = Without(Visible(d), {k \in DOMAIN Visible(d) : Visible(d)[k].exp <= now'})
  <2>1. \A k \in DOMAIN d : d[k].exp \in Nat
    BY <1>4 DEF IsCache, IsDict, Items
  <2>2. DOMAIN e \subseteq DOMAIN d /\ \A k \in DOMAIN e : e[k] = d[k]
    BY <1>4 DEF Without
  <2>3. \A k \in DOMAIN d : d[k].exp > now' => k \in DOMAIN e
    BY <1>1, <1>4, <2>1 DEF Without
  <2>4. {j \in DOMAIN e : e[j].exp > now'}
          = DOMAIN Visible(d) \ {k \in DOMAIN Visible(d) : Visible(d)[k].exp <= now'}
    BY <1>1, <2>1, <2>2, <2>3 DEF Visible, Live
  <2>5. \A k \in {j \in DOMAIN e : e[j].exp > now'} : e[k] = Visible(d)[k]
    BY <2>2, <2>4 DEF Visible
  <2> QED
    BY <2>4, <2>5 DEF Without
<1>5. ASSUME NEW w \in Workers
      PROVE  /\ Shown(w)' = Without(Shown(w), {k \in DOMAIN Shown(w) : Shown(w)[k].exp <= now'})
             /\ "claim" \in DOMAIN Seen(w) /\ Seen(w)["claim"].exp > now' => "claim" \in DOMAIN Shown(w)'
  <2> DEFINE e == IF fallen[w] THEN local[w] ELSE redis'
  <2>1. IsCache(Seen(w))
    BY MineIsCache, LocalCache DEF Seen, CacheInv, CacheTypes
  <2>2. e = Seen(w) \/ e = Without(Seen(w), {k \in DOMAIN Seen(w) : Seen(w)[k].exp <= now'})
    BY <1>1 DEF Seen
  <2>3. Shown(w)' = [k \in {j \in DOMAIN e : e[j].exp > now'} |-> e[k]]
    BY <1>1 DEF Shown, Visible, Live
  <2>4. Shown(w) = Visible(Seen(w))
    BY DEF Shown, Seen
  <2>5. Shown(w)' = Without(Shown(w), {k \in DOMAIN Shown(w) : Shown(w)[k].exp <= now'})
    <3>1. [k \in {j \in DOMAIN e : e[j].exp > now'} |-> e[k]]
            = Without(Visible(Seen(w)), {k \in DOMAIN Visible(Seen(w)) : Visible(Seen(w))[k].exp <= now'})
      <4> HIDE DEF e
      <4> QED
        BY <1>4, <2>1, <2>2
    <3> QED
      BY <2>3, <2>4, <3>1
  <2>6. ASSUME "claim" \in DOMAIN Seen(w), Seen(w)["claim"].exp > now'
        PROVE  "claim" \in DOMAIN Shown(w)'
    <3>1. Seen(w)["claim"].exp \in Nat
      BY <2>1, <2>6 DEF IsCache, IsDict, Items
    <3>2. "claim" \in DOMAIN e /\ e["claim"] = Seen(w)["claim"]
      BY <1>1, <2>2, <2>6, <3>1 DEF Without
    <3> HIDE DEF e
    <3> QED
      BY <2>3, <2>6, <3>2
  <2> QED
    BY <2>5, <2>6
<1> QED
  BY <1>1, <1>2, <1>3, <1>5 DEF CacheInv

-----------------------------------------------------------------------------
(* The requests *)

Places ==
  {"new", "lookup", "call", "claim", "poll", "pollclaim", "reclaim", "upstream", "store", "unclaim", "done"}

FlowTypes ==
  /\ pc \in [Callers -> Places]
  /\ holds \in [Callers -> BOOLEAN]
  /\ polls \in [Callers -> Nat]
  /\ result \in [Callers -> {"none", "error", "cut"} \cup Vectors]
  /\ lapsed \in BOOLEAN

\* A request holds a claim from the add that took it to the delete that gives it back,
\* or until it is cut off.
Spans ==
  \A r \in Callers :
    /\ holds[r] => pc[r] \in {"upstream", "store", "unclaim"} \/ result[r] = "cut"
    /\ pc[r] = "unclaim" => holds[r]
    /\ result[r] = "cut" => pc[r] = "done"

\* Who is seen to have the claim.
Claimant(w) == IF "claim" \in DOMAIN Shown(w) THEN Shown(w)["claim"].val ELSE Missing

Works(r) == holds[r] /\ pc[r] # "done"

\* While no claim has run out, whoever works is seen to have the claim; and whoever is
\* seen to have it works, or was cut off.
Witnessed ==
  ~flaky =>
    /\ ~lapsed => \A w \in Workers, r \in Callers : Works(r) /\ W(r) = w => Claimant(w) = r
    /\ \A w \in Workers, r \in Callers :
         Claimant(w) = r => Shares(r, w) /\ (Works(r) \/ result[r] = "cut")
    /\ \A w \in Workers : Claimant(w) \in Callers \cup {"gone", Missing}

EmbeddingInv == CacheInv /\ FlowTypes /\ Spans /\ Witnessed

\* The ways in which a step changes who has the claim.
SameClaims == \A w \in Workers : Claimant(w)' = Claimant(w)
Claims(c) ==
  /\ \A w \in Workers : Shares(c, w) => Claimant(w) = Missing
  /\ \A w \in Workers : Claimant(w)' = IF Shares(c, w) THEN c ELSE Claimant(w)
Unclaims(c) == \A w \in Workers : Claimant(w)' = IF Shares(c, w) THEN Missing ELSE Claimant(w)

LEMMA GetClaims ==
  ASSUME NEW c \in Callers, Unseen(c), ~flaky
  PROVE  SameClaims
BY DEF Unseen, Fell, SameClaims, Claimant

LEMMA SetClaims ==
  ASSUME NEW c \in Callers, NEW e, Puts(c, "vectors", e), ~flaky
  PROVE  SameClaims
<1> SUFFICES ASSUME NEW w \in Workers PROVE Claimant(w)' = Claimant(w)
  BY DEF SameClaims
<1>1. CASE Shown(w)' = Shown(w)
  BY <1>1 DEF Claimant
<1>2. CASE Shown(w)' = With(Shown(w), "vectors", e)
  BY <1>2 DEF Claimant, With
<1> QED
  BY <1>1, <1>2 DEF Puts, Fell

LEMMA AddClaims ==
  ASSUME NEW c \in Callers, Puts(c, "claim", Entry(c, ClaimTTL)), ~flaky,
         \A w \in Workers : Shares(c, w) => "claim" \notin DOMAIN Shown(w)
  PROVE  Claims(c)
<1>1. ASSUME NEW w \in Workers
      PROVE  Claimant(w)' = IF Shares(c, w) THEN c ELSE Claimant(w)
  <2>1. CASE Shown(w)' = Shown(w) /\ ~Shares(c, w)
    BY <2>1 DEF Claimant
  <2>2. CASE Shown(w)' = With(Shown(w), "claim", Entry(c, ClaimTTL)) /\ Shares(c, w)
    BY <2>2 DEF Claimant, With, Entry
  <2> QED
    BY <2>1, <2>2 DEF Puts, Fell
<1>2. \A w \in Workers : Shares(c, w) => Claimant(w) = Missing
  BY DEF Claimant
<1> QED
  BY <1>1, <1>2 DEF Claims

LEMMA DeleteClaims ==
  ASSUME NEW c \in Callers, Drops(c, "claim"), ~flaky
  PROVE  Unclaims(c)
<1>1. ASSUME NEW w \in Workers
      PROVE  Claimant(w)' = IF Shares(c, w) THEN Missing ELSE Claimant(w)
  <2>1. CASE Shown(w)' = Shown(w) /\ ~Shares(c, w)
    BY <2>1 DEF Claimant
  <2>2. CASE Shown(w)' = Without(Shown(w), {"claim"}) /\ Shares(c, w)
    BY <2>2 DEF Claimant, Without
  <2> QED
    BY <2>1, <2>2 DEF Drops, Fell
<1> QED
  BY <1>1 DEF Unclaims

-----------------------------------------------------------------------------
(* The steps *)

\* Where no access raises, those who share a cache see the same claim.
LEMMA SharedClaim ==
  ASSUME CacheInv, ~flaky, NEW c \in Callers, NEW w \in Workers, Shares(c, w)
  PROVE  Claimant(w) = Claimant(W(c))
<1>1. W(c) \in Workers
  BY DEF CacheInv, CacheTypes, W
<1>2. CASE w = W(c)
  BY <1>2
<1>3. CASE backend = "redis"
  <2>1. ~fallen[w] /\ ~fallen[W(c)]
    BY <1>1, <1>3 DEF CacheInv, Steady
  <2> QED
    BY <2>1 DEF Claimant, Shown
<1> QED
  BY <1>2, <1>3 DEF Shares

\* A step of r, in whatever it does beside its access to the cache.
Moves(r) ==
  /\ pc' \in [Callers -> Places]
  /\ holds' \in [Callers -> BOOLEAN]
  /\ polls' \in [Callers -> Nat]
  /\ result' \in [Callers -> {"none", "error", "cut"} \cup Vectors]
  /\ lapsed' = lapsed
  /\ \A q \in Callers \ {r} :
       pc'[q] = pc[q] /\ (holds'[q] <=> holds[q]) /\ result'[q] = result[q]

\* Its spell of work begins with its claim and ends with the claim's deletion, or when it
\* is cut off.
Spells(r) ==
  /\ holds'[r] => pc'[r] \in {"upstream", "store", "unclaim"} \/ result'[r] = "cut"
  /\ pc'[r] = "unclaim" => holds'[r]
  /\ result'[r] = "cut" => pc'[r] = "done"
  /\ ~flaky =>
       \/ /\ SameClaims /\ (Works(r)' => Works(r))
          /\ Works(r) \/ result[r] = "cut" => Works(r)' \/ result'[r] = "cut"
       \/ Claims(r) /\ (Works(r)' \/ result'[r] = "cut")
       \/ Unclaims(r) /\ Works(r) /\ ~Works(r)'

LEMMA StepKeeps ==
  ASSUME EmbeddingInv, NEW c \in Callers, Kept, Moves(c), Spells(c)
  PROVE  EmbeddingInv'
<1>1. FlowTypes' /\ Spans'
  <2>1. FlowTypes'
    BY DEF Moves, EmbeddingInv, FlowTypes
  <2>2. ASSUME NEW r \in Callers
        PROVE  /\ holds'[r] => pc'[r] \in {"upstream", "store", "unclaim"} \/ result'[r] = "cut"
               /\ pc'[r] = "unclaim" => holds'[r]
               /\ result'[r] = "cut" => pc'[r] = "done"
    BY DEF Moves, Spells, EmbeddingInv, Spans
  <2> QED
    BY <2>1, <2>2 DEF Spans
<1>2. ASSUME ~flaky PROVE Witnessed'
  <2>1. ASSUME NEW w \in Workers, NEW r \in Callers
        PROVE  (Shares(r, w)' <=> Shares(r, w)) /\ W(r)' = W(r) /\ W(r) \in Workers
    BY DEF Kept, Shares, W, EmbeddingInv, CacheInv, CacheTypes
  <2>2. /\ ~lapsed => \A w \in Workers, r \in Callers : Works(r) /\ W(r) = w => Claimant(w) = r
        /\ \A w \in Workers, r \in Callers :
             Claimant(w) = r => Shares(r, w) /\ (Works(r) \/ result[r] = "cut")
        /\ \A w \in Workers : Claimant(w) \in Callers \cup {"gone", Missing}
    BY <1>2 DEF EmbeddingInv, Witnessed
  <2>3. \A r \in Callers : r # c => (Works(r)' <=> Works(r)) /\ result'[r] = result[r]
    BY DEF Moves, Works
  <2>4. Missing \notin Callers /\ lapsed' = lapsed
    BY EmbeddingsAssumption DEF EmbeddingsAssumption, Moves
  <2>5. CASE /\ SameClaims /\ (Works(c)' => Works(c))
             /\ Works(c) \/ result[c] = "cut" => Works(c)' \/ result'[c] = "cut"
    <3>1. \A w \in Workers : Claimant(w)' = Claimant(w)
      BY <2>5 DEF SameClaims
    <3>2. ASSUME ~lapsed', NEW w \in Workers, NEW r \in Callers, Works(r)', W(r)' = w
          PROVE  Claimant(w)' = r
      BY <2>1, <2>2, <2>3, <2>4, <2>5, <3>1, <3>2
    <3>3. ASSUME NEW w \in Workers, NEW r \in Callers, Claimant(w)' = r
          PROVE  Shares(r, w)' /\ (Works(r)' \/ result'[r] = "cut")
      BY <2>1, <2>2, <2>3, <2>5, <3>1, <3>3
    <3>4. \A w \in Workers : Claimant(w)' \in Callers \cup {"gone", Missing}
      BY <2>2, <3>1
    <3> QED
      BY <3>2, <3>3, <3>4 DEF Witnessed, Missing
  <2>6. CASE Claims(c) /\ (Works(c)' \/ result'[c] = "cut")
    <3>1. \A w \in Workers : Claimant(w)' = IF Shares(c, w) THEN c ELSE Claimant(w)
      BY <2>6 DEF Claims
    <3>2. \A w \in Workers : Shares(c, w) => Claimant(w) = Missing
      BY <2>6 DEF Claims
    <3>3. ASSUME ~lapsed', NEW w \in Workers, NEW r \in Callers, Works(r)', W(r)' = w
          PROVE  Claimant(w)' = r
      <4>1. CASE r = c
        <5>1. Shares(c, w)
          BY <2>1, <3>3, <4>1 DEF Shares
        <5> QED
          BY <3>1, <4>1, <5>1
      <4>2. CASE r # c
        <5>1. Claimant(w) = r
          BY <2>1, <2>2, <2>3, <2>4, <3>3, <4>2
        <5> QED
          BY <2>4, <3>1, <3>2, <5>1
      <4> QED
        BY <4>1, <4>2
    <3>4. ASSUME NEW w \in Workers, NEW r \in Callers, Claimant(w)' = r
          PROVE  Shares(r, w)' /\ (Works(r)' \/ result'[r] = "cut")
      <4>1. CASE Shares(c, w)
        BY <2>1, <2>6, <3>1, <3>4, <4>1
      <4>2. CASE ~Shares(c, w)
        <5>1. Claimant(w) = r /\ r # c
          BY <2>2, <3>1, <3>4, <4>2
        <5> QED
          BY <2>1, <2>2, <2>3, <5>1
      <4> QED
        BY <4>1, <4>2
    <3>5. \A w \in Workers : Claimant(w)' \in Callers \cup {"gone", Missing}
      BY <2>2, <3>1
    <3> QED
      BY <3>3, <3>4, <3>5 DEF Witnessed, Missing
  <2>7. CASE Unclaims(c) /\ Works(c) /\ ~Works(c)'
    <3>1. \A w \in Workers : Claimant(w)' = IF Shares(c, w) THEN Missing ELSE Claimant(w)
      BY <2>7 DEF Unclaims
    <3>3. ASSUME ~lapsed', NEW w \in Workers, NEW r \in Callers, Works(r)', W(r)' = w
          PROVE  Claimant(w)' = r
      <4>1. r # c /\ Claimant(w) = r
        BY <2>1, <2>2, <2>3, <2>4, <2>7, <3>3
      <4>2. Claimant(W(c)) = c
        BY <2>1, <2>2, <2>4, <2>7, <3>3
      <4>3. ~Shares(c, w)
        BY <1>2, <4>1, <4>2, SharedClaim DEF EmbeddingInv
      <4> QED
        BY <3>1, <4>1, <4>3
    <3>4. ASSUME NEW w \in Workers, NEW r \in Callers, Claimant(w)' = r
          PROVE  Shares(r, w)' /\ (Works(r)' \/ result'[r] = "cut")
      <4>1. ~Shares(c, w) /\ Claimant(w) = r
        BY <2>4, <3>1, <3>4
      <4>2. r # c
        BY <2>2, <4>1
      <4> QED
        BY <2>1, <2>2, <2>3, <4>1, <4>2
    <3>5. \A w \in Workers : Claimant(w)' \in Callers \cup {"gone", Missing}
      BY <2>2, <3>1
    <3> QED
      BY <3>3, <3>4, <3>5 DEF Witnessed, Missing
  <2> QED
    BY <1>2, <2>5, <2>6, <2>7 DEF Spells
<1>3. Witnessed'
  BY <1>2 DEF Witnessed, Kept
<1> QED
  BY <1>1, <1>3 DEF EmbeddingInv, Kept

LEMMA PassKeeps ==
  ASSUME EmbeddingInv, Pass
  PROVE  EmbeddingInv'
<1>1. /\ CacheInv' /\ now' = now + 1 /\ UNCHANGED <<flaky, workerOf, backend, fallen>>
      /\ \A w \in Workers :
           Shown(w)' = Without(Shown(w), {k \in DOMAIN Shown(w) : Shown(w)[k].exp <= now'})
      /\ \A w \in Workers :
           "claim" \in DOMAIN Seen(w) /\ Seen(w)["claim"].exp > now' => "claim" \in DOMAIN Shown(w)'
  BY TickShown DEF Pass, EmbeddingInv
<1>2. UNCHANGED <<pc, holds, polls, result>> /\ (lapsed => lapsed') /\ lapsed' \in BOOLEAN
  BY DEF Pass, flow
<1>3. FlowTypes' /\ Spans'
  BY <1>2 DEF EmbeddingInv, FlowTypes, Spans
<1>4. \A w \in Workers : Claimant(w)' \in {Claimant(w), Missing}
  BY <1>1 DEF Claimant, Without
<1>5. ASSUME ~flaky PROVE Witnessed'
  <2>1. ASSUME NEW w \in Workers, NEW r \in Callers
        PROVE  /\ (Shares(r, w)' <=> Shares(r, w)) /\ W(r)' = W(r) /\ W(r) \in Workers
               /\ Works(r)' <=> Works(r)
    BY <1>1, <1>2 DEF Shares, W, Works, EmbeddingInv, CacheInv, CacheTypes
  <2>2. /\ ~lapsed => \A w \in Workers, r \in Callers : Works(r) /\ W(r) = w => Claimant(w) = r
        /\ \A w \in Workers, r \in Callers :
             Claimant(w) = r => Shares(r, w) /\ (Works(r) \/ result[r] = "cut")
        /\ \A w \in Workers : Claimant(w) \in Callers \cup {"gone", Missing}
    BY <1>5 DEF EmbeddingInv, Witnessed
  <2>3. ASSUME ~lapsed', NEW w \in Workers, NEW r \in Callers, Works(r)', W(r)' = w
        PROVE  Claimant(w)' = r
    <3>1. ~lapsed /\ Works(r) /\ W(r) = w
      BY <1>2, <2>1, <2>3
    <3>2. "claim" \in DOMAIN Seen(w) /\ Seen(w)["claim"].exp > now'
      BY <2>3, <3>1 DEF Pass, Seen, Works
    <3>3. "claim" \in DOMAIN Shown(w)'
      BY <1>1, <3>2
    <3>4. Shown(w)'["claim"] = Shown(w)["claim"] /\ "claim" \in DOMAIN Shown(w)
      BY <1>1, <3>3 DEF Without
    <3>5. Claimant(w)' = Claimant(w)
      BY <3>3, <3>4 DEF Claimant
    <3> QED
      BY <2>2, <3>1, <3>5
  <2>4. ASSUME NEW w \in Workers, NEW r \in Callers, Claimant(w)' = r
        PROVE  Shares(r, w)' /\ (Works(r)' \/ result'[r] = "cut")
    <3>1. Claimant(w) = r
      BY <1>4, <2>4, EmbeddingsAssumption DEF EmbeddingsAssumption
    <3> QED
      BY <1>2, <2>1, <2>2, <3>1
  <2>5. \A w \in Workers : Claimant(w)' \in Callers \cup {"gone", Missing}
    BY <1>4, <2>2
  <2> QED
    BY <2>3, <2>4, <2>5 DEF Witnessed, Missing
<1> QED
  BY <1>1, <1>3, <1>5 DEF EmbeddingInv, Witnessed

LEMMA UntouchedShown ==
  ASSUME CacheInv, UNCHANGED backendVars, NEW c \in Callers
  PROVE  Kept /\ Unseen(c)
<1>1. UNCHANGED <<backend, workerOf, flaky, now, redis, local, fallen, sent>>
  BY DEF backendVars
<1>2. CacheInv'
  BY <1>1 DEF CacheInv, CacheTypes, IsCache, Steady
<1>3. \A w \in Workers : Shown(w)' = Shown(w)
  BY <1>1 DEF Shown, Visible, Live
<1> QED
  BY <1>1, <1>2, <1>3 DEF Kept, Unseen

Lifetimes == /\ ValueTTL \in Nat \ {0} /\ ClaimTTL \in Nat \ {0}
             /\ Keys = {"vectors", "claim"} /\ {Missing, "gone"} \cap Callers = {}

\* Steps that claim nothing and free nothing.
LEMMA QuietKeeps ==
  ASSUME EmbeddingInv, NEW r \in Callers,
         \/ Begin(r) \/ CallUncached(r) \/ Lookup(r) \/ Poll(r) \/ PollClaim(r) \/ PollsOver(r)
         \/ CallOk(r) \/ CallRaises(r) \/ SendAccess(r)
  PROVE  EmbeddingInv'
<1>1. Kept /\ Unseen(r)
  <2>1. CASE UNCHANGED backendVars
    BY <2>1, UntouchedShown DEF EmbeddingInv
  <2>2. CASE \E k, v : Get(r, k, v)
    BY <2>2, GetShown DEF EmbeddingInv
  <2>3. CASE Send(r)
    BY <2>3, SendShown DEF EmbeddingInv
  <2>4. UNCHANGED backendVars \/ (\E k, v : Get(r, k, v)) \/ Send(r)
    BY DEF Begin, CallUncached, Lookup, Poll, PollClaim, PollsOver, CallOk, CallRaises, SendAccess
  <2> QED
    BY <2>1, <2>2, <2>3, <2>4
<1>2. Moves(r)
  BY DEF Begin, CallUncached, Lookup, Poll, PollClaim, PollsOver, CallOk, CallRaises, SendAccess,
         flow, At, Goto, Finish, Served, Moves, EmbeddingInv, FlowTypes, Places, Vectors
<1>3. Spells(r)
  <2>1. ~flaky => SameClaims
    BY <1>1, GetClaims
  <2>2. holds' = holds /\ pc[r] # "done"
    BY DEF Begin, CallUncached, Lookup, Poll, PollClaim, PollsOver, CallOk, CallRaises, SendAccess,
           flow, At, Access
  <2>3. /\ pc'[r] \in {"done", "unclaim"} => (pc'[r] = "unclaim" <=> holds[r])
        /\ holds[r] => pc'[r] \in {"upstream", "store", "unclaim"}
    BY DEF Begin, CallUncached, Lookup, Poll, PollClaim, PollsOver, CallOk, CallRaises, SendAccess,
           flow, At, Goto, Finish, Served, Access, EmbeddingInv, FlowTypes, Spans
  <2>4. result'[r] # "cut" /\ result[r] # "cut"
    BY DEF Begin, CallUncached, Lookup, Poll, PollClaim, PollsOver, CallOk, CallRaises, SendAccess,
           flow, At, Goto, Finish, Served, Access, EmbeddingInv, FlowTypes, Spans, Vectors
  <2>5. Works(r)' <=> Works(r)
    BY <2>2, <2>3 DEF Works
  <2> QED
    BY <2>1, <2>2, <2>3, <2>4, <2>5 DEF Spells
<1> QED
  BY <1>1, <1>2, <1>3, StepKeeps

LEMMA ClaimKeeps ==
  ASSUME EmbeddingInv, NEW r \in Callers, Claim(r) \/ Reclaim(r)
  PROVE  EmbeddingInv'
<1>1. PICK added \in BOOLEAN :
        /\ Add(r, "claim", r, ClaimTTL, added) /\ holds' = [holds EXCEPT ![r] = added]
        /\ pc[r] \in {"claim", "reclaim"} /\ (added => pc'[r] = "upstream")
        /\ pc'[r] \in {"upstream", "poll"}
        /\ pc' = [pc EXCEPT ![r] = pc'[r]] /\ UNCHANGED <<polls, result, lapsed>>
  BY DEF Claim, Reclaim, At, Goto, EmbeddingInv, FlowTypes
<1>2. /\ Kept
      /\ \/ Unseen(r) /\ (~flaky => ~added)
         \/ Puts(r, "claim", Entry(r, ClaimTTL)) /\ (~flaky => added)
      /\ ~flaky /\ added => \A w \in Workers : Shares(r, w) => "claim" \notin DOMAIN Shown(w)
  BY <1>1, AddShown, EmbeddingsAssumption DEF EmbeddingsAssumption, EmbeddingInv, Holders
<1>3. Moves(r)
  BY <1>1 DEF Moves, EmbeddingInv, FlowTypes, Places
<1>4. Spells(r)
  <2>1. /\ (holds'[r] <=> added) /\ result'[r] = result[r] /\ result[r] # "cut" /\ ~Works(r)
        /\ pc'[r] # "unclaim" /\ pc'[r] # "done"
    BY <1>1 DEF EmbeddingInv, FlowTypes, Spans, Works
  <2>2. Works(r)' <=> added
    BY <2>1 DEF Works
  <2>3. ASSUME ~flaky
        PROVE  (SameClaims /\ ~added) \/ (Claims(r) /\ added)
    BY <1>2, <2>3, GetClaims, AddClaims
  <2> QED
    BY <1>1, <2>1, <2>2, <2>3 DEF Spells
<1> QED
  BY <1>2, <1>3, <1>4, StepKeeps DEF EmbeddingInv

LEMMA StoreKeeps ==
  ASSUME EmbeddingInv, NEW r \in Callers, Store(r)
  PROVE  EmbeddingInv'
<1>1. Kept /\ Puts(r, "vectors", Entry("new", ValueTTL))
  BY SetShown, EmbeddingsAssumption DEF Store, EmbeddingsAssumption, EmbeddingInv, Vectors
<1>2. Moves(r)
  BY DEF Store, At, Goto, Finish, Moves, EmbeddingInv, FlowTypes, Places, Vectors
<1>3. Spells(r)
  <2>1. ~flaky => SameClaims
    BY <1>1, SetClaims
  <2>2. /\ pc'[r] = (IF holds[r] THEN "unclaim" ELSE "done") /\ (holds'[r] <=> holds[r])
        /\ result'[r] = "new" /\ pc[r] = "store" /\ result[r] # "cut"
    BY DEF Store, At, Goto, Finish, EmbeddingInv, FlowTypes, Spans
  <2>3. Works(r)' <=> Works(r)
    BY <2>2 DEF Works
  <2> QED
    BY <2>1, <2>2, <2>3 DEF Spells
<1> QED
  BY <1>1, <1>2, <1>3, StepKeeps

LEMMA UnclaimKeeps ==
  ASSUME EmbeddingInv, NEW r \in Callers, Unclaim(r)
  PROVE  EmbeddingInv'
<1>1. Kept /\ Drops(r, "claim")
  BY DeleteShown DEF Unclaim, EmbeddingInv
<1>2. Moves(r)
  BY DEF Unclaim, At, Goto, Moves, EmbeddingInv, FlowTypes, Places
<1>3. Spells(r)
  <2>1. ~flaky => Unclaims(r)
    BY <1>1, DeleteClaims
  <2>2. pc'[r] = "done" /\ ~holds'[r] /\ result'[r] = result[r] /\ holds[r] /\ pc[r] = "unclaim"
    BY DEF Unclaim, At, Goto, EmbeddingInv, FlowTypes, Spans
  <2> QED
    BY <2>1, <2>2 DEF Spells, Works
<1> QED
  BY <1>1, <1>2, <1>3, StepKeeps

\* A request that is cut off has had its access, or not.
LEMMA CancelIsAccess ==
  ASSUME EmbeddingInv, NEW r \in Callers, CancelAccess(r)
  PROVE  \/ Get(r, "claim", ValueIn(redis, "claim"))
         \/ pc[r] \in {"claim", "reclaim"} /\ Add(r, "claim", r, ClaimTTL, TRUE)
         \/ pc[r] = "store" /\ Set(r, "vectors", "new", ValueTTL)
         \/ pc[r] = "unclaim" /\ Delete(r, "claim")
<1>1. OnRedis(r, redis')
  BY DEF CancelAccess, OnRedis
<1>2. CASE redis' = redis
  BY <1>1, <1>2 DEF Get
<1>3. CASE pc[r] \in {"claim", "reclaim"} /\ ~Live(redis, "claim")
           /\ redis' = With(redis, "claim", Entry(r, ClaimTTL))
  BY <1>1, <1>3 DEF Add
<1>4. CASE pc[r] = "store" /\ redis' = With(redis, "vectors", Entry("new", ValueTTL))
  BY <1>1, <1>4 DEF Set
<1>5. CASE pc[r] = "unclaim" /\ redis' = Without(redis, {"claim"})
  BY <1>1, <1>5 DEF Delete
<1> QED
  BY <1>2, <1>3, <1>4, <1>5 DEF CancelAccess

LEMMA CancelKeeps ==
  ASSUME EmbeddingInv, NEW r \in Callers, CancelAccess(r)
  PROVE  EmbeddingInv'
<1>1. Moves(r)
  BY DEF CancelAccess, Goto, Finish, Moves, EmbeddingInv, FlowTypes, Places
<1>2. pc'[r] = "done" /\ result'[r] = "cut" /\ ~Works(r)'
  BY DEF CancelAccess, Goto, Finish, Works, EmbeddingInv, FlowTypes
<1>3. Kept /\ (~flaky => SameClaims \/ Claims(r) \/ (Unclaims(r) /\ Works(r)))
  <2>0. "vectors" \in Keys /\ "claim" \in Keys /\ ValueTTL \in Nat \ {0} /\ ClaimTTL \in Nat \ {0}
    BY EmbeddingsAssumption DEF EmbeddingsAssumption
  <2>1. CASE Get(r, "claim", ValueIn(redis, "claim"))
    BY <2>1, GetShown, GetClaims DEF EmbeddingInv
  <2>2. CASE Add(r, "claim", r, ClaimTTL, TRUE)
    <3>1. /\ Kept
          /\ Unseen(r) \/ Puts(r, "claim", Entry(r, ClaimTTL))
          /\ ~flaky => ~Unseen(r) \/ Puts(r, "claim", Entry(r, ClaimTTL))
          /\ ~flaky => \A w \in Workers : Shares(r, w) => "claim" \notin DOMAIN Shown(w)
      BY <2>0, <2>2, AddShown DEF EmbeddingInv, Holders
    <3> QED
      BY <3>1, AddClaims
  <2>3. CASE Set(r, "vectors", "new", ValueTTL)
    BY <2>0, <2>3, SetShown, SetClaims DEF EmbeddingInv, Vectors
  <2>4. CASE pc[r] = "unclaim" /\ Delete(r, "claim")
    <3>1. Works(r)
      BY <2>4 DEF Works, EmbeddingInv, Spans
    <3> QED
      BY <2>4, <3>1, DeleteShown, DeleteClaims DEF EmbeddingInv
  <2> QED
    BY <2>1, <2>2, <2>3, <2>4, CancelIsAccess
<1>4. Spells(r)
  BY <1>2, <1>3 DEF Spells
<1> QED
  BY <1>1, <1>3, <1>4, StepKeeps

LEMMA EmbeddingStep == EmbeddingInv /\ [Next]_vars => EmbeddingInv'
<1> SUFFICES ASSUME EmbeddingInv, [Next]_vars PROVE EmbeddingInv'
  OBVIOUS
<1>1. CASE UNCHANGED vars
  <2>1. UNCHANGED <<backend, workerOf, flaky, now, redis, local, fallen, sent, pc, holds, polls, result, lapsed>>
    BY <1>1 DEF vars, backendVars, flow
  <2>2. \A w \in Workers : Claimant(w)' = Claimant(w)
    BY <2>1 DEF Claimant, Shown, Visible, Live
  <2>3. Witnessed'
    BY <2>1, <2>2 DEF EmbeddingInv, Witnessed, Works, Shares, W
  <2> QED
    BY <2>1, <2>3 DEF EmbeddingInv, CacheInv, CacheTypes, IsCache, Steady, FlowTypes, Spans
<1>2. CASE Pass
  BY <1>2, PassKeeps
<1>3. ASSUME NEW r \in Callers, Begin(r) \/ Step(r) \/ CancelAccess(r)
      PROVE  EmbeddingInv'
  BY <1>3, QuietKeeps, ClaimKeeps, StoreKeeps, UnclaimKeeps, CancelKeeps DEF Step
<1> QED
  BY <1>1, <1>2, <1>3 DEF Next

LEMMA EmbeddingStart == Init => EmbeddingInv
<1> SUFFICES ASSUME Init PROVE EmbeddingInv
  OBVIOUS
<1>0. Lifetimes
  BY EmbeddingsAssumption DEF EmbeddingsAssumption, Lifetimes
<1>1. /\ backend \in {"memory", "redis"} /\ workerOf \in [Callers -> Workers] /\ flaky \in BOOLEAN
      /\ now = 0 /\ local = [w \in Workers |-> EmptyDict]
      /\ fallen = [w \in Workers |-> backend = "memory"] /\ sent = [c \in Callers |-> FALSE]
  BY DEF Init, BackendInit
<1>2. IsCache(redis) /\ (backend = "memory" => redis = EmptyDict)
      /\ ("claim" \in DOMAIN redis => redis["claim"].val = "gone")
  <2>1. CASE redis = EmptyDict
    BY <2>1, EmptyCache DEF EmptyDict, Init
  <2>2. CASE redis \in Before
    <3>1. PICK K \in SUBSET Keys : redis \in [K -> [val : {"old", "gone"}, exp : {ValueTTL, ClaimTTL}]]
      BY <2>2 DEF Before
    <3>2. \A k \in DOMAIN redis : redis[k] \in Items
      BY <1>0, <3>1 DEF Items, Holders, Vectors, Lifetimes
    <3>3. IsCache(redis)
      BY <3>1, <3>2 DEF IsCache, IsDict
    <3>4. "claim" \in DOMAIN redis => redis["claim"].val = "gone"
      BY <2>2 DEF Before
    <3>5. backend = "memory" => redis = EmptyDict
      BY DEF Init
    <3> QED
      BY <3>3, <3>4, <3>5
  <2> QED
    BY <2>1, <2>2 DEF Init
<1>3. CacheTypes
  <2>1. local \in [Workers -> UNION {[K -> Items] : K \in SUBSET Keys}]
    <3>1. EmptyDict \in UNION {[K -> Items] : K \in SUBSET Keys}
      BY EmptyCache DEF IsCache, IsDict
    <3> QED
      BY <1>1, <3>1
  <2>2. fallen \in [Workers -> BOOLEAN]
    BY <1>1
  <2> QED
    BY <1>1, <1>2, <2>1, <2>2 DEF CacheTypes
<1>4. Steady
  BY <1>1, <1>2 DEF Steady, EmptyDict
<1>5. FlowTypes /\ Spans
  BY DEF Init, FlowTypes, Spans, Places
<1>6. \A w \in Workers : Claimant(w) \in {"gone", Missing}
  BY <1>1, <1>2 DEF Claimant, Shown, Visible, EmptyDict
<1>7. Witnessed
  <2>1. \A r \in Callers : ~Works(r)
    BY DEF Init, Works
  <2>2. \A r \in Callers : r # "gone" /\ r # Missing
    BY <1>0 DEF Lifetimes
  <2> QED
    BY <1>6, <2>1, <2>2 DEF Witnessed
<1> QED
  BY <1>3, <1>4, <1>5, <1>7 DEF EmbeddingInv, CacheInv

-----------------------------------------------------------------------------
(* Theorems *)

LEMMA EmbeddingInductive == Spec => []EmbeddingInv
BY EmbeddingStart, EmbeddingStep, PTL DEF Spec

\* Types hold: what the caches hold, and where each request is.
THEOREM TypeCorrect == Spec => [](CacheTypes /\ FlowTypes)
<1>1. EmbeddingInv => CacheTypes /\ FlowTypes
  BY DEF EmbeddingInv, CacheInv
<1> QED
  BY <1>1, EmbeddingInductive, PTL

\* While claims last and no access raises, one request at a time computes the vectors of
\* a cache, however many ask, poll, fail, are cut off and try again (_handle_embeddings).
THEOREM OneInFlight == Spec => []OneFlight
<1>1. EmbeddingInv => OneFlight
  <2> SUFFICES ASSUME EmbeddingInv, ~flaky, ~lapsed, NEW q \in Callers, NEW r \in Callers,
                      Works(q), Works(r), backend = "redis" \/ W(q) = W(r)
               PROVE  q = r
    BY DEF OneFlight, Works
  <2>1. W(q) \in Workers /\ W(r) \in Workers
    BY DEF EmbeddingInv, CacheInv, CacheTypes, W
  <2>2. Claimant(W(q)) = q /\ Claimant(W(r)) = r
    BY <2>1 DEF EmbeddingInv, Witnessed
  <2>3. Claimant(W(r)) = Claimant(W(q))
    BY <2>1, SharedClaim DEF EmbeddingInv, Shares
  <2> QED
    BY <2>2, <2>3
<1> QED
  BY <1>1, EmbeddingInductive, PTL

\* However a request ends, unless it is cut off at an access to Redis, it leaves no claim
\* ("except BaseException" of _handle_embeddings).
THEOREM ClaimsAreFreed == Spec => []NoClaimLeft
<1>1. EmbeddingInv => NoClaimLeft
  <2> SUFFICES ASSUME EmbeddingInv, ~flaky, NEW w \in Workers,
                      Live(local[w], "claim") \/ Live(redis, "claim")
               PROVE  LET r == IF backend = "redis" THEN redis["claim"].val ELSE local[w]["claim"].val
                      IN r = "gone" \/ pc[r] # "done" \/ result[r] = "cut"
    BY DEF NoClaimLeft
  <2> DEFINE r == IF backend = "redis" THEN redis["claim"].val ELSE local[w]["claim"].val
  <2>1. Live(Seen(w), "claim") /\ r = Seen(w)["claim"].val
    BY DEF EmbeddingInv, CacheInv, CacheTypes, Steady, Seen, Live
  <2>2. Claimant(w) = r /\ "claim" \in DOMAIN Shown(w)
    BY <2>1 DEF Claimant, Shown, Seen, Visible, Live
  <2>3. Claimant(w) \in Callers \cup {"gone", Missing}
    BY DEF EmbeddingInv, Witnessed
  <2>4. r # Missing
    <3>1. IsCache(Seen(w))
      BY LocalCache, MineIsCache DEF Seen, EmbeddingInv, CacheInv, CacheTypes
    <3>2. Seen(w)["claim"].val \in Callers \cup {"gone", "new", "old"}
      BY <2>1, <3>1 DEF IsCache, IsDict, Items, Live, Holders, Vectors
    <3>3. Missing \notin Callers
      BY EmbeddingsAssumption DEF EmbeddingsAssumption
    <3> QED
      BY <2>1, <3>2, <3>3 DEF Missing
  <2> HIDE DEF r
  <2>5. r \in Callers => Works(r) \/ result[r] = "cut"
    BY <2>2 DEF EmbeddingInv, Witnessed
  <2>6. r = "gone" \/ pc[r] # "done" \/ result[r] = "cut"
    BY <2>2, <2>3, <2>4, <2>5 DEF Works
  <2> QED
    BY <2>6 DEF r
<1> QED
  BY <1>1, EmbeddingInductive, PTL

-----------------------------------------------------------------------------
(* The caches as maps *)

\* What ImplementsTtlMap says of one worker in one step.
Maps(w) ==
  \/ Promise(w)!Next \/ UNCHANGED <<Shown(w), now>>
  \/ \E r \in Callers : W(r) = w /\ sent[r] /\ flaky /\ fallen'[w]

Operates(c) ==
  \/ Unseen(c)
  \/ \E k \in Keys, v \in Holders \cup Vectors, ttl \in {ValueTTL, ClaimTTL} : Puts(c, k, Entry(v, ttl))
  \/ \E k \in Keys : Drops(c, k)

LEMMA OperationIsMaps ==
  ASSUME NEW c \in Callers, Operates(c), now' = now, NEW w \in Workers
  PROVE  Maps(w)
<1>1. CASE Fell(c, w)
  BY <1>1 DEF Maps, Fell
<1>2. CASE Shown(w)' = Shown(w)
  BY <1>2 DEF Maps
<1>3. ASSUME NEW k \in Keys, NEW v \in Holders \cup Vectors, NEW ttl \in {ValueTTL, ClaimTTL},
             Shown(w)' = With(Shown(w), k, Entry(v, ttl))
      PROVE  Maps(w)
  <2>1. ttl > 0
    BY EmbeddingsAssumption DEF EmbeddingsAssumption
  <2>2. Promise(w)!Set(k, v, ttl)
    BY <1>3, <2>1 DEF Promise!Set, Promise!Entry, Entry, Promise!With, With
  <2>3. Promise(w)!Next
    BY <2>2 DEF Promise!Next
  <2> QED
    BY <2>3 DEF Maps
<1>4. ASSUME NEW k \in Keys, Shown(w)' = Without(Shown(w), {k})
      PROVE  Maps(w)
  <2>1. Promise(w)!Delete(k)
    BY <1>4 DEF Promise!Delete, Promise!Without, Without
  <2>2. Promise(w)!Next
    BY <2>1 DEF Promise!Next
  <2> QED
    BY <2>2 DEF Maps
<1>5. CASE Unseen(c)
  BY <1>1, <1>2, <1>5 DEF Unseen
<1>6. ASSUME NEW k \in Keys, NEW v \in Holders \cup Vectors, NEW ttl \in {ValueTTL, ClaimTTL},
             Puts(c, k, Entry(v, ttl))
      PROVE  Maps(w)
  BY <1>1, <1>2, <1>3, <1>6 DEF Puts
<1>7. ASSUME NEW k \in Keys, Drops(c, k)
      PROVE  Maps(w)
  BY <1>1, <1>2, <1>4, <1>7 DEF Drops
<1> QED
  BY <1>5, <1>6, <1>7 DEF Operates

LEMMA PassIsMaps ==
  ASSUME EmbeddingInv, Pass, NEW w \in Workers
  PROVE  Maps(w)
<1>1. now' = now + 1
      /\ Shown(w)' = Without(Shown(w), {k \in DOMAIN Shown(w) : Shown(w)[k].exp <= now'})
  BY TickShown DEF EmbeddingInv, Pass
<1>2. Promise(w)!Pass
  BY <1>1 DEF Promise!Pass, Promise!Without, Without
<1>3. Promise(w)!Next
  BY <1>2 DEF Promise!Next
<1> QED
  BY <1>3 DEF Maps

LEMMA StepOperates ==
  ASSUME EmbeddingInv, NEW r \in Callers, Begin(r) \/ Step(r) \/ CancelAccess(r)
  PROVE  Operates(r) /\ now' = now
<1>0. /\ CacheInv /\ "claim" \in Keys /\ "vectors" \in Keys /\ r \in Holders \cup Vectors
      /\ "new" \in Holders \cup Vectors /\ ValueTTL \in Nat \ {0} /\ ClaimTTL \in Nat \ {0}
  BY EmbeddingsAssumption DEF EmbeddingsAssumption, EmbeddingInv, Holders, Vectors
<1>1. CASE UNCHANGED backendVars
  BY <1>0, <1>1, UntouchedShown DEF Operates, Kept
<1>2. ASSUME NEW k, NEW v, Get(r, k, v) PROVE Operates(r) /\ now' = now
  BY <1>0, <1>2, GetShown DEF Operates, Kept
<1>3. CASE Send(r)
  BY <1>0, <1>3, SendShown DEF Operates, Kept
<1>4. ASSUME NEW added \in BOOLEAN, Add(r, "claim", r, ClaimTTL, added)
      PROVE  Operates(r) /\ now' = now
  <2>1. Kept /\ (Unseen(r) \/ Puts(r, "claim", Entry(r, ClaimTTL)))
    BY <1>0, <1>4, AddShown
  <2> QED
    BY <1>0, <2>1 DEF Operates, Kept
<1>5. CASE Set(r, "vectors", "new", ValueTTL)
  <2>1. Kept /\ Puts(r, "vectors", Entry("new", ValueTTL))
    BY <1>0, <1>5, SetShown
  <2> QED
    BY <1>0, <2>1 DEF Operates, Kept
<1>6. CASE Delete(r, "claim")
  BY <1>0, <1>6, DeleteShown DEF Operates, Kept
<1>7. CASE Begin(r) \/ CallUncached(r) \/ CallOk(r) \/ CallRaises(r)
  BY <1>1, <1>7 DEF Begin, CallUncached, CallOk, CallRaises
<1>8. CASE Lookup(r) \/ Poll(r) \/ PollClaim(r) \/ PollsOver(r)
  BY <1>2, <1>8 DEF Lookup, Poll, PollClaim, PollsOver
<1>9. CASE Claim(r) \/ Reclaim(r)
  BY <1>4, <1>9 DEF Claim, Reclaim
<1>10. CASE CancelAccess(r)
  BY <1>2, <1>4, <1>5, <1>6, <1>10, CancelIsAccess
<1> QED
  BY <1>3, <1>5, <1>6, <1>7, <1>8, <1>9, <1>10 DEF Step, Store, Unclaim, SendAccess

\* Whichever cache a worker has, what it sees of it changes as a map with lifetimes does,
\* but for the step to its fallback: eviction, expiry and answers out of order, of any
\* number of workers, are not to be seen (MemoryCache and RedisCache of cache.py).
THEOREM CachesAreMaps == Spec => ImplementsTtlMap
<1>1. EmbeddingInv /\ [Next]_vars =>
        [\A w \in Workers :
           \/ Promise(w)!Next \/ UNCHANGED <<Shown(w), now>>
           \/ \E r \in Callers : W(r) = w /\ sent[r] /\ flaky /\ fallen'[w]]_backendVars
  <2> SUFFICES ASSUME EmbeddingInv, [Next]_vars, ~UNCHANGED backendVars, NEW w \in Workers
               PROVE  Maps(w)
    BY DEF Maps
  <2>1. Next
    BY DEF vars
  <2>2. CASE Pass
    BY <2>2, PassIsMaps
  <2>3. ASSUME NEW r \in Callers, Begin(r) \/ Step(r) \/ CancelAccess(r) PROVE Maps(w)
    BY <2>3, StepOperates, OperationIsMaps
  <2> QED
    BY <2>1, <2>2, <2>3 DEF Next
<1> QED
  BY <1>1, EmbeddingInductive, PTL DEF Spec, ImplementsTtlMap
=============================================================================
