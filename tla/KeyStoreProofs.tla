----------------------------- MODULE KeyStoreProofs -----------------------------
(***************************************************************************)
(* Proofs about the key store: its type invariant, the two caps, which     *)
(* hold however badly the mutex fails, and, while it does not fail, mutual *)
(* exclusion and the refinement of KeyLedger.                              *)
(***************************************************************************)
EXTENDS KeyStore, FiniteSetTheorems, TLAPS

-----------------------------------------------------------------------------
(* Dicts *)

\* Setting an entry keeps a dict a dict, with one more key at most.
LEMMA WithIsDict ==
  ASSUME NEW K, NEW V, NEW d, IsDict(d, K, V), NEW k \in K, NEW v \in V
  PROVE  IsDict(With(d, k, v), K, V) /\ DOMAIN With(d, k, v) = DOMAIN d \cup {k}
BY DEF IsDict, With

\* Dropping entries keeps a dict a dict.
LEMMA WithoutIsDict ==
  ASSUME NEW K, NEW V, NEW d, IsDict(d, K, V), NEW S
  PROVE  IsDict(Without(d, S), K, V) /\ DOMAIN Without(d, S) = DOMAIN d \ S
BY DEF IsDict, Without

\* The empty dict is a dict of any type.
LEMMA EmptyIsDict ==
  ASSUME NEW K, NEW V
  PROVE  IsDict(EmptyDict, K, V) /\ DOMAIN EmptyDict = {}
BY DEF IsDict, EmptyDict

\* Looking up an integer in a ledger gives an integer.
LEMMA GetOrInt ==
  ASSUME NEW K, NEW d, IsDict(d, K, Int), NEW k
  PROVE  GetOr(d, k, 0) \in Int
BY DEF IsDict, GetOr

\* Replacing one coroutine's dict keeps the family of dicts well typed.
LEMMA UpdateDicts ==
  ASSUME NEW K, NEW V, NEW W, NEW f, f = [v \in W |-> f[v]],
         \A v \in W : IsDict(f[v], K, V),
         NEW w \in W, NEW d, IsDict(d, K, V), NEW g, g = [f EXCEPT ![w] = d]
  PROVE  g = [v \in W |-> g[v]] /\ \A v \in W : IsDict(g[v], K, V)
OBVIOUS

-----------------------------------------------------------------------------
(* Type correctness *)

\* The operation a coroutine executes is one that the routes can have begun.
Sound(o) ==
  /\ o.name = "add" => o.expires \in 1..Never /\ o.amount \in Grants \cup {NoCredit}
  /\ o.name = "grant" => o.amount \in Grants
  /\ o.name = "spend" => o.amount \in Costs

\* Every call begins with a well-formed operation, at one of three places.
LEMMA CallBegins ==
  ASSUME TypeOK, NEW w \in Workers, Call(w)
  PROVE  \E o \in Ops, l \in {"check", "preread", "lock"} : Begin(w, o, l) /\ Sound(o)
<1> USE KeyStoreAssumption DEF TypeOK
<1> PICK k \in Keys : BeginAdd(w, k) \/ BeginRevoke(w, k) \/ BeginGrant(w, k) \/ BeginSpend(w, k)
  BY DEF Call
<1>1. CASE BeginAdd(w, k)
  <2>1. PICK e \in {now + 1, Never}, a \in Grants \cup {NoCredit} :
          Begin(w, [name |-> "add", key |-> k, expires |-> e, amount |-> a], "lock")
    BY <1>1 DEF BeginAdd
  <2>2. [name |-> "add", key |-> k, expires |-> e, amount |-> a] \in Ops
    BY DEF Ops, Never, NoCredit
  <2>3. e \in 1..Never
    BY DEF Never
  <2> QED BY <2>1, <2>2, <2>3 DEF Sound
<1>2. CASE BeginRevoke(w, k)
  <2>1. [name |-> "revoke", key |-> k, expires |-> 0, amount |-> NoCredit] \in Ops
    BY DEF Ops, Never, NoCredit
  <2> QED BY <1>2, <2>1 DEF BeginRevoke, Sound
<1>3. CASE BeginGrant(w, k)
  <2>1. PICK a \in Grants :
          Begin(w, [name |-> "grant", key |-> k, expires |-> 0, amount |-> a], "check")
    BY <1>3 DEF BeginGrant
  <2>2. [name |-> "grant", key |-> k, expires |-> 0, amount |-> a] \in Ops
    BY DEF Ops, Never
  <2> QED BY <2>1, <2>2 DEF Sound
<1>4. CASE BeginSpend(w, k)
  <2>1. PICK c \in Costs :
          Begin(w, [name |-> "spend", key |-> k, expires |-> 0, amount |-> c], "preread")
    BY <1>4 DEF BeginSpend
  <2>2. [name |-> "spend", key |-> k, expires |-> 0, amount |-> c] \in Ops
    BY DEF Ops, Never
  <2> QED BY <2>1, <2>2 DEF Sound
<1> QED BY <1>1, <1>2, <1>3, <1>4

\* Every reachable state of the key store has its type, for any number of
\* coroutines and keys and whatever crashes and expires.
THEOREM TypeCorrect == Spec => []TypeOK
<1>. USE KeyStoreAssumption
<1>1. Init => TypeOK
  BY EmptyIsDict DEF Init, TypeOK, Ops, NoOp, NoOne, NoCredit, IsKeySet, IsLedger, Section
<1>2. TypeOK /\ [Next]_vars => TypeOK'
  <2> SUFFICES ASSUME TypeOK, [Next]_vars PROVE TypeOK'
    OBVIOUS
  <2> USE DEF TypeOK, IsKeySet, IsLedger, Section
  <2>a. ASSUME NEW w \in Workers, Return(w),
               UNCHANGED <<now, patient, keys, credits, calls>>, lock' \in Workers \cup {NoOne}
        PROVE TypeOK'
    <3>1. IsDict(EmptyDict, Keys, 0..Never) /\ IsDict(EmptyDict, Keys, Int)
      BY EmptyIsDict
    <3>2. live' = [v \in Workers |-> live'[v]] /\ \A v \in Workers : IsDict(live'[v], Keys, 0..Never)
      BY <2>a, <3>1, UpdateDicts, Zenon DEF Return
    <3>3. ledger' = [v \in Workers |-> ledger'[v]] /\ \A v \in Workers : IsDict(ledger'[v], Keys, Int)
      BY <2>a, <3>1, UpdateDicts, Zenon DEF Return
    <3>4. /\ pc' \in [Workers -> {"idle", "check", "preread", "lock"} \cup Section]
          /\ op' \in [Workers -> Ops \cup {NoOp}]
          /\ tries' \in [Workers -> 0..MaxAttempts]
          /\ held' \in [Workers -> BOOLEAN]
          /\ dead' \in [Workers -> SUBSET Keys]
      BY <2>a DEF Return, Goto
    <3> QED BY <2>a, <3>2, <3>3, <3>4
  <2>1. ASSUME NEW w \in Workers, Call(w) PROVE TypeOK'
    <3>1. PICK o \in Ops, l \in {"check", "preread", "lock"} : Begin(w, o, l)
      BY <2>1, CallBegins
    <3> QED BY <3>1 DEF Begin, Goto, frame
  <2>2. ASSUME NEW w \in Workers, GrantCheck(w) PROVE TypeOK'
    <3>1. CASE Return(w)
      BY <2>2, <2>a, <3>1 DEF GrantCheck
    <3>2. CASE Goto(w, "lock") /\ UNCHANGED <<op, frame>>
      BY <2>2, <3>2 DEF GrantCheck, Goto, frame
    <3> QED BY <2>2, <3>1, <3>2 DEF GrantCheck
  <2>3. ASSUME NEW w \in Workers, SpendPreread(w) PROVE TypeOK'
    <3>1. CASE Return(w)
      BY <2>3, <2>a, <3>1 DEF SpendPreread
    <3>2. CASE Goto(w, "lock") /\ UNCHANGED <<op, frame>>
      BY <2>3, <3>2 DEF SpendPreread, Goto, frame
    <3> QED BY <2>3, <3>1, <3>2 DEF SpendPreread
  <2>4. ASSUME NEW w \in Workers, Acquire(w) PROVE TypeOK'
    BY <2>4 DEF Acquire, Enter, Goto
  <2>5. ASSUME NEW w \in Workers, LockBusy(w) PROVE TypeOK'
    BY <2>5 DEF LockBusy
  <2>6. ASSUME NEW w \in Workers, GiveUp(w) PROVE TypeOK'
    BY <2>6 DEF GiveUp, Enter, Goto
  <2>7. ASSUME NEW w \in Workers, Leave(w) PROVE TypeOK'
    <3>0. lock' \in Workers \cup {NoOne} /\ UNCHANGED <<now, patient, keys, credits, calls>>
      BY <2>7 DEF Leave
    <3>1. CASE Return(w)
      BY <3>0, <3>1, <2>a
    <3>2. CASE ~Return(w)
      <4>1. /\ op' = [op EXCEPT ![w].name = "grant"]
            /\ pc' = [pc EXCEPT ![w] = "lock"]
            /\ tries' = [tries EXCEPT ![w] = 0]
            /\ held' = [held EXCEPT ![w] = FALSE]
            /\ live' = [live EXCEPT ![w] = EmptyDict]
            /\ dead' = [dead EXCEPT ![w] = {}]
            /\ ledger' = [ledger EXCEPT ![w] = EmptyDict]
        BY <2>7, <3>2 DEF Leave, Goto
      <4>2. op[w] \in Ops
        BY <2>7, <3>2 DEF Leave, NoOp
      <4>3. [op[w] EXCEPT !.name = "grant"] \in Ops
        BY <4>2 DEF Ops
      <4>4. IsDict(EmptyDict, Keys, 0..Never) /\ IsDict(EmptyDict, Keys, Int)
        BY EmptyIsDict
      <4>5. live' = [v \in Workers |-> live'[v]] /\ \A v \in Workers : IsDict(live'[v], Keys, 0..Never)
        BY <4>1, <4>4, UpdateDicts, Zenon
      <4>6. ledger' = [v \in Workers |-> ledger'[v]] /\ \A v \in Workers : IsDict(ledger'[v], Keys, Int)
        BY <4>1, <4>4, UpdateDicts, Zenon
      <4> QED BY <3>0, <4>1, <4>3, <4>5, <4>6
    <3> QED BY <3>1, <3>2
  <2>8. ASSUME NEW w \in Workers, AddLoad(w) PROVE TypeOK'
    <3> DEFINE expired == ExpiredIn(keys)
               kept == Without(keys, expired)
    <3>0. /\ op[w] \in Ops /\ op[w].key \in Keys /\ op[w].expires \in 0..Never
          /\ expired \subseteq Keys /\ IsDict(kept, Keys, 0..Never)
      <4>1. op[w] \in Ops
        BY <2>8 DEF AddLoad, NoOp
      <4>2. expired \subseteq Keys
        BY DEF ExpiredIn, IsDict
      <4> QED BY <4>1, <4>2, WithoutIsDict DEF Ops
    <3>1. CASE pc' = [pc EXCEPT ![w] = "save"]
      <4>1. /\ live' = [live EXCEPT ![w] = With(kept, op[w].key, op[w].expires)]
            /\ dead' = [dead EXCEPT ![w] = expired]
            /\ UNCHANGED <<now, patient, keys, credits, lock, op, tries, held, ledger, calls>>
        BY <2>8, <3>1 DEF AddLoad, Goto
      <4>2. IsDict(With(kept, op[w].key, op[w].expires), Keys, 0..Never)
        BY <3>0, WithIsDict
      <4> QED BY <3>0, <3>1, <4>1, <4>2
    <3>2. CASE pc' = [pc EXCEPT ![w] = "leave"]
      <4>1. /\ op' = [op EXCEPT ![w].amount = NoCredit]
            /\ UNCHANGED <<now, patient, keys, credits, lock, tries, held, live, dead, ledger, calls>>
        BY <2>8, <3>2 DEF AddLoad, Goto
      <4>2. [op[w] EXCEPT !.amount = NoCredit] \in Ops
        BY <3>0 DEF Ops
      <4> QED BY <3>2, <4>1, <4>2
    <3> QED BY <2>8, <3>1, <3>2 DEF AddLoad, Goto
  <2>9. ASSUME NEW w \in Workers, RevokeLoad(w) PROVE TypeOK'
    <3>1. op[w].key \in Keys
      BY <2>9 DEF RevokeLoad, NoOp, Ops
    <3>2. IsDict(Without(keys, ExpiredIn(keys) \cup {op[w].key}), Keys, 0..Never)
      BY WithoutIsDict
    <3> DEFINE d == Without(keys, ExpiredIn(keys) \cup {op[w].key})
    <3> HIDE DEF d
    <3>3. \/ UNCHANGED <<live, dead>>
          \/ /\ live' = [live EXCEPT ![w] = d]
             /\ dead' = [dead EXCEPT ![w] = {op[w].key}]
      BY <2>9 DEF RevokeLoad, d
    <3>4. IsDict(d, Keys, 0..Never)
      BY <3>2 DEF d
    <3>5. /\ UNCHANGED <<now, patient, keys, credits, lock, op, tries, held, ledger, calls>>
          /\ pc' \in [Workers -> {"idle", "check", "preread", "lock"} \cup Section]
      BY <2>9 DEF RevokeLoad, Goto
    <3>6. live' = [v \in Workers |-> live'[v]] /\ \A v \in Workers : IsDict(live'[v], Keys, 0..Never)
      <4>1. CASE UNCHANGED live
        BY <4>1
      <4>2. CASE live' = [live EXCEPT ![w] = d]
        BY <3>4, <4>2, UpdateDicts, Zenon
      <4> QED BY <3>3, <4>1, <4>2
    <3>7. dead' \in [Workers -> SUBSET Keys]
      <4>1. {op[w].key} \in SUBSET Keys /\ dead \in [Workers -> SUBSET Keys]
        BY <3>1
      <4>2. CASE UNCHANGED dead
        BY <4>1, <4>2
      <4>3. CASE dead' = [dead EXCEPT ![w] = {op[w].key}]
        <5> DEFINE s == {op[w].key}
        <5> HIDE DEF s
        <5>1. s \in SUBSET Keys /\ dead' = [dead EXCEPT ![w] = s]
          BY <4>1, <4>3 DEF s
        <5> QED BY <4>1, <5>1
      <4> QED BY <3>3, <4>2, <4>3
    <3> QED BY <3>5, <3>6, <3>7
  <2>10. ASSUME NEW w \in Workers, SaveKeys(w) PROVE TypeOK'
    BY <2>10 DEF SaveKeys, Goto, frame
  <2>11. ASSUME NEW w \in Workers, ForfeitLoad(w) PROVE TypeOK'
    <3>1. IsDict(Without(credits, dead[w]), Keys, Int)
      BY WithoutIsDict
    <3> QED BY <2>11, <3>1 DEF ForfeitLoad, Goto
  <2>12. ASSUME NEW w \in Workers, GrantLoad(w) PROVE TypeOK'
    <3> DEFINE v == Granted(GetOr(credits, op[w].key, 0), op[w].amount)
    <3>1. op[w].key \in Keys /\ op[w].amount \in Int
      BY <2>12 DEF GrantLoad, NoOp, Ops, NoCredit
    <3>2. GetOr(credits, op[w].key, 0) \in Int
      BY GetOrInt
    <3>3. v \in Int
      BY <3>1, <3>2 DEF Granted
    <3>4. IsDict(With(credits, op[w].key, v), Keys, Int)
      BY <3>1, <3>3, WithIsDict
    <3> HIDE DEF v
    <3>5. \/ ledger' = ledger
          \/ ledger' = [ledger EXCEPT ![w] = With(credits, op[w].key, v)]
      BY <2>12 DEF GrantLoad, v
    <3>6. /\ UNCHANGED <<now, patient, keys, credits, lock, op, tries, held, live, dead, calls>>
          /\ pc' \in [Workers -> {"idle", "check", "preread", "lock"} \cup Section]
      BY <2>12 DEF GrantLoad, Goto
    <3>7. ledger' = [x \in Workers |-> ledger'[x]] /\ \A x \in Workers : IsDict(ledger'[x], Keys, Int)
      <4>1. CASE ledger' = ledger
        BY <4>1
      <4>2. CASE ledger' = [ledger EXCEPT ![w] = With(credits, op[w].key, v)]
        BY <3>4, <4>2, UpdateDicts, Zenon
      <4> QED BY <3>5, <4>1, <4>2
    <3> QED BY <3>6, <3>7
  <2>13. ASSUME NEW w \in Workers, SpendLoad(w) PROVE TypeOK'
    <3>1. op[w].amount \in Int
      <4>1. op[w] \in Ops \cup {NoOp}
        BY DEF TypeOK
      <4> QED BY <4>1 DEF NoOp, Ops, NoCredit
    <3>2. IsDict([credits EXCEPT ![op[w].key] = @ - op[w].amount], Keys, Int)
      <4> DEFINE k == op[w].key
                 d == [credits EXCEPT ![k] = @ - op[w].amount]
      <4>1. DOMAIN d = DOMAIN credits /\ \A x \in DOMAIN d : d[x] \in Int
        BY <3>1 DEF IsDict
      <4>2. d = [x \in DOMAIN credits |-> d[x]]
        OBVIOUS
      <4> QED BY <4>1, <4>2 DEF IsDict
    <3> DEFINE d == [credits EXCEPT ![op[w].key] = @ - op[w].amount]
    <3> HIDE DEF d
    <3>3. ledger' = ledger \/ ledger' = [ledger EXCEPT ![w] = d]
      BY <2>13 DEF SpendLoad, d
    <3>4. IsDict(d, Keys, Int)
      BY <3>2 DEF d
    <3>5. /\ UNCHANGED <<now, patient, keys, credits, lock, op, tries, held, live, dead, calls>>
          /\ pc' \in [Workers -> {"idle", "check", "preread", "lock"} \cup Section]
      BY <2>13 DEF SpendLoad, Goto
    <3> QED BY <3>3, <3>4, <3>5
  <2>14. ASSUME NEW w \in Workers, SaveCredits(w) PROVE TypeOK'
    BY <2>14 DEF SaveCredits, Goto, frame
  <2>15. ASSUME NEW w \in Workers, Crash(w) PROVE TypeOK'
    BY <2>15, <2>a DEF Crash
  <2>16. CASE LockExpires
    BY <2>16 DEF LockExpires, frame
  <2>17. CASE Tick
    BY <2>17 DEF Tick, frame
  <2>18. CASE UNCHANGED vars
    BY <2>18 DEF vars
  <2> QED
    BY <2>1, <2>2, <2>3, <2>4, <2>5, <2>6, <2>7, <2>8, <2>9, <2>10, <2>11, <2>12,
       <2>13, <2>14, <2>15, <2>16, <2>17, <2>18 DEF Next, Step
<1>. QED BY <1>1, <1>2, PTL DEF Spec

-----------------------------------------------------------------------------
(* The caps *)

\* d holds at most n entries.
AtMost(d, n) == IsFiniteSet(DOMAIN d) /\ Cardinality(DOMAIN d) <= n

\* Neither the blobs nor any copy about to be written is over its cap: a copy
\* may be stale when it is written, but it replaces the whole blob.
CapInv ==
  /\ AtMost(keys, MaxKeys)
  /\ AtMost(credits, MaxCredits)
  /\ \A w \in Workers :
       /\ pc[w] = "save" => AtMost(live[w], MaxKeys)
       /\ pc[w] = "csave" => AtMost(ledger[w], MaxCredits)

\* Dropping entries keeps a dict below its cap.
LEMMA WithoutAtMost ==
  ASSUME NEW d, NEW n \in Nat, AtMost(d, n), NEW S
  PROVE  AtMost(Without(d, S), n) /\ Cardinality(DOMAIN Without(d, S)) \in Nat
<1>1. DOMAIN Without(d, S) = DOMAIN d \ S
  BY DEF Without
<1>2. /\ IsFiniteSet(DOMAIN d \ S)
      /\ Cardinality(DOMAIN d \ S) <= Cardinality(DOMAIN d)
      /\ Cardinality(DOMAIN d) \in Nat /\ Cardinality(DOMAIN d \ S) \in Nat
  BY FS_Subset, FS_CardinalityType, DOMAIN d \ S \subseteq DOMAIN d DEF AtMost
<1> QED BY <1>1, <1>2 DEF AtMost

\* A new key fits where the dict was below its cap.
LEMMA WithAtMost ==
  ASSUME NEW d, NEW n \in Nat, IsFiniteSet(DOMAIN d), NEW k, NEW v,
         Cardinality(DOMAIN d) < n
  PROVE  AtMost(With(d, k, v), n)
<1>1. DOMAIN With(d, k, v) = DOMAIN d \cup {k}
  BY DEF With
<1>2. /\ IsFiniteSet(DOMAIN d \cup {k})
      /\ Cardinality(DOMAIN d) \in Nat
      /\ Cardinality(DOMAIN d \cup {k}) <= Cardinality(DOMAIN d) + 1
      /\ Cardinality(DOMAIN d \cup {k}) \in Nat
  BY FS_AddElement, FS_CardinalityType
<1> QED BY <1>1, <1>2 DEF AtMost

\* An entry that is there already takes no new room, even if the dict was pruned
\* of it first: this is why add may exempt a known key from the test.
LEMMA WithKnownAtMost ==
  ASSUME NEW d, NEW n \in Nat, AtMost(d, n), NEW S, NEW k \in DOMAIN d, NEW v
  PROVE  AtMost(With(Without(d, S), k, v), n)
<1>1. DOMAIN With(Without(d, S), k, v) = (DOMAIN d \ S) \cup {k}
  BY DEF With, Without
<1>2. (DOMAIN d \ S) \cup {k} \subseteq DOMAIN d
  OBVIOUS
<1>3. /\ IsFiniteSet((DOMAIN d \ S) \cup {k})
      /\ Cardinality((DOMAIN d \ S) \cup {k}) <= Cardinality(DOMAIN d)
      /\ Cardinality(DOMAIN d) \in Nat /\ Cardinality((DOMAIN d \ S) \cup {k}) \in Nat
  BY <1>2, FS_Subset, FS_CardinalityType DEF AtMost
<1> QED BY <1>1, <1>3 DEF AtMost

\* No step takes a blob or a copy over its cap.
LEMMA CapStep == TypeOK /\ CapInv /\ [Next]_vars => CapInv'
<1> SUFFICES ASSUME TypeOK, CapInv, [Next]_vars PROVE CapInv'
  OBVIOUS
<1> MaxKeys \in Nat /\ MaxCredits \in Nat
  BY KeyStoreAssumption
<1> pc \in [Workers -> {"idle", "check", "preread", "lock"} \cup Section]
  BY DEF TypeOK
<1> live = [v \in Workers |-> live[v]] /\ ledger = [v \in Workers |-> ledger[v]]
  BY DEF TypeOK
\* A step that writes no blob and leaves its coroutine where nothing is about
\* to be written disturbs nothing.
<1>a. ASSUME NEW w \in Workers, UNCHANGED <<keys, credits>>,
             \A v \in Workers \ {w} : pc'[v] = pc[v] /\ live'[v] = live[v] /\ ledger'[v] = ledger[v],
             pc'[w] \notin {"save", "csave"}
      PROVE CapInv'
  BY <1>a DEF CapInv, AtMost
<1>1. ASSUME NEW w \in Workers, Call(w) PROVE CapInv'
  <2>1. PICK o \in Ops, l \in {"check", "preread", "lock"} : Begin(w, o, l)
    BY <1>1, CallBegins
  <2> QED BY <2>1, <1>a DEF Begin, Goto, frame
<1>2. ASSUME NEW w \in Workers, Return(w), UNCHANGED <<keys, credits>> PROVE CapInv'
  BY <1>2, <1>a DEF Return, Goto
<1>3. ASSUME NEW w \in Workers, GrantCheck(w) PROVE CapInv'
  BY <1>3, <1>2, <1>a DEF GrantCheck, Goto, frame
<1>4. ASSUME NEW w \in Workers, SpendPreread(w) PROVE CapInv'
  BY <1>4, <1>2, <1>a DEF SpendPreread, Goto, frame
<1>5. ASSUME NEW w \in Workers, Acquire(w) \/ GiveUp(w) PROVE CapInv'
  BY <1>5, <1>a DEF Acquire, GiveUp, Enter, Goto
<1>6. ASSUME NEW w \in Workers, LockBusy(w) PROVE CapInv'
  BY <1>6, <1>a DEF LockBusy
<1>7. ASSUME NEW w \in Workers, Leave(w) PROVE CapInv'
  BY <1>7, <1>2, <1>a DEF Leave, Goto
<1>8. ASSUME NEW w \in Workers, AddLoad(w) PROVE CapInv'
  <2> DEFINE expired == ExpiredIn(keys)
             kept == Without(keys, expired)
             k == op[w].key
             d == With(kept, k, op[w].expires)
  <2>1. UNCHANGED <<keys, credits, ledger>>
    BY <1>8 DEF AddLoad
  <2>2. CASE pc' = [pc EXCEPT ![w] = "leave"] /\ UNCHANGED live
    BY <2>1, <2>2, <1>a
  <2>3. CASE /\ k \in DOMAIN keys \/ Cardinality(DOMAIN kept) < MaxKeys
             /\ live' = [live EXCEPT ![w] = d]
             /\ pc' = [pc EXCEPT ![w] = "save"]
    <3>1. CASE k \in DOMAIN keys
      <4>1. AtMost(d, MaxKeys)
        BY <3>1, WithKnownAtMost DEF CapInv
      <4> QED BY <2>1, <2>3, <4>1 DEF CapInv
    <3>2. CASE Cardinality(DOMAIN kept) < MaxKeys
      <4>1. IsFiniteSet(DOMAIN kept)
        BY WithoutAtMost DEF CapInv, AtMost
      <4>2. AtMost(d, MaxKeys)
        BY <3>2, <4>1, WithAtMost
      <4> QED BY <2>1, <2>3, <4>2 DEF CapInv
    <3> QED BY <2>3, <3>1, <3>2
  <2> QED BY <1>8, <2>2, <2>3 DEF AddLoad, Goto
<1>9. ASSUME NEW w \in Workers, RevokeLoad(w) PROVE CapInv'
  <2> DEFINE d == Without(keys, ExpiredIn(keys) \cup {op[w].key})
  <2>1. AtMost(d, MaxKeys)
    BY WithoutAtMost DEF CapInv
  <2> HIDE DEF d
  <2>2. CASE UNCHANGED live /\ pc' = [pc EXCEPT ![w] = "leave"]
    BY <1>9, <2>2, <1>a DEF RevokeLoad
  <2>3. CASE live' = [live EXCEPT ![w] = d] /\ pc' = [pc EXCEPT ![w] = "save"]
    BY <1>9, <2>1, <2>3 DEF RevokeLoad, CapInv
  <2> QED BY <1>9, <2>2, <2>3 DEF RevokeLoad, Goto, d
<1>10. ASSUME NEW w \in Workers, SaveKeys(w) PROVE CapInv'
  BY <1>10 DEF SaveKeys, Goto, frame, CapInv
<1>11. ASSUME NEW w \in Workers, ForfeitLoad(w) PROVE CapInv'
  <2> DEFINE d == Without(credits, dead[w])
  <2>1. AtMost(d, MaxCredits)
    BY WithoutAtMost DEF CapInv
  <2> HIDE DEF d
  <2>2. /\ ledger' = [ledger EXCEPT ![w] = d]
        /\ pc' = [pc EXCEPT ![w] = "leave"] \/ pc' = [pc EXCEPT ![w] = "csave"]
        /\ UNCHANGED <<keys, credits, live>>
    BY <1>11 DEF ForfeitLoad, Goto, d
  <2> QED BY <2>1, <2>2 DEF CapInv
<1>12. ASSUME NEW w \in Workers, GrantLoad(w) PROVE CapInv'
  <2> DEFINE k == op[w].key
             d == With(credits, k, Granted(GetOr(credits, k, 0), op[w].amount))
  <2>1. UNCHANGED <<keys, credits, live>>
    BY <1>12 DEF GrantLoad
  <2>2. CASE UNCHANGED ledger /\ pc' = [pc EXCEPT ![w] = "leave"]
    BY <2>1, <2>2, <1>a
  <2>3. CASE /\ k \in DOMAIN credits \/ Cardinality(DOMAIN credits) < MaxCredits
             /\ ledger' = [ledger EXCEPT ![w] = d]
             /\ pc' = [pc EXCEPT ![w] = "csave"]
    <3>1. CASE k \in DOMAIN credits
      <4>1. DOMAIN d = DOMAIN credits
        BY <3>1 DEF With
      <4>2. AtMost(d, MaxCredits)
        BY <4>1 DEF CapInv, AtMost
      <4> QED BY <2>1, <2>3, <4>2 DEF CapInv
    <3>2. CASE Cardinality(DOMAIN credits) < MaxCredits
      <4>1. AtMost(d, MaxCredits)
        BY <3>2, WithAtMost DEF CapInv, AtMost
      <4> QED BY <2>1, <2>3, <4>1 DEF CapInv
    <3> QED BY <2>3, <3>1, <3>2
  <2> QED BY <1>12, <2>2, <2>3 DEF GrantLoad, Goto
<1>13. ASSUME NEW w \in Workers, SpendLoad(w) PROVE CapInv'
  <2> DEFINE d == [credits EXCEPT ![op[w].key] = @ - op[w].amount]
  <2>1. AtMost(d, MaxCredits)
    <3>1. DOMAIN d = DOMAIN credits
      OBVIOUS
    <3> QED BY <3>1 DEF CapInv, AtMost
  <2> HIDE DEF d
  <2>2. CASE UNCHANGED ledger /\ pc' = [pc EXCEPT ![w] = "leave"]
    BY <1>13, <2>2, <1>a DEF SpendLoad
  <2>3. CASE ledger' = [ledger EXCEPT ![w] = d] /\ pc' = [pc EXCEPT ![w] = "csave"]
    BY <1>13, <2>1, <2>3 DEF SpendLoad, CapInv
  <2> QED BY <1>13, <2>2, <2>3 DEF SpendLoad, Goto, d
<1>14. ASSUME NEW w \in Workers, SaveCredits(w) PROVE CapInv'
  BY <1>14 DEF SaveCredits, Goto, frame, CapInv
<1>15. ASSUME NEW w \in Workers, Crash(w) PROVE CapInv'
  BY <1>15, <1>2 DEF Crash
<1>16. CASE LockExpires \/ Tick \/ UNCHANGED vars
  BY <1>16 DEF LockExpires, Tick, vars, frame, CapInv
<1> QED
  BY <1>1, <1>3, <1>4, <1>5, <1>6, <1>7, <1>8, <1>9, <1>10, <1>11, <1>12, <1>13,
     <1>14, <1>15, <1>16 DEF Next, Step

\* The stored set and the ledger stay within their caps in every reachable
\* state: with the mutex failing open, entries expiring and processes dying.
THEOREM CapsHold == Spec => [](KeysWithinCap /\ CreditsWithinCap)
<1>1. Init => CapInv
  <2> SUFFICES ASSUME Init PROVE CapInv
    OBVIOUS
  <2>1. DOMAIN EmptyDict = {} /\ IsFiniteSet({}) /\ Cardinality({}) = 0
    BY EmptyIsDict, FS_EmptySet
  <2> QED BY <2>1, KeyStoreAssumption DEF Init, CapInv, AtMost
<1>2. TypeOK /\ CapInv /\ [Next]_vars => CapInv'
  BY CapStep
<1>3. CapInv => KeysWithinCap /\ CreditsWithinCap
  BY DEF CapInv, AtMost, KeysWithinCap, CreditsWithinCap
<1> QED BY <1>1, <1>2, <1>3, TypeCorrect, PTL DEF Spec

-----------------------------------------------------------------------------
(* Mutual exclusion *)

\* While the lock is as patient as the code hopes, it names the one coroutine
\* that is in a section, and no waiter has used up its attempts.
LockInv ==
  patient => \A w \in Workers : /\ InSection(w) => lock = w /\ held[w]
                                /\ tries[w] < MaxAttempts

\* Whether a behaviour is a patient one is settled from the start.
LEMMA PatienceStays == [Next]_vars => patient' = patient
BY DEF Next, Step, Call, BeginAdd, BeginRevoke, BeginGrant, BeginSpend, Begin, GrantCheck,
       SpendPreread, Acquire, LockBusy, GiveUp, Enter, Leave, AddLoad, RevokeLoad, SaveKeys,
       ForfeitLoad, GrantLoad, SpendLoad, SaveCredits, Crash, LockExpires, Tick, vars

\* No step lets a second coroutine in.
LEMMA LockStep == TypeOK /\ LockInv /\ [Next]_vars => LockInv'
<1> SUFFICES ASSUME TypeOK, LockInv, [Next]_vars, patient, patient' PROVE LockInv'
  <2>1. [Next]_vars => patient' = patient
    BY PatienceStays
  <2> QED BY <2>1 DEF LockInv
<1> USE KeyStoreAssumption DEF LockInv, InSection, Section, NoOne
<1>t. /\ pc \in [Workers -> {"idle", "check", "preread", "lock"} \cup Section]
      /\ tries \in [Workers -> 0..MaxAttempts]
      /\ held \in [Workers -> BOOLEAN]
  BY DEF TypeOK
<1>1. ASSUME NEW w \in Workers, Call(w) PROVE LockInv'
  <2>1. PICK o \in Ops, l \in {"check", "preread", "lock"} : Begin(w, o, l)
    BY <1>1, CallBegins
  <2> QED BY <2>1, <1>t DEF Begin, Goto, frame
<1>2. ASSUME NEW w \in Workers, Return(w), UNCHANGED lock PROVE LockInv'
  BY <1>2, <1>t DEF Return, Goto
<1>3. ASSUME NEW w \in Workers, GrantCheck(w) \/ SpendPreread(w) PROVE LockInv'
  BY <1>3, <1>2, <1>t DEF GrantCheck, SpendPreread, Goto, frame
<1>4. ASSUME NEW w \in Workers, Acquire(w) PROVE LockInv'
  BY <1>4, <1>t DEF Acquire, Enter, Goto
<1>5. ASSUME NEW w \in Workers, LockBusy(w) PROVE LockInv'
  BY <1>5, <1>t DEF LockBusy
<1>6. ASSUME NEW w \in Workers, GiveUp(w) PROVE LockInv'
  BY <1>6, <1>t DEF GiveUp
<1>7. ASSUME NEW w \in Workers, Leave(w) PROVE LockInv'
  <2>1. \A v \in Workers \ {w} : ~InSection(v)
    BY <1>7 DEF Leave
  <2>2. /\ pc' = [pc EXCEPT ![w] = "lock"] \/ pc' = [pc EXCEPT ![w] = "idle"]
        /\ tries' = [tries EXCEPT ![w] = 0]
    BY <1>7 DEF Leave, Return, Goto
  <2> QED BY <2>1, <2>2, <1>t
<1>8. ASSUME NEW w \in Workers,
             AddLoad(w) \/ RevokeLoad(w) \/ SaveKeys(w) \/ ForfeitLoad(w)
             \/ GrantLoad(w) \/ SpendLoad(w) \/ SaveCredits(w)
      PROVE LockInv'
  <2>1. /\ InSection(w)
        /\ \E l : pc' = [pc EXCEPT ![w] = l]
        /\ UNCHANGED <<lock, tries, held>>
    BY <1>8 DEF AddLoad, RevokeLoad, SaveKeys, ForfeitLoad, GrantLoad, SpendLoad,
                SaveCredits, Goto, frame
  <2> QED BY <2>1, <1>t
<1>9. ASSUME NEW w \in Workers, Crash(w) PROVE LockInv'
  BY <1>9, <1>2 DEF Crash
<1>10. CASE LockExpires \/ Tick \/ UNCHANGED vars
  BY <1>10 DEF LockExpires, Tick, vars, frame
<1> QED
  BY <1>1, <1>3, <1>4, <1>5, <1>6, <1>7, <1>8, <1>9, <1>10 DEF Next, Step

\* While no section outlives its lock and no waiter its attempts, at most one
\* coroutine at a time is between reading the blobs and writing them.
THEOREM MutexHolds == Spec => []MutualExclusion
<1>1. Init => LockInv
  BY KeyStoreAssumption DEF Init, LockInv, InSection, Section
<1>2. TypeOK /\ LockInv /\ [Next]_vars => LockInv'
  BY LockStep
<1>3. LockInv => MutualExclusion
  BY DEF LockInv, MutualExclusion
<1> QED BY <1>1, <1>2, <1>3, TypeCorrect, PTL DEF Spec

-----------------------------------------------------------------------------
(* Refinement of KeyLedger *)

\* The copy of the key set that an add or a revoke is about to write is what the
\* set of this very moment becomes by it.
KeysReady(w) ==
  LET k == op[w].key
  IN \/ /\ op[w].name = "add"
        /\ dead[w] \subseteq ExpiredIn(keys)
        /\ k \in DOMAIN keys \/ Cardinality(DOMAIN keys \ dead[w]) < MaxKeys
        /\ live[w] = With(Without(keys, dead[w]), k, op[w].expires)
     \/ /\ op[w].name = "revoke"
        /\ k \in DOMAIN keys
        /\ dead[w] = {k}
        /\ \E gone \in SUBSET ExpiredIn(keys) : live[w] = Without(keys, gone \cup {k})

\* Likewise the copy of the ledger.
CreditsReady(w) ==
  LET k == op[w].key
  IN \/ /\ op[w].name \in {"add", "revoke"}
        /\ ledger[w] = Without(credits, dead[w])
     \/ /\ op[w].name = "grant"
        /\ k \in DOMAIN credits \/ Cardinality(DOMAIN credits) < MaxCredits
        /\ ledger[w] = With(credits, k, Granted(GetOr(credits, k, 0), op[w].amount))
     \/ /\ op[w].name = "spend"
        /\ k \in DOMAIN credits
        /\ ledger[w] = [credits EXCEPT ![k] = @ - op[w].amount]

\* What the refinement rests on: in a patient behaviour no copy is stale when it
\* is written.
Fresh(w) ==
  /\ pc[w] \in {"load", "save"} => op[w].name \in {"add", "revoke"}
  /\ pc[w] = "save" => KeysReady(w)
  /\ pc[w] = "csave" => CreditsReady(w)

FreshInv == \A w \in Workers : Sound(op[w]) /\ (patient => Fresh(w))

\* No step makes a copy stale: whoever writes a blob is alone in its section.
LEMMA FreshStep == TypeOK /\ LockInv /\ FreshInv /\ [Next]_vars => FreshInv'
<1> SUFFICES ASSUME TypeOK, LockInv, FreshInv, [Next]_vars PROVE FreshInv'
  OBVIOUS
<1>p. patient' = patient
  BY PatienceStays
<1>t. /\ pc \in [Workers -> {"idle", "check", "preread", "lock"} \cup Section]
      /\ op = [v \in Workers |-> op[v]]
      /\ live = [v \in Workers |-> live[v]]
      /\ dead = [v \in Workers |-> dead[v]]
      /\ ledger = [v \in Workers |-> ledger[v]]
  BY DEF TypeOK
<1>n. Sound(NoOp)
  BY DEF Sound, NoOp
\* A step of one coroutine touches nobody else's copies, and no blob unless it
\* is in a section, which nobody else then is.
<1>a. ASSUME NEW w \in Workers, UNCHANGED now,
             \A v \in Workers \ {w} :
               /\ pc'[v] = pc[v] /\ op'[v] = op[v] /\ live'[v] = live[v]
               /\ dead'[v] = dead[v] /\ ledger'[v] = ledger[v],
             UNCHANGED <<keys, credits>> \/ InSection(w),
             Sound(op'[w]), patient => Fresh(w)'
      PROVE FreshInv'
  <2> SUFFICES ASSUME NEW v \in Workers, v # w
               PROVE Sound(op'[v]) /\ (patient => Fresh(v)')
    BY <1>a, <1>p DEF FreshInv
  <2>1. Sound(op'[v])
    BY <1>a DEF FreshInv
  <2>2. ASSUME patient, UNCHANGED <<keys, credits>> PROVE Fresh(v)'
    <3>1. Fresh(v)
      BY <2>2 DEF FreshInv
    <3> QED BY <1>a, <2>2, <3>1 DEF Fresh, KeysReady, CreditsReady, ExpiredIn
  <2>3. ASSUME patient, InSection(w) PROVE Fresh(v)'
    <3>1. ~InSection(v)
      BY <2>3 DEF LockInv
    <3>2. pc'[v] \notin Section
      BY <1>a, <3>1 DEF InSection
    <3> QED BY <3>2 DEF Fresh, Section
  <2> QED BY <1>a, <2>1, <2>2, <2>3
\* Most steps leave their coroutine where it has nothing to write, with the
\* operation it had.
<1>b. ASSUME NEW w \in Workers, UNCHANGED now,
             \A v \in Workers \ {w} :
               /\ pc'[v] = pc[v] /\ op'[v] = op[v] /\ live'[v] = live[v]
               /\ dead'[v] = dead[v] /\ ledger'[v] = ledger[v],
             UNCHANGED <<keys, credits>> \/ InSection(w),
             pc'[w] \notin {"load", "save", "csave"}, Sound(op'[w])
      PROVE FreshInv'
  BY <1>a, <1>b DEF Fresh
<1>1. ASSUME NEW w \in Workers, Call(w) PROVE FreshInv'
  <2>1. PICK o \in Ops, l \in {"check", "preread", "lock"} : Begin(w, o, l) /\ Sound(o)
    BY <1>1, CallBegins
  <2> QED BY <2>1, <1>b, <1>t DEF Begin, Goto, frame
<1>2. ASSUME NEW w \in Workers, Return(w), UNCHANGED <<now, keys, credits>> PROVE FreshInv'
  BY <1>2, <1>b, <1>t, <1>n DEF Return, Goto
<1>3. ASSUME NEW w \in Workers, GrantCheck(w) \/ SpendPreread(w) PROVE FreshInv'
  <2>1. CASE Return(w)
    BY <1>3, <2>1, <1>2 DEF GrantCheck, SpendPreread
  <2>2. CASE Goto(w, "lock") /\ UNCHANGED <<op, frame>>
    BY <1>3, <2>2, <1>b, <1>t DEF GrantCheck, SpendPreread, Goto, frame, FreshInv
  <2> QED BY <1>3, <2>1, <2>2 DEF GrantCheck, SpendPreread
<1>4. ASSUME NEW w \in Workers, Acquire(w) \/ GiveUp(w) PROVE FreshInv'
  <2>1. /\ pc' = [pc EXCEPT ![w] = IF op[w].name \in {"add", "revoke"} THEN "load" ELSE "cload"]
        /\ UNCHANGED <<now, keys, credits, op, live, dead, ledger>>
    BY <1>4 DEF Acquire, GiveUp, Enter, Goto
  <2>2. Fresh(w)'
    BY <2>1, <1>t DEF Fresh
  <2> QED BY <2>1, <2>2, <1>a, <1>t DEF FreshInv
<1>5. ASSUME NEW w \in Workers, LockBusy(w) PROVE FreshInv'
  BY <1>5, <1>b, <1>t DEF LockBusy, FreshInv
<1>6. ASSUME NEW w \in Workers, Leave(w) PROVE FreshInv'
  <2>1. CASE Return(w)
    BY <1>6, <2>1, <1>2 DEF Leave
  <2>2. CASE /\ op[w].name = "add" /\ op[w].amount # NoCredit
             /\ op' = [op EXCEPT ![w].name = "grant"]
             /\ Goto(w, "lock")
    <3>1. Sound(op[w])
      BY DEF FreshInv
    <3>2. op[w] \in Ops \cup {NoOp}
      BY DEF TypeOK
    <3>3. op'[w] = [op[w] EXCEPT !.name = "grant"]
      BY <2>2, <1>t
    <3>4. op'[w].name = "grant" /\ op'[w].amount = op[w].amount
      BY <3>2, <3>3 DEF Ops, NoOp
    <3>5. Sound(op'[w])
      BY <2>2, <3>1, <3>4 DEF Sound
    <3>6. \A v \in Workers \ {w} :
               /\ pc'[v] = pc[v] /\ op'[v] = op[v] /\ live'[v] = live[v]
               /\ dead'[v] = dead[v] /\ ledger'[v] = ledger[v]
      BY <1>6, <2>2, <1>t DEF Leave, Return, Goto
    <3>7. pc'[w] = "lock" /\ UNCHANGED <<now, keys, credits>>
      BY <1>6, <2>2, <1>t DEF Leave, Goto
    <3> QED BY <3>5, <3>6, <3>7, <1>b
  <2> QED BY <1>6, <2>1, <2>2 DEF Leave
<1>7. ASSUME NEW w \in Workers, AddLoad(w) PROVE FreshInv'
  <2> DEFINE k == op[w].key
             gone == ExpiredIn(keys)
  <2>1. /\ \A v \in Workers \ {w} :
             /\ pc'[v] = pc[v] /\ op'[v] = op[v] /\ live'[v] = live[v]
             /\ dead'[v] = dead[v] /\ ledger'[v] = ledger[v]
        /\ UNCHANGED <<now, keys, credits>>
    BY <1>7, <1>t DEF AddLoad, Goto
  <2>2. CASE /\ k \in DOMAIN keys \/ Cardinality(DOMAIN Without(keys, gone)) < MaxKeys
             /\ live' = [live EXCEPT ![w] = With(Without(keys, gone), k, op[w].expires)]
             /\ dead' = [dead EXCEPT ![w] = gone]
             /\ Goto(w, "save")
             /\ UNCHANGED op
    <3>1. DOMAIN Without(keys, gone) = DOMAIN keys \ gone
      BY DEF Without
    <3>2. KeysReady(w)'
      BY <1>7, <1>t, <2>1, <2>2, <3>1 DEF KeysReady, AddLoad, ExpiredIn
    <3>3. Fresh(w)'
      BY <1>7, <1>t, <2>2, <3>2 DEF Fresh, AddLoad, Goto
    <3> QED BY <1>a, <2>1, <2>2, <3>3 DEF FreshInv
  <2>3. CASE op' = [op EXCEPT ![w].amount = NoCredit] /\ Goto(w, "leave")
    <3>1. Sound(op[w]) /\ op[w].name = "add"
      BY <1>7 DEF FreshInv, AddLoad
    <3>2. op'[w] = [op[w] EXCEPT !.amount = NoCredit]
      BY <2>3, <1>t
    <3>3. op[w] \in Ops \cup {NoOp}
      BY DEF TypeOK
    <3>4. /\ op'[w].name = op[w].name /\ op'[w].expires = op[w].expires
          /\ op'[w].amount = NoCredit
      BY <3>2, <3>3 DEF Ops, NoOp
    <3>5. Sound(op'[w])
      BY <3>1, <3>4 DEF Sound
    <3> QED BY <1>b, <1>t, <2>1, <2>3, <3>5 DEF Goto
  <2> QED BY <1>7, <2>2, <2>3 DEF AddLoad
<1>8. ASSUME NEW w \in Workers, RevokeLoad(w) PROVE FreshInv'
  <2> DEFINE k == op[w].key
             copy == Without(keys, ExpiredIn(keys) \cup {k})
  <2>1. /\ \A v \in Workers \ {w} :
             /\ pc'[v] = pc[v] /\ op'[v] = op[v] /\ live'[v] = live[v]
             /\ dead'[v] = dead[v] /\ ledger'[v] = ledger[v]
        /\ UNCHANGED <<now, keys, credits, op>>
    BY <1>8, <1>t DEF RevokeLoad, Goto
  <2>2. CASE /\ k \in DOMAIN keys
             /\ live' = [live EXCEPT ![w] = copy]
             /\ dead' = [dead EXCEPT ![w] = {k}]
             /\ Goto(w, "save")
    <3>1. ExpiredIn(keys) \in SUBSET ExpiredIn(keys)'
      BY <2>1 DEF ExpiredIn
    <3>2. live'[w] = Without(keys', ExpiredIn(keys) \cup {op'[w].key})
      BY <2>1, <2>2, <1>t
    <3>3. /\ op'[w].name = "revoke"
          /\ op'[w].key \in DOMAIN keys'
          /\ dead'[w] = {op'[w].key}
      BY <1>8, <2>1, <2>2, <1>t DEF RevokeLoad
    <3>4. KeysReady(w)'
      BY <3>1, <3>2, <3>3 DEF KeysReady
    <3>5. Fresh(w)'
      BY <2>2, <1>t, <3>3, <3>4 DEF Fresh, Goto
    <3> QED BY <1>a, <2>1, <3>5 DEF FreshInv
  <2>3. CASE Goto(w, "leave")
    BY <1>b, <1>t, <2>1, <2>3 DEF Goto, FreshInv
  <2> QED BY <1>8, <2>2, <2>3 DEF RevokeLoad
<1>9. ASSUME NEW w \in Workers, SaveKeys(w) PROVE FreshInv'
  <2>1. InSection(w) /\ pc'[w] \in {"leave", "cload"}
    BY <1>9, <1>t DEF SaveKeys, Goto, InSection, Section
  <2> QED BY <1>9, <2>1, <1>b, <1>t DEF SaveKeys, Goto, frame, FreshInv
<1>10. ASSUME NEW w \in Workers, ForfeitLoad(w) PROVE FreshInv'
  <2>1. /\ pc'[w] \in {"leave", "csave"}
        /\ UNCHANGED <<now, keys, credits, op, dead>>
        /\ ledger'[w] = Without(credits, dead[w])
        /\ op[w].name \in {"add", "revoke"}
    BY <1>10, <1>t DEF ForfeitLoad, Goto
  <2>2. Fresh(w)'
    BY <2>1 DEF Fresh, CreditsReady
  <2> QED BY <1>10, <2>1, <2>2, <1>a, <1>t DEF ForfeitLoad, Goto, FreshInv
<1>11. ASSUME NEW w \in Workers, GrantLoad(w) PROVE FreshInv'
  <2> DEFINE k == op[w].key
             copy == With(credits, k, Granted(GetOr(credits, k, 0), op[w].amount))
  <2>1. /\ \A v \in Workers \ {w} :
             /\ pc'[v] = pc[v] /\ op'[v] = op[v] /\ live'[v] = live[v]
             /\ dead'[v] = dead[v] /\ ledger'[v] = ledger[v]
        /\ UNCHANGED <<now, keys, credits, op>>
    BY <1>11, <1>t DEF GrantLoad, Goto
  <2>2. CASE /\ k \in DOMAIN credits \/ Cardinality(DOMAIN credits) < MaxCredits
             /\ ledger' = [ledger EXCEPT ![w] = copy]
             /\ Goto(w, "csave")
    <3>1. ledger'[w] = copy /\ op'[w].name = "grant" /\ pc'[w] = "csave"
      BY <1>11, <2>1, <2>2, <1>t DEF GrantLoad, Goto
    <3>2. CreditsReady(w)'
      BY <2>1, <2>2, <3>1 DEF CreditsReady
    <3> QED BY <1>a, <2>1, <3>1, <3>2 DEF Fresh, FreshInv
  <2>3. CASE Goto(w, "leave")
    BY <1>b, <1>t, <2>1, <2>3 DEF Goto, FreshInv
  <2> QED BY <1>11, <2>2, <2>3 DEF GrantLoad
<1>12. ASSUME NEW w \in Workers, SpendLoad(w) PROVE FreshInv'
  <2> DEFINE k == op[w].key
             copy == [credits EXCEPT ![k] = @ - op[w].amount]
  <2>1. /\ \A v \in Workers \ {w} :
             /\ pc'[v] = pc[v] /\ op'[v] = op[v] /\ live'[v] = live[v]
             /\ dead'[v] = dead[v] /\ ledger'[v] = ledger[v]
        /\ UNCHANGED <<now, keys, credits, op>>
    BY <1>12, <1>t DEF SpendLoad, Goto
  <2>2. CASE k \in DOMAIN credits /\ ledger' = [ledger EXCEPT ![w] = copy] /\ Goto(w, "csave")
    <3>1. ledger'[w] = copy /\ op'[w].name = "spend" /\ pc'[w] = "csave"
      BY <1>12, <2>1, <2>2, <1>t DEF SpendLoad, Goto
    <3>2. CreditsReady(w)'
      BY <2>1, <2>2, <3>1 DEF CreditsReady
    <3> QED BY <1>a, <2>1, <3>1, <3>2 DEF Fresh, FreshInv
  <2>3. CASE Goto(w, "leave")
    BY <1>b, <1>t, <2>1, <2>3 DEF Goto, FreshInv
  <2> QED BY <1>12, <2>2, <2>3 DEF SpendLoad
<1>13. ASSUME NEW w \in Workers, SaveCredits(w) PROVE FreshInv'
  <2>1. InSection(w) /\ pc'[w] = "leave"
    BY <1>13, <1>t DEF SaveCredits, Goto, InSection, Section
  <2> QED BY <1>13, <2>1, <1>b, <1>t DEF SaveCredits, Goto, frame, FreshInv
<1>14. ASSUME NEW w \in Workers, Crash(w) PROVE FreshInv'
  BY <1>14, <1>2 DEF Crash
<1>15. CASE LockExpires \/ UNCHANGED vars
  BY <1>15 DEF LockExpires, vars, frame, FreshInv, Fresh, KeysReady, CreditsReady, ExpiredIn
<1>16. CASE Tick
  <2>1. now' = now + 1 /\ UNCHANGED <<patient, keys, credits, pc, op, live, dead, ledger>>
    BY <1>16 DEF Tick, frame
  <2>2. ExpiredIn(keys) \subseteq ExpiredIn(keys)'
    BY <2>1 DEF ExpiredIn, TypeOK, IsKeySet, IsDict, Never
  <2>3. ASSUME NEW w \in Workers, KeysReady(w) PROVE KeysReady(w)'
    BY <2>1, <2>2, <2>3 DEF KeysReady
  <2>4. ASSUME NEW w \in Workers, CreditsReady(w) PROVE CreditsReady(w)'
    BY <2>1, <2>4 DEF CreditsReady
  <2> QED BY <2>1, <2>3, <2>4 DEF FreshInv, Fresh
<1> QED
  BY <1>1, <1>3, <1>4, <1>5, <1>6, <1>7, <1>8, <1>9, <1>10, <1>11, <1>12, <1>13,
     <1>14, <1>15, <1>16 DEF Next, Step

\* Dropping nothing changes nothing.
LEMMA WithoutNothing ==
  ASSUME NEW K, NEW V, NEW d, IsDict(d, K, V), NEW S, S \cap DOMAIN d = {}
  PROVE  Without(d, S) = d
<1>1. DOMAIN d \ S = DOMAIN d
  OBVIOUS
<1> QED BY <1>1 DEF Without, IsDict

\* Nobody but the one in a section has balances to write away.
LEMMA DoomedByOne ==
  ASSUME LockInv, patient, NEW w \in Workers, InSection(w)
  PROVE  Doomed = IF pc[w] \in {"cload", "csave"} /\ op[w].name \in {"add", "revoke"}
                  THEN dead[w] ELSE {}
<1>1. \A v \in Workers : InSection(v) => v = w
  BY DEF LockInv
<1> QED BY <1>1 DEF Doomed, InSection, Section

\* Balances are doomed or not by what the coroutines in a section do, so a step
\* that leaves those alone dooms nothing and pardons nothing.
LEMMA DoomedStays ==
  ASSUME NEW w \in Workers,
         \A v \in Workers \ {w} : pc'[v] = pc[v] /\ op'[v] = op[v] /\ dead'[v] = dead[v],
         /\ pc[w] \notin {"cload", "csave"} \/ op[w].name \notin {"add", "revoke"}
         /\ pc'[w] \notin {"cload", "csave"} \/ op'[w].name \notin {"add", "revoke"}
  PROVE  Doomed' = Doomed
<1> DEFINE D == {v \in Workers : pc[v] \in {"cload", "csave"} /\ op[v].name \in {"add", "revoke"}}
<1>1. D' = D
  OBVIOUS
<1>2. \A v \in D : v # w /\ dead'[v] = dead[v]
  OBVIOUS
<1> HIDE DEF D
<1>3. UNION {dead'[v] : v \in D'} = UNION {dead[v] : v \in D}
  BY <1>1, <1>2
<1> QED BY <1>3 DEF Doomed, D

\* The ledger's words for dicts are this module's.
LEMMA LedgerWords ==
  /\ \A d, k, v : Ledger!With(d, k, v) = With(d, k, v)
  /\ \A d, S : Ledger!Without(d, S) = Without(d, S)
  /\ \A d, k, v : Ledger!GetOr(d, k, v) = GetOr(d, k, v)
  /\ \A S : Ledger!Cardinality(S) = Cardinality(S)
  /\ \A b, a : Ledger!Granted(b, a) = Granted(b, a)
  /\ \A d : Ledger!ExpiredIn(d) = ExpiredIn(d)
  /\ Ledger!EmptyDict = EmptyDict
  /\ Ledger!Never = Never
<1>1. \A S : Ledger!Cardinality(S) = Cardinality(S)
  BY DEF Ledger!Cardinality, Cardinality, Ledger!IsFiniteSet, IsFiniteSet
<1> QED
  BY <1>1 DEF With, Ledger!With, Without, Ledger!Without, GetOr, Ledger!GetOr, Granted,
     Ledger!Granted, ExpiredIn, Ledger!ExpiredIn, EmptyDict, Ledger!EmptyDict, Never, Ledger!Never

\* An add or a revoke takes effect when it writes the key set: from then on the
\* balances of the keys it drops count as gone.
LEMMA SaveKeysRefines ==
  ASSUME TypeOK, LockInv, FreshInv, patient, NEW w \in Workers, SaveKeys(w)
  PROVE  Ledger!Next
<1> DEFINE k == op[w].key
<1>t. /\ pc \in [Workers -> {"idle", "check", "preread", "lock"} \cup Section]
      /\ IsLedger(credits) /\ IsKeySet(keys)
      /\ op[w] \in Ops \cup {NoOp}
  BY DEF TypeOK
<1>s. /\ pc[w] = "save" /\ keys' = live[w]
      /\ pc' = [pc EXCEPT ![w] = IF dead[w] = {} THEN "leave" ELSE "cload"]
      /\ UNCHANGED <<now, credits, op, dead>>
  BY DEF SaveKeys, Goto, frame
<1>r. Sound(op[w]) /\ KeysReady(w)
  BY <1>s DEF FreshInv, Fresh
<1>k. k \in Keys
  BY <1>t, <1>r DEF KeysReady, Ops, NoOp
<1>1. Doomed = {}
  BY <1>s, DoomedByOne DEF InSection, Section
<1>2. Doomed' = dead[w]
  <2> DEFINE D == {v \in Workers : pc'[v] \in {"cload", "csave"} /\ op'[v].name \in {"add", "revoke"}}
  <2>1. \A v \in Workers : v # w => pc'[v] \notin {"cload", "csave"}
    BY <1>s, <1>t DEF LockInv, InSection, Section
  <2>2. op'[w].name \in {"add", "revoke"}
    BY <1>s, <1>r DEF KeysReady
  <2>3. CASE dead[w] = {}
    <3>1. D = {}
      BY <2>1, <2>3, <1>s, <1>t
    <3> QED BY <2>3, <3>1 DEF Doomed
  <2>4. CASE dead[w] # {}
    <3>1. D = {w}
      BY <2>1, <2>2, <2>4, <1>s, <1>t
    <3> QED BY <1>s, <3>1 DEF Doomed
  <2> QED BY <2>3, <2>4
<1>3. Without(credits, Doomed) = credits
  BY <1>1, <1>t, WithoutNothing DEF IsLedger
<1>4. CASE op[w].name = "add"
  <2>1. dead[w] \in SUBSET Ledger!ExpiredIn(keys)
    BY <1>r, <1>4, LedgerWords DEF KeysReady
  <2>2. k \in DOMAIN keys \/ Cardinality(DOMAIN keys \ dead[w]) < MaxKeys
    BY <1>r, <1>4 DEF KeysReady
  <2>3. keys' = With(Without(keys, dead[w]), k, op[w].expires)
    BY <1>r, <1>s, <1>4 DEF KeysReady
  <2>4. Without(credits, Doomed)' = Without(Without(credits, Doomed), dead[w])
    BY <1>s, <1>2, <1>3
  <2>5. Ledger!Add(k, op[w].expires)
    BY <1>s, <2>1, <2>2, <2>3, <2>4, LedgerWords DEF Ledger!Add
  <2>6. op[w].expires \in 1..Ledger!Never
    BY <1>r, <1>4, LedgerWords DEF Sound
  <2> QED BY <1>k, <2>5, <2>6 DEF Ledger!Next
<1>5. CASE op[w].name = "revoke"
  <2>1. PICK gone \in SUBSET ExpiredIn(keys) : live[w] = Without(keys, gone \cup {k})
    BY <1>r, <1>5 DEF KeysReady
  <2>2. k \in DOMAIN keys /\ dead[w] = {k}
    BY <1>r, <1>5 DEF KeysReady
  <2>3. gone \in SUBSET Ledger!ExpiredIn(keys)
    BY <2>1, LedgerWords
  <2>4. Without(credits, Doomed)' = Without(Without(credits, Doomed), {k})
    BY <1>s, <1>2, <1>3, <2>2
  <2>5. Ledger!Revoke(k)
    BY <1>s, <2>1, <2>2, <2>3, <2>4, LedgerWords DEF Ledger!Revoke
  <2> QED BY <1>k, <2>5 DEF Ledger!Next
<1> QED BY <1>r, <1>4, <1>5 DEF KeysReady

\* A grant or a debit takes effect when it writes the ledger; an add or a revoke
\* that writes it only carries out what it did already.
LEMMA SaveCreditsRefines ==
  ASSUME TypeOK, LockInv, FreshInv, patient, NEW w \in Workers, SaveCredits(w)
  PROVE  Ledger!Next \/ UNCHANGED Ledger!lvars
<1> DEFINE k == op[w].key
<1>t. /\ pc \in [Workers -> {"idle", "check", "preread", "lock"} \cup Section]
      /\ IsLedger(credits) /\ IsLedger(ledger[w])
      /\ op[w] \in Ops \cup {NoOp}
  BY DEF TypeOK
<1>s. /\ pc[w] = "csave" /\ credits' = ledger[w]
      /\ pc' = [pc EXCEPT ![w] = "leave"]
      /\ UNCHANGED <<now, keys, op, dead>>
  BY DEF SaveCredits, Goto, frame
<1>r. Sound(op[w]) /\ CreditsReady(w)
  BY <1>s DEF FreshInv, Fresh
<1>k. k \in Keys
  BY <1>t, <1>r DEF CreditsReady, Ops, NoOp
<1>1. Doomed = IF op[w].name \in {"add", "revoke"} THEN dead[w] ELSE {}
  BY <1>s, DoomedByOne DEF InSection, Section
<1>2. Doomed' = {}
  <2>1. \A v \in Workers : pc'[v] \notin {"cload", "csave"}
    BY <1>s, <1>t DEF LockInv, InSection, Section
  <2> QED BY <2>1 DEF Doomed
<1>3. Without(credits, Doomed)' = ledger[w]
  BY <1>s, <1>t, <1>2, WithoutNothing DEF IsLedger
<1>4. CASE op[w].name \in {"add", "revoke"}
  BY <1>s, <1>r, <1>1, <1>3, <1>4 DEF CreditsReady, Ledger!lvars
<1>5. CASE op[w].name \notin {"add", "revoke"}
  <2>1. Without(credits, Doomed) = credits
    BY <1>1, <1>5, <1>t, WithoutNothing DEF IsLedger
  <2>2. CASE op[w].name = "grant"
    <3>1. Ledger!Grant(k, op[w].amount)
      BY <1>s, <1>r, <1>3, <2>1, <2>2, LedgerWords DEF CreditsReady, Ledger!Grant
    <3> QED BY <1>k, <1>r, <2>2, <3>1 DEF Ledger!Next, Sound
  <2>3. CASE op[w].name = "spend"
    <3>1. Ledger!Spend(k, op[w].amount)
      BY <1>s, <1>r, <1>3, <2>1, <2>3 DEF CreditsReady, Ledger!Spend
    <3> QED BY <1>k, <1>r, <2>3, <3>1 DEF Ledger!Next, Sound
  <2> QED BY <1>r, <1>5, <2>2, <2>3 DEF CreditsReady
<1> QED BY <1>4, <1>5

\* A section that has forfeited what it dropped leaves: the balances it had
\* condemned were not there.
LEMMA ForfeitRefines ==
  ASSUME TypeOK, LockInv, patient, NEW w \in Workers, ForfeitLoad(w)
  PROVE  UNCHANGED Ledger!lvars
<1>t. /\ pc \in [Workers -> {"idle", "check", "preread", "lock"} \cup Section]
      /\ IsLedger(credits)
  BY DEF TypeOK
<1>s. /\ pc[w] = "cload" /\ op[w].name \in {"add", "revoke"}
      /\ pc' = [pc EXCEPT ![w] = IF dead[w] \cap DOMAIN credits = {} THEN "leave" ELSE "csave"]
      /\ UNCHANGED <<now, keys, credits, op, dead>>
  BY DEF ForfeitLoad, Goto
<1>1. Doomed = dead[w]
  BY <1>s, DoomedByOne DEF InSection, Section
<1>2. \A v \in Workers : v # w => pc'[v] \notin {"cload", "csave"}
  BY <1>s, <1>t DEF LockInv, InSection, Section
<1> DEFINE D == {v \in Workers : pc'[v] \in {"cload", "csave"} /\ op'[v].name \in {"add", "revoke"}}
<1>3. CASE dead[w] \cap DOMAIN credits = {}
  <2>1. D = {}
    BY <1>2, <1>3, <1>s, <1>t
  <2>2. Doomed' = {}
    BY <2>1 DEF Doomed
  <2>3. Without(credits, dead[w]) = credits /\ Without(credits, {}) = credits
    BY <1>3, <1>t, WithoutNothing DEF IsLedger
  <2> QED BY <1>1, <1>s, <2>2, <2>3 DEF Ledger!lvars
<1>4. CASE dead[w] \cap DOMAIN credits # {}
  <2>1. D = {w}
    BY <1>2, <1>4, <1>s, <1>t
  <2>2. Doomed' = dead[w]
    BY <1>s, <2>1 DEF Doomed
  <2> QED BY <1>1, <1>s, <2>2 DEF Ledger!lvars
<1> QED BY <1>3, <1>4

\* In a patient behaviour every step is one of the ledger's, or none.
LEMMA StepRefines ==
  TypeOK /\ LockInv /\ FreshInv /\ [Next]_vars => [patient => Ledger!Next]_(Ledger!lvars)
<1> SUFFICES ASSUME TypeOK, LockInv, FreshInv, [Next]_vars, patient
             PROVE  Ledger!Next \/ UNCHANGED Ledger!lvars
  OBVIOUS
<1>t. /\ pc \in [Workers -> {"idle", "check", "preread", "lock"} \cup Section]
      /\ op \in [Workers -> Ops \cup {NoOp}]
      /\ dead = [v \in Workers |-> dead[v]]
  BY DEF TypeOK
\* Most steps touch neither blob and doom no balance.
<1>a. ASSUME NEW w \in Workers, UNCHANGED <<now, keys, credits>>,
             \A v \in Workers \ {w} : pc'[v] = pc[v] /\ op'[v] = op[v] /\ dead'[v] = dead[v],
             pc[w] \notin {"cload", "csave"} \/ op[w].name \notin {"add", "revoke"},
             pc'[w] \notin {"cload", "csave"} \/ op'[w].name \notin {"add", "revoke"}
      PROVE UNCHANGED Ledger!lvars
  <2>1. Doomed' = Doomed
    BY <1>a, DoomedStays
  <2> QED BY <1>a, <2>1 DEF Ledger!lvars
<1>b. ASSUME NEW w \in Workers, Return(w), UNCHANGED <<now, keys, credits>>,
             pc[w] \notin {"cload", "csave"} \/ op[w].name \notin {"add", "revoke"}
      PROVE UNCHANGED Ledger!lvars
  BY <1>a, <1>b, <1>t DEF Return, Goto
<1>1. ASSUME NEW w \in Workers, Call(w) PROVE UNCHANGED Ledger!lvars
  <2>1. PICK o \in Ops, l \in {"check", "preread", "lock"} : Begin(w, o, l)
    BY <1>1, CallBegins
  <2> QED BY <2>1, <1>a, <1>t DEF Begin, Goto, frame
<1>2. ASSUME NEW w \in Workers, GrantCheck(w) \/ SpendPreread(w) PROVE UNCHANGED Ledger!lvars
  <2>1. CASE Return(w)
    BY <1>2, <2>1, <1>b DEF GrantCheck, SpendPreread
  <2>2. CASE Goto(w, "lock") /\ UNCHANGED <<op, frame>>
    BY <1>2, <2>2, <1>a, <1>t DEF GrantCheck, SpendPreread, Goto, frame
  <2> QED BY <1>2, <2>1, <2>2 DEF GrantCheck, SpendPreread
<1>3. ASSUME NEW w \in Workers, Acquire(w) \/ GiveUp(w) PROVE UNCHANGED Ledger!lvars
  <2>1. /\ pc[w] = "lock"
        /\ pc' = [pc EXCEPT ![w] = IF op[w].name \in {"add", "revoke"} THEN "load" ELSE "cload"]
        /\ UNCHANGED <<now, keys, credits, op, dead>>
    BY <1>3 DEF Acquire, GiveUp, Enter, Goto
  <2> QED BY <2>1, <1>a, <1>t
<1>4. ASSUME NEW w \in Workers, LockBusy(w) PROVE UNCHANGED Ledger!lvars
  BY <1>4, <1>a DEF LockBusy
<1>5. ASSUME NEW w \in Workers, Leave(w) PROVE UNCHANGED Ledger!lvars
  <2>1. CASE Return(w)
    BY <1>5, <2>1, <1>b DEF Leave
  <2>2. CASE /\ op' = [op EXCEPT ![w].name = "grant"]
             /\ Goto(w, "lock")
             /\ dead' = [dead EXCEPT ![w] = {}]
    BY <1>5, <2>2, <1>a, <1>t DEF Leave, Goto
  <2> QED BY <1>5, <2>1, <2>2 DEF Leave
<1>6. ASSUME NEW w \in Workers, AddLoad(w) PROVE UNCHANGED Ledger!lvars
  BY <1>6, <1>a, <1>t DEF AddLoad, Goto
<1>7. ASSUME NEW w \in Workers, RevokeLoad(w) PROVE UNCHANGED Ledger!lvars
  BY <1>7, <1>a, <1>t DEF RevokeLoad, Goto
<1>8. ASSUME NEW w \in Workers, GrantLoad(w) \/ SpendLoad(w) PROVE UNCHANGED Ledger!lvars
  BY <1>8, <1>a, <1>t DEF GrantLoad, SpendLoad, Goto
<1>9. ASSUME NEW w \in Workers, Crash(w) PROVE UNCHANGED Ledger!lvars
  BY <1>9, <1>b DEF Crash, InSection, Section
<1>10. CASE Tick
  <2>1. Doomed' = Doomed
    BY <1>10 DEF Tick, frame, Doomed
  <2>2. Ledger!Tick
    BY <1>10, <2>1 DEF Tick, Ledger!Tick
  <2> QED BY <2>2 DEF Ledger!Next
<1>11. CASE UNCHANGED vars
  BY <1>11 DEF vars, frame, Ledger!lvars, Doomed
<1>12. CASE LockExpires
  BY <1>12 DEF LockExpires
<1> QED
  BY <1>1, <1>2, <1>3, <1>4, <1>5, <1>6, <1>7, <1>8, <1>9, <1>10, <1>11, <1>12,
     SaveKeysRefines, SaveCreditsRefines, ForfeitRefines DEF Next, Step

\* Nothing is stored, owed or on its way at the start.
LEMMA InitRefines == Init => Ledger!Init /\ FreshInv
<1> SUFFICES ASSUME Init PROVE Ledger!Init /\ FreshInv
  OBVIOUS
<1>1. Doomed = {}
  BY DEF Init, Doomed
<1>2. Without(credits, Doomed) = EmptyDict
  BY <1>1, EmptyIsDict, WithoutNothing DEF Init
<1>3. Ledger!Init
  BY <1>2, LedgerWords DEF Init, Ledger!Init
<1>4. FreshInv
  BY DEF Init, FreshInv, Fresh, Sound, NoOp
<1> QED BY <1>3, <1>4

\* While the lock holds, the store is the ledger it promises to be: every add,
\* revoke, grant and debit takes effect at one instant, on the keys and balances
\* of that instant, although each is several reads and writes of two blobs
\* (_with_lock, add, revoke, grant_credit, spend_credit).
THEOREM LedgerImplemented == Spec => ImplementsLedger
<1>1. Init => LockInv
  BY KeyStoreAssumption DEF Init, LockInv, InSection, Section
<1> QED
  BY TypeCorrect, <1>1, LockStep, FreshStep, InitRefines, StepRefines, PTL DEF Spec, ImplementsLedger
=============================================================================
