---------------------------- MODULE AdmissionProofs ----------------------------
(***************************************************************************)
(* What a request goes through before a provider is called, for any number *)
(* of requests, clients, slots, buckets, bytes and entries.                *)
(*                                                                         *)
(* Usage: what the tables keep.  Both window tables are counted by the     *)
(* same code, so the lemmas are about one table t, the truth v about it    *)
(* (what each client has used in this window), the window n and whether    *)
(* the process was restarted, l.                                           *)
(* Gate: that the slots are counted right, how far a client can overrun    *)
(* its budget, and that none is turned away before it is spent.  The       *)
(* tables keep what they keep in Usage, since every step of Gate is one of *)
(* Usage, or leaves it alone.                                              *)
(* RateLimiter: the buckets, which forget but never overfill.              *)
(* HttpEdge: the bodies, the request's replayed and the response's in one  *)
(* piece.                                                                  *)
(* SemanticCache: that an answer fits the question it is given for.        *)
(***************************************************************************)
EXTENDS Gate, RateLimiter, HttpEdge, SemanticCache, FoldLemmas

-----------------------------------------------------------------------------
(* Usage *)

Users0(v) == {c \in Clients : v[c] > 0}
UseAt(t, c, n) == IF c \in DOMAIN t /\ t[c].window = n THEN t[c].used ELSE 0

\* The shape of a window table; an entry is only made for something used.
Shape(t, n) == IsDict(t, Clients, [window : 0..n, used : Nat \ {0}])

\* An entry of this window counts nothing that was not used.
Honest(t, v, n) == \A c \in DOMAIN t : t[c].window = n => t[c].used <= v[c]

\* If the users fit the table, it forgets none of them.
Exact(t, v, n, l) == ~l /\ Fits(Users0(v)) => \A c \in Clients : UseAt(t, c, n) = v[c]

WindowInv(t, v, n, l) == Shape(t, n) /\ Honest(t, v, n) /\ Exact(t, v, n, l)

\* A live entry is one of a client that has used something.
LEMMA LiveIsUsed ==
  ASSUME NEW t, NEW v \in [Clients -> Nat], NEW n \in Nat,
         Shape(t, n), Honest(t, v, n), NEW c \in DOMAIN t, t[c].window = n
  PROVE  c \in Users0(v)
<1>1. c \in Clients /\ t[c].used \in Nat /\ t[c].used > 0
  BY DEF Shape, IsDict
<1>2. t[c].used <= v[c] /\ v[c] \in Nat
  BY <1>1 DEF Honest
<1> QED
  BY <1>1, <1>2 DEF Users0

\* Fewer users than that fit.
LEMMA FewerFit ==
  ASSUME NEW S, NEW T, S \subseteq T, IsFiniteSet(T), Fits(T)
  PROVE  Fits(S)
<1>1. IsFiniteSet(S) /\ Cardinality(S) <= Cardinality(T)
  BY FS_Subset
<1>2. Cardinality(S) \in Nat /\ Cardinality(T) \in Nat
  BY <1>1, FS_CardinalityType
<1> QED
  BY <1>1, <1>2, UsageAssumption DEF Fits

\* A table of the entries of this window, full of others than c: with c there are
\* more users than fit.
LEMMA NoRoom ==
  ASSUME NEW s, NEW v \in [Clients -> Nat], NEW n \in Nat, Shape(s, n), Honest(s, v, n),
         \A d \in DOMAIN s : s[d].window = n, Full(s),
         NEW c \in Clients, c \notin DOMAIN s, v[c] > 0
  PROVE  ~Fits(Users0(v))
<1>1. DOMAIN s \cup {c} \subseteq Users0(v) /\ Users0(v) \subseteq Clients
  BY LiveIsUsed DEF Users0
<1>2. IsFiniteSet(Users0(v)) /\ IsFiniteSet(DOMAIN s)
  BY <1>1, FS_Subset, UsageAssumption
<1>3. Cardinality(DOMAIN s \cup {c}) = Cardinality(DOMAIN s) + 1
  BY <1>2, FS_AddElement
<1>4. Cardinality(DOMAIN s \cup {c}) <= Cardinality(Users0(v))
  BY <1>1, <1>2, FS_Subset
<1>5. Cardinality(DOMAIN s) \in Nat /\ Cardinality(Users0(v)) \in Nat /\ Cardinality(DOMAIN s \cup {c}) \in Nat
  BY <1>1, <1>2, <1>3, FS_CardinalityType
<1> QED
  BY <1>3, <1>4, <1>5, UsageAssumption DEF Full, Fits

\* WindowUse is what the table holds for the present window.
LEMMA UseIsNow == ASSUME NEW t, NEW c PROVE WindowUse(t, c) = UseAt(t, c, now)
BY DEF WindowUse, UseAt

\* Of t, r keeps entries as they are.
Part(r, t) == DOMAIN r \subseteq DOMAIN t /\ r = [d \in DOMAIN r |-> t[d]]

\* The table with room made keeps entries; and all of this window, unless those
\* alone fill it.
LEMMA RoomKeeps ==
  ASSUME NEW t, NEW r \in MakeRoom(t)
  PROVE  /\ Part(r, t)
         /\ \/ \A d \in Live(t) : d \in DOMAIN r
            \/ \E f : Full(f) /\ Part(f, t) /\ DOMAIN f = Live(t)
<1> DEFINE fresh == Without(t, DOMAIN t \ Live(t))
<1>1. DOMAIN fresh = Live(t) /\ Part(fresh, t)
  BY DEF Without, Live, Part
<1>2. CASE Full(fresh)
  <2>1. PICK k : r = Without(fresh, {k})
    BY <1>2 DEF MakeRoom
  <2> QED
    BY <1>1, <1>2, <2>1 DEF Without, Part
<1>3. CASE ~Full(fresh)
  BY <1>1, <1>3 DEF MakeRoom
<1> QED
  BY <1>2, <1>3

LEMMA PartKeeps ==
  ASSUME NEW t, NEW r, NEW v, NEW n, Part(r, t), Shape(t, n), Honest(t, v, n)
  PROVE  Shape(r, n) /\ Honest(r, v, n)
<1>1. \A d \in DOMAIN t : d \in Clients /\ t[d] \in [window : 0..n, used : Nat \ {0}]
  BY DEF Shape, IsDict
<1>2. Shape(r, n)
  BY <1>1 DEF Shape, IsDict, Part
<1> QED
  BY <1>2 DEF Honest, Part

\* Writing one entry.
LEMMA EntryOf ==
  ASSUME NEW r, NEW c, NEW e
  PROVE  /\ DOMAIN With(r, c, e) = DOMAIN r \cup {c}
         /\ With(r, c, e)[c] = e
         /\ \A d \in DOMAIN r : d # c => With(r, c, e)[d] = r[d]
BY DEF With

\* What RecordWindow adds is added, and nobody is forgotten who need not be.
LEMMA RecordKeeps ==
  ASSUME NEW t, NEW v \in [Clients -> Nat], NEW l, now \in Nat, WindowInv(t, v, now, l),
         NEW c \in Clients, NEW n \in Nat, NEW s \in RecordWindow(t, c, n)
  PROVE  WindowInv(s, [v EXCEPT ![c] = @ + n], now, l)
<1> DEFINE w == [v EXCEPT ![c] = @ + n]
<1>1. w \in [Clients -> Nat] /\ w[c] = v[c] + n /\ \A d \in Clients \ {c} : w[d] = v[d]
  OBVIOUS
<1> HIDE DEF w
<1>2. CASE n = 0
  <2>1. w = v
    BY <1>2 DEF w
  <2> QED
    BY <1>2, <2>1 DEF RecordWindow, w
<1>3. CASE n > 0
  <2> DEFINE e == [window |-> now, used |-> UseAt(t, c, now) + n]
  <2>1. PICK r : /\ s = With(r, c, e)
                 /\ r \in IF c \notin DOMAIN t /\ Full(t) THEN MakeRoom(t) ELSE {t}
    BY <1>3, UseIsNow DEF RecordWindow
  <2>2. Part(r, t)
    <3>1. t = [d \in DOMAIN t |-> t[d]]
      BY DEF WindowInv, Shape, IsDict
    <3>2. CASE c \notin DOMAIN t /\ Full(t)
      BY <2>1, <3>2, RoomKeeps
    <3>3. CASE ~(c \notin DOMAIN t /\ Full(t))
      BY <2>1, <3>1, <3>3 DEF Part
    <3> QED
      BY <3>2, <3>3
  <2>3. Shape(r, now) /\ Honest(r, v, now)
    BY <2>2, PartKeeps DEF WindowInv
  <2>4. UseAt(t, c, now) \in Nat /\ UseAt(t, c, now) <= v[c]
    BY DEF WindowInv, Shape, Honest, UseAt, IsDict
  <2>5. e \in [window : 0..now, used : Nat \ {0}] /\ e.window = now /\ e.used <= w[c]
    BY <1>1, <1>3, <2>4
  <2> HIDE DEF e
  <2>e. DOMAIN s = DOMAIN r \cup {c} /\ s[c] = e /\ \A d \in DOMAIN r : d # c => s[d] = r[d]
    <3>1. s = With(r, c, e)
      BY <2>1
    <3> QED
      BY <3>1 DEF With
  <2>6. Shape(s, now)
    <3>1. s = [d \in DOMAIN r \cup {c} |-> IF d = c THEN e ELSE r[d]]
      BY <2>1 DEF With
    <3> QED
      BY <2>3, <2>5, <3>1 DEF Shape, IsDict
  <2>7. Honest(s, w, now)
    <3> SUFFICES ASSUME NEW d \in DOMAIN s, s[d].window = now PROVE s[d].used <= w[d]
      BY DEF Honest
    <3>1. CASE d = c
      BY <2>5, <2>e, <3>1
    <3>2. CASE d # c
      <4>1. d \in DOMAIN r /\ s[d] = r[d] /\ d \in Clients
        BY <2>6, <2>e, <3>2 DEF Shape, IsDict
      <4> QED
        BY <1>1, <2>3, <3>2, <4>1 DEF Honest
    <3> QED
      BY <3>1, <3>2
  <2>8. Exact(s, w, now, l)
    <3> SUFFICES ASSUME ~l, Fits(Users0(w)), NEW d \in Clients PROVE UseAt(s, d, now) = w[d]
      BY DEF Exact
    <3>1. Users0(v) \subseteq Users0(w) /\ Users0(w) \subseteq Clients
      BY <1>1 DEF Users0
    <3>2. IsFiniteSet(Users0(w))
      BY <3>1, FS_Subset, UsageAssumption
    <3>6. Fits(Users0(v))
      BY <3>1, <3>2, FewerFit
    <3>3. UseAt(t, d, now) = v[d] /\ UseAt(t, c, now) = v[c]
      BY <3>6 DEF WindowInv, Exact
    <3>4. CASE d = c
      BY <1>1, <2>5, <2>e, <3>3, <3>4 DEF UseAt, e
    <3>5. CASE d # c
      <4>1. d \in Live(t) => d \in DOMAIN r
        <5>1. CASE c \notin DOMAIN t /\ Full(t)
          <6> SUFFICES ASSUME NEW f, Full(f), Part(f, t), DOMAIN f = Live(t) PROVE FALSE
            BY <2>1, <5>1, RoomKeeps
          <6>1. Shape(f, now) /\ Honest(f, v, now) /\ \A x \in DOMAIN f : f[x].window = now
            BY PartKeeps DEF WindowInv, Part, Live
          <6>2. Honest(f, w, now) /\ w[c] > 0 /\ c \notin DOMAIN f
            <7>1. c \in Live(t) => c \in DOMAIN t
              BY DEF Live
            <7>2. v[c] \in Nat /\ w[c] > 0
              BY <1>1, <1>3
            <7>3. \A x \in DOMAIN f : x # c /\ x \in Clients
              BY <5>1, <6>1, <7>1 DEF Shape, IsDict
            <7> QED
              BY <1>1, <5>1, <6>1, <7>2, <7>3 DEF Honest
          <6> QED
            BY <1>1, <6>1, <6>2, NoRoom
        <5>2. CASE ~(c \notin DOMAIN t /\ Full(t))
          BY <2>1, <5>2 DEF Live
        <5> QED
          BY <5>1, <5>2
      <4>2. UseAt(s, d, now) = UseAt(t, d, now)
        BY <2>2, <2>e, <3>5, <4>1 DEF UseAt, Part, Live
      <4> QED
        BY <1>1, <3>3, <3>5, <4>2
    <3> QED
      BY <3>4, <3>5
  <2> QED
    BY <2>6, <2>7, <2>8 DEF WindowInv, w
<1> QED
  BY <1>2, <1>3

-----------------------------------------------------------------------------

CostsOf(s) == [c \in Clients |-> s[c].cost]
TokensUsed(s) == [c \in Clients |-> s[c].tokens]

ClockOK ==
  /\ now \in 0..MaxWindow /\ calls \in 0..MaxCalls /\ lost \in BOOLEAN
  /\ total \in [Clients -> Nat]
  /\ spent \in [Clients -> [cost : Nat, tokens : Nat]]

WindowsInv ==
  /\ WindowInv(window, CostsOf(spent), now, lost)
  /\ WindowInv(tokens, TokensUsed(spent), now, lost)

\* The table of a new window, or of a new process, holds nothing of this one.
LEMMA NothingHeld ==
  ASSUME NEW t, NEW n \in Nat, NEW v \in [Clients -> Nat], NEW l,
         Shape(t, n), \A c \in DOMAIN t : t[c].window # n,
         l \/ \A c \in Clients : v[c] = 0
  PROVE  WindowInv(t, v, n, l)
BY DEF WindowInv, Honest, Exact, UseAt

LEMMA EmptyShape == ASSUME NEW n PROVE Shape(EmptyDict, n) /\ DOMAIN EmptyDict = {}
BY DEF Shape, EmptyDict, IsDict

LEMMA ClockStep == ClockOK /\ [Next]_usageVars => ClockOK'
<1> SUFFICES ASSUME ClockOK, [Next]_usageVars PROVE ClockOK'
  OBVIOUS
<1> USE UsageAssumption
<1>1. ASSUME NEW c \in Clients, NEW u \in Users \cup {NoUser}, NEW cost \in 0..MaxCost,
             Account(c, u, cost)
      PROVE  ClockOK'
  <2>1. now' = now /\ lost' = lost /\ calls' \in 0..MaxCalls
    BY <1>1 DEF Account, ClockOK
  <2>2. total' \in [Clients -> Nat]
    BY <1>1 DEF Account, ClockOK
  <2>3. spent' \in [Clients -> [cost : Nat, tokens : Nat]]
    <3>1. spent[c] \in [cost : Nat, tokens : Nat]
      BY DEF ClockOK
    <3>2. [cost |-> spent[c].cost + cost, tokens |-> spent[c].tokens + 1] \in [cost : Nat, tokens : Nat]
      BY <3>1
    <3> QED
      BY <1>1, <3>2 DEF Account, ClockOK
  <2> QED
    BY <2>1, <2>2, <2>3 DEF ClockOK
<1>2. CASE Tick
  <2>1. now' \in 0..MaxWindow /\ calls' = calls /\ lost' = FALSE /\ total' = total
    BY <1>2 DEF Tick, ClockOK
  <2>2. spent' \in [Clients -> [cost : Nat, tokens : Nat]]
    BY <1>2 DEF Tick
  <2> QED
    BY <2>1, <2>2 DEF ClockOK
<1>3. CASE Flush
  BY <1>3 DEF Flush, ClockOK, truth
<1>4. CASE Restart
  BY <1>4 DEF Restart, ClockOK
<1>5. CASE UNCHANGED usageVars
  BY <1>5 DEF usageVars, truth, ClockOK
<1> QED
  BY <1>1, <1>2, <1>3, <1>4, <1>5 DEF Next

LEMMA WindowsStep == ClockOK /\ WindowsInv /\ [Next]_usageVars => WindowsInv'
<1> SUFFICES ASSUME ClockOK, WindowsInv, [Next]_usageVars PROVE WindowsInv'
  OBVIOUS
<1> USE UsageAssumption
<1>0. /\ CostsOf(spent) \in [Clients -> Nat] /\ TokensUsed(spent) \in [Clients -> Nat]
      /\ now \in Nat
  BY DEF ClockOK, CostsOf, TokensUsed
<1>1. ASSUME NEW c \in Clients, NEW u \in Users \cup {NoUser}, NEW cost \in 0..MaxCost,
             Account(c, u, cost)
      PROVE  WindowsInv'
  <2>1. /\ CostsOf(spent') = [CostsOf(spent) EXCEPT ![c] = @ + cost]
        /\ TokensUsed(spent') = [TokensUsed(spent) EXCEPT ![c] = @ + 1]
    BY <1>1 DEF Account, CostsOf, TokensUsed, ClockOK
  <2>2. /\ window' \in RecordWindow(window, c, cost) /\ tokens' \in RecordWindow(tokens, c, 1)
        /\ now' = now /\ lost' = lost /\ cost \in Nat
    BY <1>1 DEF Account
  <2> DEFINE v == CostsOf(spent)
             k == TokensUsed(spent)
  <2>a. v \in [Clients -> Nat] /\ k \in [Clients -> Nat]
    BY <1>0
  <2>b. WindowInv(window, v, now, lost) /\ WindowInv(tokens, k, now, lost)
    BY DEF WindowsInv
  <2> HIDE DEF v, k
  <2>c. WindowInv(window', [v EXCEPT ![c] = @ + cost], now, lost)
    BY <1>0, <2>2, <2>a, <2>b, RecordKeeps
  <2>d. WindowInv(tokens', [k EXCEPT ![c] = @ + 1], now, lost)
    BY <1>0, <2>2, <2>a, <2>b, RecordKeeps
  <2>3. WindowInv(window', CostsOf(spent'), now, lost)
    BY <2>1, <2>c DEF v
  <2>4. WindowInv(tokens', TokensUsed(spent'), now, lost)
    BY <2>1, <2>d DEF k
  <2> QED
    BY <2>2, <2>3, <2>4 DEF WindowsInv
<1>2. CASE Tick
  <2>1. /\ now' = now + 1 /\ window' = window /\ tokens' = tokens /\ lost' = FALSE
        /\ spent' = [c \in Clients |-> [cost |-> 0, tokens |-> 0]]
    BY <1>2 DEF Tick, tables
  <2>2. ASSUME NEW t, Shape(t, now)
        PROVE  Shape(t, now') /\ \A c \in DOMAIN t : t[c].window # now'
    <3>1. \A c \in DOMAIN t : t[c] \in [window : 0..now, used : Nat \ {0}]
      BY <2>2 DEF Shape, IsDict
    <3>2. \A c \in DOMAIN t : t[c] \in [window : 0..now', used : Nat \ {0}] /\ t[c].window # now'
      BY <1>0, <2>1, <3>1
    <3> QED
      BY <2>2, <3>2 DEF Shape, IsDict
  <2>3. /\ CostsOf(spent') \in [Clients -> Nat] /\ TokensUsed(spent') \in [Clients -> Nat]
        /\ \A c \in Clients : CostsOf(spent')[c] = 0 /\ TokensUsed(spent')[c] = 0
    BY <2>1 DEF CostsOf, TokensUsed
  <2>4. Shape(window, now) /\ Shape(tokens, now)
    BY DEF WindowsInv, WindowInv
  <2>5. now' \in Nat
    BY <1>0, <2>1
  <2>6. WindowInv(window, CostsOf(spent'), now', lost') /\ WindowInv(tokens, TokensUsed(spent'), now', lost')
    BY <2>2, <2>3, <2>4, <2>5, NothingHeld
  <2> QED
    BY <2>1, <2>6 DEF WindowsInv
<1>3. CASE Restart
  <2>1. /\ window' = EmptyDict /\ tokens' = EmptyDict /\ lost' = TRUE /\ now' = now /\ spent' = spent
    BY <1>3 DEF Restart
  <2>2. ASSUME NEW v \in [Clients -> Nat] PROVE WindowInv(EmptyDict, v, now, TRUE)
    BY <1>0, EmptyShape, NothingHeld
  <2> QED
    BY <1>0, <2>1, <2>2 DEF WindowsInv
<1>4. CASE Flush \/ UNCHANGED usageVars
  BY <1>4 DEF Flush, usageVars, tables, truth, WindowsInv
<1> QED
  BY <1>1, <1>2, <1>3, <1>4 DEF Next

-----------------------------------------------------------------------------

CapOK(S) == Cap # 0 => Cardinality(S) <= Cap

\* A table of usage that counts no more than was spent.
Owed(t, v) == IsDict(t, Clients, Entry) /\ \A c \in DOMAIN t : t[c].cost <= v[c]

\* One key more, when there is room for it.
LEMMA OneMore ==
  ASSUME NEW S, IsFiniteSet(S), NEW k, Cap # 0 => (k \in S /\ CapOK(S)) \/ Cardinality(S) < Cap
  PROVE  CapOK(S \cup {k})
<1>1. /\ Cardinality(S) \in Nat
      /\ Cardinality(S \cup {k}) = IF k \in S THEN Cardinality(S) ELSE Cardinality(S) + 1
  BY FS_AddElement, FS_CardinalityType
<1> QED
  BY <1>1, UsageAssumption DEF CapOK

\* One key less makes room.
LEMMA OneLess ==
  ASSUME NEW S, IsFiniteSet(S), CapOK(S), NEW k \in S
  PROVE  IsFiniteSet(S \ {k}) /\ (Cap # 0 => Cardinality(S \ {k}) < Cap)
<1>1. /\ Cardinality(S) \in Nat /\ IsFiniteSet(S \ {k})
      /\ Cardinality(S \ {k}) = Cardinality(S) - 1
  BY FS_RemoveElement, FS_CardinalityType
<1> QED
  BY <1>1, UsageAssumption DEF CapOK

LEMMA CountedIsDict ==
  ASSUME NEW K, NEW t, NEW k, NEW cost, IsDict(t, K, Entry), k \in K, cost \in Nat
  PROVE  IsDict(Counted(t, k, cost), K, Entry)
<1> DEFINE old == GetOr(t, k, Zero)
           e == [requests |-> old.requests + 1, cost |-> old.cost + cost]
<1>1. old \in Entry
  BY DEF GetOr, Zero, Entry, IsDict
<1>2. e \in Entry
  BY <1>1 DEF Entry
<1>3. Counted(t, k, cost) = [x \in DOMAIN t \cup {k} |-> IF x = k THEN e ELSE t[x]]
  BY DEF Counted, With
<1> HIDE DEF e
<1> QED
  BY <1>2, <1>3 DEF IsDict

LEMMA CountedIs ==
  ASSUME NEW t, NEW k, NEW cost
  PROVE  DOMAIN Counted(t, k, cost) = DOMAIN t \cup {k}
BY DEF Counted, With

LEMMA LessIsDict ==
  ASSUME NEW K, NEW t, IsDict(t, K, Entry), NEW S
  PROVE  IsDict(Without(t, S), K, Entry) /\ DOMAIN Without(t, S) = DOMAIN t \ S
         /\ \A d \in DOMAIN t \ S : Without(t, S)[d] = t[d]
BY DEF IsDict, Without

LEMMA LessIsOwed ==
  ASSUME NEW t, NEW v, Owed(t, v), NEW S
  PROVE  Owed(Without(t, S), v)
<1>1. IsDict(t, Clients, Entry)
  BY DEF Owed
<1>2. /\ IsDict(Without(t, S), Clients, Entry) /\ DOMAIN Without(t, S) = DOMAIN t \ S
      /\ \A d \in DOMAIN t \ S : Without(t, S)[d] = t[d]
  BY <1>1, LessIsDict
<1> QED
  BY <1>2 DEF Owed

LEMMA CountedIsOwed ==
  ASSUME NEW r, NEW v, NEW w, NEW k, NEW cost, Owed(r, v), k \in Clients, cost \in Nat,
         v[k] \in Nat, w[k] = v[k] + cost, \A d \in Clients \ {k} : w[d] = v[d]
  PROVE  Owed(Counted(r, k, cost), w)
<1> DEFINE q == Counted(r, k, cost)
<1>1. IsDict(r, Clients, Entry)
  BY DEF Owed
<1>2. GetOr(r, k, Zero).cost \in Nat /\ GetOr(r, k, Zero).cost <= v[k]
  BY <1>1 DEF GetOr, Zero, Owed, IsDict, Entry
<1>3. IsDict(q, Clients, Entry)
  BY <1>1, CountedIsDict
<1>6. /\ DOMAIN q = DOMAIN r \cup {k}
      /\ q[k].cost = GetOr(r, k, Zero).cost + cost
      /\ \A d \in DOMAIN r : d # k => q[d] = r[d]
  BY DEF Counted, With
<1> HIDE DEF q
<1>4. ASSUME NEW d \in DOMAIN q PROVE q[d].cost <= w[d]
  <2>1. CASE d = k
    BY <1>2, <1>6, <2>1
  <2>2. CASE d # k
    <3>1. d \in DOMAIN r /\ d \in Clients /\ q[d] = r[d]
      BY <1>3, <1>4, <1>6, <2>2 DEF IsDict
    <3> QED
      BY <2>2, <3>1 DEF Owed
  <2> QED
    BY <2>1, <2>2
<1>5. Owed(q, w)
  BY <1>3, <1>4 DEF Owed
<1> QED
  BY <1>5 DEF q

\* Recording a call counts what it cost, and keeps the table within the cap.
LEMMA UsageKeeps ==
  ASSUME NEW t, NEW v \in [Clients -> Nat], Owed(t, v), CapOK(DOMAIN t),
         NEW k \in Clients, NEW cost \in Nat, NEW s \in RecordUsage(t, k, cost)
  PROVE  Owed(s, [v EXCEPT ![k] = @ + cost]) /\ CapOK(DOMAIN s)
<1> DEFINE w == [v EXCEPT ![k] = @ + cost]
<1>1. w \in [Clients -> Nat] /\ w[k] = v[k] + cost /\ \A d \in Clients \ {k} : w[d] = v[d]
  OBVIOUS
<1> HIDE DEF w
<1>2. ASSUME NEW r, Owed(r, v) PROVE Owed(Counted(r, k, cost), w)
  BY <1>1, <1>2, CountedIsOwed
<1>3. IsDict(t, Clients, Entry) /\ IsFiniteSet(DOMAIN t)
  BY FS_Subset, UsageAssumption DEF Owed, IsDict
<1>4. CASE k \notin DOMAIN t /\ Full(t)
  <2>1. PICK j \in DOMAIN t : s = Counted(Without(t, {j}), k, cost)
    BY <1>4 DEF RecordUsage, Coldest
  <2>2. IsDict(Without(t, {j}), Clients, Entry) /\ DOMAIN Without(t, {j}) = DOMAIN t \ {j}
    BY <1>3, LessIsDict
  <2>3. DOMAIN s = (DOMAIN t \ {j}) \cup {k}
    BY <2>1, <2>2, CountedIs
  <2>5. IsFiniteSet(DOMAIN t \ {j}) /\ (Cap # 0 => Cardinality(DOMAIN t \ {j}) < Cap)
    BY <1>3, OneLess
  <2>4. CapOK(DOMAIN s)
    BY <2>3, <2>5, OneMore
  <2> QED
    BY <1>2, <2>1, <2>4, LessIsOwed DEF w
<1>5. CASE ~(k \notin DOMAIN t /\ Full(t))
  <2>1. s = Counted(t, k, cost)
    BY <1>5 DEF RecordUsage
  <2>2. DOMAIN s = DOMAIN t \cup {k}
    BY <2>1, CountedIs
  <2>3. Cap # 0 => (k \in DOMAIN t /\ CapOK(DOMAIN t)) \/ Cardinality(DOMAIN t) < Cap
    BY <1>3, <1>5, FS_CardinalityType, UsageAssumption DEF Full
  <2>4. CapOK(DOMAIN s)
    BY <1>3, <2>2, <2>3, OneMore
  <2> QED
    BY <1>2, <2>1, <2>4 DEF w
<1> QED
  BY <1>4, <1>5

\* So does recording in a window table.
LEMMA WindowKeepsCap ==
  ASSUME NEW t, NEW m, Shape(t, m), CapOK(DOMAIN t), NEW c \in Clients, NEW n,
         NEW s \in RecordWindow(t, c, n)
  PROVE  CapOK(DOMAIN s)
<1>0. IsFiniteSet(DOMAIN t)
  BY FS_Subset, UsageAssumption DEF Shape, IsDict
<1>1. CASE s = t
  BY <1>1
<1>2. CASE s # t
  <2>1. PICK r \in (IF c \notin DOMAIN t /\ Full(t) THEN MakeRoom(t) ELSE {t}) :
          DOMAIN s = DOMAIN r \cup {c}
    BY <1>2 DEF RecordWindow, With
  <2>2. CASE c \notin DOMAIN t /\ Full(t)
    <3> DEFINE fresh == Without(t, DOMAIN t \ Live(t))
    <3>1. DOMAIN fresh \subseteq DOMAIN t
      BY DEF Without
    <3>2. IsFiniteSet(DOMAIN fresh) /\ Cardinality(DOMAIN fresh) <= Cardinality(DOMAIN t)
          /\ Cardinality(DOMAIN fresh) \in Nat /\ Cardinality(DOMAIN t) \in Nat
      BY <1>0, <3>1, FS_Subset, FS_CardinalityType
    <3>3. CapOK(DOMAIN fresh)
      BY <3>2, UsageAssumption DEF CapOK
    <3> HIDE DEF fresh
    <3>4. CASE Full(fresh)
      <4>1. PICK k \in DOMAIN fresh : DOMAIN r = DOMAIN fresh \ {k}
        BY <2>1, <2>2, <3>4 DEF MakeRoom, Smallest, Without, fresh
      <4> QED
        BY <2>1, <3>2, <3>3, <4>1, OneLess, OneMore
    <3>5. CASE ~Full(fresh)
      <4>1. r = fresh /\ (Cap # 0 => Cardinality(DOMAIN fresh) < Cap)
        BY <2>1, <2>2, <3>2, <3>5, UsageAssumption DEF MakeRoom, Full, fresh
      <4> QED
        BY <2>1, <3>2, <4>1, OneMore
    <3> QED
      BY <3>4, <3>5
  <2>3. CASE ~(c \notin DOMAIN t /\ Full(t))
    <3>1. Cap # 0 => (c \in DOMAIN t /\ CapOK(DOMAIN t)) \/ Cardinality(DOMAIN t) < Cap
      BY <1>0, <2>3, FS_CardinalityType, UsageAssumption DEF Full
    <3> QED
      BY <1>0, <2>1, <2>3, <3>1, OneMore
  <2> QED
    BY <2>2, <2>3
<1> QED
  BY <1>1, <1>2

-----------------------------------------------------------------------------

UsersOK(t) ==
  /\ DOMAIN t \subseteq Clients
  /\ \A c \in DOMAIN t : IsDict(t[c], Users, Entry) /\ DOMAIN t[c] # {}

LEMMA PairsAre ==
  ASSUME NEW t
  PROVE  \A p : p \in Pairs(t) <=> /\ p = <<p[1], p[2]>>
                                   /\ p[1] \in DOMAIN t /\ p[2] \in DOMAIN t[p[1]]
BY DEF Pairs

LEMMA PairsFinite ==
  ASSUME NEW t, UsersOK(t)
  PROVE  Pairs(t) \subseteq Clients \X Users /\ IsFiniteSet(Pairs(t))
<1>1. Pairs(t) \subseteq Clients \X Users
  BY DEF Pairs, UsersOK, IsDict
<1>2. IsFiniteSet(Clients \X Users)
  BY FS_Product, UsageAssumption
<1> QED
  BY <1>1, <1>2, FS_Subset

LEMMA FewerCap ==
  ASSUME NEW S, NEW T, S \subseteq T, IsFiniteSet(T), CapOK(T)
  PROVE  CapOK(S) /\ IsFiniteSet(S)
<1>1. IsFiniteSet(S) /\ Cardinality(S) <= Cardinality(T)
  BY FS_Subset
<1>2. Cardinality(S) \in Nat /\ Cardinality(T) \in Nat
  BY <1>1, FS_CardinalityType
<1> QED
  BY <1>1, <1>2, UsageAssumption DEF CapOK

\* A user's call is written to the table of its client.
LEMMA WithUser ==
  ASSUME NEW t, UsersOK(t), NEW c \in Clients, NEW u \in Users, NEW cost \in Nat,
         NEW s, s = With(t, c, Counted(GetOr(t, c, EmptyDict), u, cost))
  PROVE  UsersOK(s) /\ Pairs(s) \subseteq Pairs(t) \cup {<<c, u>>}
<1> DEFINE mine == GetOr(t, c, EmptyDict)
           q == Counted(mine, u, cost)
<1>1. IsDict(mine, Users, Entry)
  <2>1. CASE c \in DOMAIN t
    BY <2>1 DEF GetOr, UsersOK
  <2>2. CASE c \notin DOMAIN t
    BY <2>2 DEF GetOr, IsDict, EmptyDict
  <2> QED
    BY <2>1, <2>2
<1>2. DOMAIN mine = IF c \in DOMAIN t THEN DOMAIN t[c] ELSE {}
  BY DEF GetOr, EmptyDict
<1> HIDE DEF mine
<1>3. IsDict(q, Users, Entry)
  BY <1>1, CountedIsDict
<1>4. DOMAIN q = DOMAIN mine \cup {u}
  BY CountedIs
<1>5. s = With(t, c, q)
  BY DEF mine
<1> HIDE DEF q
<1>6. DOMAIN s = DOMAIN t \cup {c} /\ s[c] = q /\ \A d \in DOMAIN t : d # c => s[d] = t[d]
  BY <1>5 DEF With
<1>7. UsersOK(s)
  BY <1>3, <1>4, <1>6 DEF UsersOK
<1>8. ASSUME NEW p \in Pairs(s) PROVE p \in Pairs(t) \cup {<<c, u>>}
  <2>1. p = <<p[1], p[2]>> /\ p[1] \in DOMAIN s /\ p[2] \in DOMAIN s[p[1]]
    BY <1>8, PairsAre
  <2>2. CASE p[1] = c
    <3>1. p[2] = u \/ (c \in DOMAIN t /\ p[2] \in DOMAIN t[c])
      BY <1>2, <1>4, <1>6, <2>1, <2>2
    <3> QED
      BY <2>1, <2>2, <3>1, PairsAre
  <2>3. CASE p[1] # c
    BY <1>6, <2>1, <2>3, PairsAre
  <2> QED
    BY <2>2, <2>3
<1> QED
  BY <1>7, <1>8

\* An evicted pair is gone, and its client with it if it was the last.
LEMMA WithoutUser ==
  ASSUME NEW t, UsersOK(t), NEW p \in Pairs(t), NEW s, s = WithoutPair(t, p)
  PROVE  UsersOK(s) /\ Pairs(s) \subseteq Pairs(t) \ {p}
<1> DEFINE rest == Without(t[p[1]], {p[2]})
<1>1. p = <<p[1], p[2]>> /\ p[1] \in DOMAIN t /\ p[2] \in DOMAIN t[p[1]]
  BY PairsAre
<1>2. IsDict(rest, Users, Entry) /\ DOMAIN rest = DOMAIN t[p[1]] \ {p[2]}
  <2>1. IsDict(t[p[1]], Users, Entry)
    BY <1>1 DEF UsersOK
  <2>2. IsDict(rest, Users, Entry)
    BY <2>1, LessIsDict
  <2> QED
    BY <2>2 DEF Without
<1>3. s = IF DOMAIN rest = {} THEN Without(t, {p[1]}) ELSE With(t, p[1], rest)
  BY DEF WithoutPair
<1> HIDE DEF rest
<1>4. /\ DOMAIN s \subseteq DOMAIN t
      /\ \A d \in DOMAIN s : d # p[1] => s[d] = t[d]
      /\ p[1] \in DOMAIN s => s[p[1]] = rest /\ DOMAIN rest # {}
  <2>1. CASE DOMAIN rest = {}
    BY <1>3, <2>1 DEF Without
  <2>2. CASE DOMAIN rest # {}
    BY <1>1, <1>3, <2>2 DEF With
  <2> QED
    BY <2>1, <2>2
<1>5. UsersOK(s)
  BY <1>2, <1>4 DEF UsersOK
<1>6. ASSUME NEW q \in Pairs(s) PROVE q \in Pairs(t) \ {p}
  <2>1. q = <<q[1], q[2]>> /\ q[1] \in DOMAIN s /\ q[2] \in DOMAIN s[q[1]]
    BY <1>6, PairsAre
  <2>2. CASE q[1] = p[1]
    <3>1. q[2] \in DOMAIN t[p[1]] /\ q[2] # p[2]
      BY <1>2, <1>4, <2>1, <2>2
    <3> QED
      BY <1>1, <2>1, <2>2, <3>1, PairsAre
  <2>3. CASE q[1] # p[1]
    <3>1. q[1] \in DOMAIN t /\ q[2] \in DOMAIN t[q[1]]
      BY <1>4, <2>1, <2>3
    <3> QED
      BY <2>1, <2>3, <3>1, PairsAre
  <2> QED
    BY <2>2, <2>3
<1> QED
  BY <1>5, <1>6

\* Recording a user's call keeps the pairs of all clients within the cap.
LEMMA UsersKeep ==
  ASSUME NEW t, UsersOK(t), CapOK(Pairs(t)), NEW c \in Clients, NEW u \in Users \cup {NoUser},
         NEW cost \in Nat, NEW s \in RecordUser(t, c, u, cost)
  PROVE  UsersOK(s) /\ CapOK(Pairs(s))
<1> DEFINE mine == GetOr(t, c, EmptyDict)
<1>0. IsFiniteSet(Pairs(t)) /\ Cardinality(Pairs(t)) \in Nat
  BY PairsFinite, FS_CardinalityType
<1>1. CASE u = NoUser
  BY <1>1 DEF RecordUser
<1>2. CASE u # NoUser /\ (u \in DOMAIN mine \/ Cap = 0 \/ Cardinality(Pairs(t)) < Cap)
  <2>1. s = With(t, c, Counted(mine, u, cost)) /\ u \in Users
    BY <1>2 DEF RecordUser
  <2>2. UsersOK(s) /\ Pairs(s) \subseteq Pairs(t) \cup {<<c, u>>}
    BY <2>1, WithUser
  <2>3. u \in DOMAIN mine => <<c, u>> \in Pairs(t)
    <3>1. u \in DOMAIN mine => c \in DOMAIN t /\ u \in DOMAIN t[c]
      BY DEF GetOr, EmptyDict
    <3> QED
      BY <3>1 DEF Pairs
  <2> HIDE DEF mine
  <2>4. CapOK(Pairs(t) \cup {<<c, u>>})
    BY <1>0, <1>2, <2>3, OneMore
  <2>5. IsFiniteSet(Pairs(t) \cup {<<c, u>>})
    BY <1>0, FS_AddElement
  <2> QED
    BY <2>2, <2>4, <2>5, FewerCap
<1>3. CASE u # NoUser /\ ~(u \in DOMAIN mine \/ Cap = 0 \/ Cardinality(Pairs(t)) < Cap)
  <2>1. PICK p \in ColdestPairs(t) :
          s = LET kept == WithoutPair(t, p)
              IN IF p[1] = c /\ c \notin DOMAIN kept THEN kept
                 ELSE With(kept, c, Counted(GetOr(kept, c, EmptyDict), u, cost))
    BY <1>3 DEF RecordUser
  <2> DEFINE kept == WithoutPair(t, p)
             room == Pairs(t) \ {p}
  <2>2. p \in Pairs(t) /\ u \in Users
    BY <1>3 DEF ColdestPairs
  <2>3. UsersOK(kept) /\ Pairs(kept) \subseteq room
    BY <2>2, WithoutUser
  <2>4. s = kept \/ s = With(kept, c, Counted(GetOr(kept, c, EmptyDict), u, cost))
    BY <2>1
  <2>5. IsFiniteSet(room) /\ (Cap # 0 => Cardinality(room) < Cap)
    BY <1>0, <2>2, OneLess
  <2> HIDE DEF kept, room
  <2>6. CapOK(room \cup {<<c, u>>}) /\ IsFiniteSet(room \cup {<<c, u>>})
    BY <2>5, OneMore, FS_AddElement
  <2>7. CASE s = kept
    BY <2>3, <2>6, <2>7, FewerCap
  <2>8. CASE s = With(kept, c, Counted(GetOr(kept, c, EmptyDict), u, cost))
    <3>1. UsersOK(s) /\ Pairs(s) \subseteq Pairs(kept) \cup {<<c, u>>}
      BY <2>2, <2>3, <2>8, WithUser
    <3> QED
      BY <2>3, <2>6, <3>1, FewerCap
  <2> QED
    BY <2>4, <2>7, <2>8
<1> QED
  BY <1>1, <1>2, <1>3

-----------------------------------------------------------------------------

\* The tables of lifetime usage and of users, and the snapshot of both.
TablesInv ==
  /\ Owed(usage, total) /\ CapOK(DOMAIN usage)
  /\ UsersOK(users) /\ CapOK(Pairs(users))
  /\ CapOK(DOMAIN window) /\ CapOK(DOMAIN tokens)
  /\ Owed(saved.usage, total) /\ UsersOK(saved.users)

\* What of a snapshot is kept fits, and is as it was.
LEMMA BusiestFit ==
  ASSUME NEW counts, IsFiniteSet(DOMAIN counts), NEW K \in Busiest(counts)
  PROVE  K \subseteq DOMAIN counts /\ CapOK(K) /\ IsFiniteSet(K)
<1>1. K \subseteq DOMAIN counts /\ IsFiniteSet(K)
  BY FS_Subset DEF Busiest
<1>2. Cardinality(K) \in Nat
  BY <1>1, FS_CardinalityType
<1> QED
  BY <1>1, <1>2, UsageAssumption DEF Busiest, CapOK

LEMMA SeedKeeps ==
  ASSUME NEW s, NEW v, Owed(s.usage, v), UsersOK(s.users), NEW b \in Seed(s)
  PROVE  /\ Owed(b.usage, v) /\ CapOK(DOMAIN b.usage)
         /\ UsersOK(b.users) /\ CapOK(Pairs(b.users))
<1> DEFINE old == s.usage
           was == s.users
<1>0. PICK K \in Busiest(Busy(old)), P \in Busiest(BusyPairs(was)) : b = Kept(s, K, P)
  BY DEF Seed
<1>1. b = [usage |-> Without(old, DOMAIN old \ K),
           users |-> [c \in {p[1] : p \in P} |->
                        [u \in {p[2] : p \in {q \in P : q[1] = c}} |-> was[c][u]]]]
  BY <1>0 DEF Kept
<1>2. IsFiniteSet(DOMAIN old) /\ IsFiniteSet(Pairs(was))
  BY PairsFinite, FS_Subset, UsageAssumption DEF Owed, IsDict
<1>3. K \subseteq DOMAIN old /\ CapOK(K) /\ P \subseteq Pairs(was) /\ CapOK(P) /\ IsFiniteSet(P)
  <2>1. DOMAIN Busy(old) = DOMAIN old /\ DOMAIN BusyPairs(was) = Pairs(was)
    BY DEF Busy, BusyPairs
  <2> QED
    BY <1>0, <1>2, <2>1, BusiestFit
<1>4. Owed(b.usage, v) /\ CapOK(DOMAIN b.usage)
  <2>1. b.usage = Without(old, DOMAIN old \ K)
    BY <1>1
  <2>2. DOMAIN b.usage = K
    BY <1>3, <2>1 DEF Without
  <2>3. Owed(b.usage, v)
    BY <2>1, LessIsOwed
  <2> QED
    BY <1>3, <2>2, <2>3
<1>5. b.users = [c \in {p[1] : p \in P} |->
                   [u \in {p[2] : p \in {q \in P : q[1] = c}} |-> was[c][u]]]
  BY <1>1
<1>6. \A p \in P : p = <<p[1], p[2]>> /\ p[1] \in DOMAIN was /\ p[2] \in DOMAIN was[p[1]]
  BY <1>3, PairsAre
<1>7. UsersOK(b.users)
  <2> SUFFICES ASSUME NEW c \in DOMAIN b.users
               PROVE  c \in Clients /\ IsDict(b.users[c], Users, Entry) /\ DOMAIN b.users[c] # {}
    BY DEF UsersOK
  <2>1. PICK p \in P : p[1] = c
    BY <1>5
  <2>2. c \in DOMAIN was /\ c \in Clients /\ IsDict(was[c], Users, Entry)
    BY <1>6, <2>1 DEF UsersOK
  <2> DEFINE D == {q[2] : q \in {q \in P : q[1] = c}}
  <2>3. D \subseteq DOMAIN was[c] /\ p[2] \in D
    BY <1>6, <2>1
  <2>4. b.users[c] = [u \in D |-> was[c][u]]
    BY <1>5
  <2> HIDE DEF D
  <2> QED
    BY <2>2, <2>3, <2>4 DEF IsDict
<1>8. Pairs(b.users) \subseteq P
  <2> SUFFICES ASSUME NEW q \in Pairs(b.users) PROVE q \in P
    OBVIOUS
  <2>1. q = <<q[1], q[2]>> /\ q[1] \in DOMAIN b.users /\ q[2] \in DOMAIN b.users[q[1]]
    BY PairsAre
  <2>2. PICK p \in P : p[1] = q[1] /\ p[2] = q[2]
    BY <1>5, <2>1
  <2> QED
    BY <1>6, <2>1, <2>2
<1>9. CapOK(Pairs(b.users))
  BY <1>3, <1>8, FewerCap
<1> QED
  BY <1>4, <1>7, <1>9

LEMMA NothingSaved ==
  ASSUME NEW v
  PROVE  /\ Owed(EmptyDict, v) /\ CapOK(DOMAIN EmptyDict)
         /\ UsersOK(EmptyDict) /\ CapOK(Pairs(EmptyDict))
<1>1. DOMAIN EmptyDict = {} /\ Pairs(EmptyDict) = {}
  BY DEF EmptyDict, Pairs
<1>2. CapOK({})
  BY FS_EmptySet, UsageAssumption DEF CapOK
<1> QED
  BY <1>1, <1>2 DEF Owed, UsersOK, IsDict, EmptyDict

LEMMA TablesStep == ClockOK /\ WindowsInv /\ TablesInv /\ [Next]_usageVars => TablesInv'
<1> SUFFICES ASSUME ClockOK, WindowsInv, TablesInv, [Next]_usageVars PROVE TablesInv'
  OBVIOUS
<1>1. ASSUME NEW c \in Clients, NEW u \in Users \cup {NoUser}, NEW cost \in 0..MaxCost,
             Account(c, u, cost)
      PROVE  TablesInv'
  <2>1. /\ cost \in Nat /\ usage' \in RecordUsage(usage, c, cost)
        /\ users' \in RecordUser(users, c, u, cost)
        /\ window' \in RecordWindow(window, c, cost) /\ tokens' \in RecordWindow(tokens, c, 1)
        /\ total' = [total EXCEPT ![c] = @ + cost] /\ saved' = saved
    BY <1>1, UsageAssumption DEF Account
  <2>2. total \in [Clients -> Nat]
    BY DEF ClockOK
  <2>3. Owed(usage', [total EXCEPT ![c] = @ + cost]) /\ CapOK(DOMAIN usage')
    BY <2>1, <2>2, UsageKeeps DEF TablesInv
  <2>4. UsersOK(users') /\ CapOK(Pairs(users'))
    BY <2>1, UsersKeep DEF TablesInv
  <2>5. Shape(window, now) /\ Shape(tokens, now)
    BY DEF WindowsInv, WindowInv
  <2>6. CapOK(DOMAIN window') /\ CapOK(DOMAIN tokens')
    BY <2>1, <2>5, WindowKeepsCap DEF TablesInv
  <2>7. Owed(saved.usage, total')
    <3>1. \A d \in Clients : total[d] <= total'[d] /\ total[d] \in Nat /\ total'[d] \in Nat
      BY <2>1, <2>2
    <3> QED
      BY <3>1 DEF TablesInv, Owed, IsDict, Entry
  <2> QED
    BY <2>1, <2>3, <2>4, <2>6, <2>7 DEF TablesInv
<1>2. CASE Tick
  BY <1>2 DEF Tick, tables, TablesInv
<1>3. CASE Flush
  <2>1. saved'.usage = usage /\ saved'.users = users /\ UNCHANGED <<tables, total>>
    BY <1>3 DEF Flush, truth
  <2> QED
    BY <2>1 DEF TablesInv, tables
<1>4. CASE Restart
  <2>1. PICK b \in Seed(saved) \cup {NoSnapshot} : usage' = b.usage /\ users' = b.users
    BY <1>4 DEF Restart
  <2>2. /\ Owed(b.usage, total) /\ CapOK(DOMAIN b.usage)
        /\ UsersOK(b.users) /\ CapOK(Pairs(b.users))
    <3>1. CASE b \in Seed(saved)
      BY <3>1, SeedKeeps DEF TablesInv
    <3>2. CASE b = NoSnapshot
      BY <3>2, NothingSaved DEF NoSnapshot
    <3> QED
      BY <3>1, <3>2
  <2>3. window' = EmptyDict /\ tokens' = EmptyDict /\ saved' = saved /\ total' = total
    BY <1>4 DEF Restart
  <2>4. CapOK(DOMAIN window') /\ CapOK(DOMAIN tokens')
    BY <2>3, NothingSaved
  <2> QED
    BY <2>1, <2>2, <2>3, <2>4 DEF TablesInv
<1>5. CASE UNCHANGED usageVars
  BY <1>5 DEF usageVars, tables, truth, TablesInv
<1> QED
  BY <1>1, <1>2, <1>3, <1>4, <1>5 DEF Next

LEMMA Initially == Init => ClockOK /\ WindowsInv /\ TablesInv
<1> SUFFICES ASSUME Init PROVE ClockOK /\ WindowsInv /\ TablesInv
  OBVIOUS
<1>1. Owed(saved.usage, total) /\ total \in [Clients -> Nat] /\ UsersOK(saved.users)
  <2>1. CASE saved = NoSnapshot
    <3>1. saved.usage = EmptyDict /\ saved.users = EmptyDict
      BY <2>1 DEF NoSnapshot
    <3>2. total \in [Clients -> Nat]
      BY <3>1 DEF Init, GetOr, EmptyDict, Zero
    <3> QED
      BY <3>1, <3>2, NothingSaved
  <2>2. ASSUME NEW u \in Users, saved = Legacy(u)
        PROVE  Owed(saved.usage, total) /\ total \in [Clients -> Nat] /\ UsersOK(saved.users)
    <3>1. /\ saved.usage = [c \in Clients |-> [requests |-> 1, cost |-> 1]]
          /\ saved.users = [c \in Clients |-> [v \in {u} |-> [requests |-> 1, cost |-> 1]]]
      BY <2>2 DEF Legacy
    <3>2. total = [c \in Clients |-> 1]
      BY <3>1 DEF Init, GetOr
    <3>3. [requests |-> 1, cost |-> 1] \in Entry
      BY DEF Entry
    <3>4. Owed(saved.usage, total)
      BY <3>1, <3>2, <3>3 DEF Owed, IsDict
    <3>5. UsersOK(saved.users)
      BY <3>1, <3>3 DEF UsersOK, IsDict
    <3> QED
      BY <3>2, <3>4, <3>5
  <2> QED
    BY <2>1, <2>2 DEF Init
<1>2. ClockOK
  <2>1. now \in 0..MaxWindow /\ calls \in 0..MaxCalls
    BY UsageAssumption DEF Init
  <2>3. lost \in BOOLEAN
    BY DEF Init
  <2>2. spent \in [Clients -> [cost : Nat, tokens : Nat]]
    BY DEF Init
  <2> QED
    BY <1>1, <2>1, <2>2, <2>3 DEF ClockOK
<1>3. WindowsInv
  <2>1. window = EmptyDict /\ tokens = EmptyDict /\ now = 0
    BY DEF Init
  <2>2. /\ CostsOf(spent) \in [Clients -> Nat] /\ TokensUsed(spent) \in [Clients -> Nat]
        /\ \A c \in Clients : CostsOf(spent)[c] = 0 /\ TokensUsed(spent)[c] = 0
    BY DEF Init, CostsOf, TokensUsed
  <2> QED
    BY <2>1, <2>2, EmptyShape, NothingHeld DEF WindowsInv
<1>4. TablesInv
  BY <1>1, NothingSaved DEF Init, TablesInv
<1> QED
  BY <1>2, <1>3, <1>4

UsageInv == ClockOK /\ WindowsInv /\ TablesInv

LEMMA UsageInductive == Spec => []UsageInv
<1>1. Init => UsageInv
  BY Initially DEF UsageInv
<1>2. UsageInv /\ [Next]_usageVars => UsageInv'
  BY ClockStep, WindowsStep, TablesStep DEF UsageInv
<1> QED
  BY <1>1, <1>2, PTL DEF Spec

LEMMA UsageTyped == UsageInv => UsageOK
<1> SUFFICES ASSUME UsageInv PROVE UsageOK
  OBVIOUS
<1>1. IsDict(usage, Clients, Entry)
  BY DEF UsageInv, TablesInv, Owed
<1>2. ASSUME NEW t, Shape(t, now) PROVE IsDict(t, Clients, WindowEntry)
  BY <1>2 DEF Shape, IsDict, WindowEntry
<1>3. IsDict(window, Clients, WindowEntry) /\ IsDict(tokens, Clients, WindowEntry)
  BY <1>2 DEF UsageInv, WindowsInv, WindowInv
<1> QED
  BY <1>1, <1>3 DEF UsageInv, ClockOK, TablesInv, UsersOK, UsageOK

\* The tables have their types, and a client is in the table of users only with a user.
THEOREM UsageTypeCorrect == Spec => []UsageOK
BY UsageTyped, UsageInductive, PTL

\* No table outgrows max_tracked_clients, whatever the snapshot read back was.
THEOREM TablesStayBounded == Spec => []TablesBounded
<1>1. UsageInv => TablesBounded
  BY DEF UsageInv, TablesInv, CapOK, TablesBounded
<1> QED
  BY <1>1, UsageInductive, PTL

LEMMA UsageTruthful == UsageInv => WindowsTruthful
<1> SUFFICES ASSUME UsageInv, ~lost PROVE WindowsTruthful
  BY DEF WindowsTruthful
<1>1. \A c \in Clients : CostsOf(spent)[c] = spent[c].cost /\ TokensUsed(spent)[c] = spent[c].tokens
  BY DEF CostsOf, TokensUsed
<1>2. Users0(CostsOf(spent)) = Spenders /\ Users0(TokensUsed(spent)) = Callers
  BY <1>1 DEF Users0, Spenders, Callers
<1> QED
  BY <1>1, <1>2, UseIsNow DEF UsageInv, WindowsInv, WindowInv, Exact, WindowsTruthful

\* As long as the spenders of a window fit the table, its count of each is exact.
THEOREM WindowsStayTruthful == Spec => []WindowsTruthful
BY UsageTruthful, UsageInductive, PTL

LEMMA UsageHonest == UsageInv => NothingInvented
<1> SUFFICES ASSUME UsageInv, NEW c \in Clients
             PROVE  /\ GetOr(usage, c, Zero).cost <= total[c]
                    /\ GetOr(saved.usage, c, Zero).cost <= total[c]
                    /\ WindowUse(window, c) <= spent[c].cost
                    /\ WindowUse(tokens, c) <= spent[c].tokens
  BY DEF NothingInvented
<1>1. total[c] \in Nat /\ spent[c].cost \in Nat /\ spent[c].tokens \in Nat
  BY DEF UsageInv, ClockOK
<1>2. CostsOf(spent)[c] = spent[c].cost /\ TokensUsed(spent)[c] = spent[c].tokens
  BY DEF CostsOf, TokensUsed
<1>3. WindowUse(window, c) <= spent[c].cost /\ WindowUse(tokens, c) <= spent[c].tokens
  BY <1>1, <1>2 DEF UsageInv, WindowsInv, WindowInv, Honest, WindowUse
<1>4. GetOr(usage, c, Zero).cost <= total[c] /\ GetOr(saved.usage, c, Zero).cost <= total[c]
  BY <1>1 DEF UsageInv, TablesInv, Owed, GetOr, Zero
<1> QED
  BY <1>3, <1>4

\* Whatever is evicted, lost or read back, no table counts what was not spent.
THEOREM NothingIsInvented == Spec => []NothingInvented
BY UsageHonest, UsageInductive, PTL


-----------------------------------------------------------------------------
(* Gate *)

Slots == {r \in Requests : pc[r] \in InSlot}

SlotsInv ==
  /\ windowed \in BOOLEAN /\ abandoned \in BOOLEAN
  /\ pc \in [Requests -> Steps] /\ client \in [Requests -> Clients]
  /\ inFlight = Cardinality(Slots)
  /\ MaxConcurrent # 0 => inFlight <= MaxConcurrent
  /\ ~abandoned => \A r \in Requests : pc[r] # "closing"

\* A step that moves one request, or none.
LEMMA SlotsMove ==
  ASSUME SlotsInv, NEW r \in Requests, NEW l \in Steps, Goto(r, l),
         l = "closing" => abandoned,
         UNCHANGED <<config, client>>,
         \/ r \notin Slots /\ l \in InSlot /\ HasSlot /\ inFlight' = inFlight + 1
         \/ r \in Slots /\ l \notin InSlot /\ inFlight' = inFlight - 1
         \/ (r \in Slots <=> l \in InSlot) /\ inFlight' = inFlight
  PROVE  SlotsInv'
<1> USE GateAssumption
<1>1. pc' = [pc EXCEPT ![r] = l] /\ pc' \in [Requests -> Steps]
  BY DEF Goto, SlotsInv
<1>2. IsFiniteSet(Slots) /\ Cardinality(Slots) \in Nat
  BY FS_Subset, FS_CardinalityType DEF Slots
<1>3. Slots' = IF l \in InSlot THEN Slots \cup {r} ELSE Slots \ {r}
  BY <1>1 DEF Slots, SlotsInv
<1>4. /\ Cardinality(Slots \cup {r}) = IF r \in Slots THEN Cardinality(Slots) ELSE Cardinality(Slots) + 1
      /\ Cardinality(Slots \ {r}) = IF r \in Slots THEN Cardinality(Slots) - 1 ELSE Cardinality(Slots)
  BY <1>2, FS_AddElement, FS_RemoveElement
<1>5. inFlight = Cardinality(Slots) /\ (MaxConcurrent # 0 => inFlight <= MaxConcurrent)
  BY DEF SlotsInv
<1>6. inFlight' = Cardinality(Slots') /\ (MaxConcurrent # 0 => inFlight' <= MaxConcurrent)
  BY <1>2, <1>3, <1>4, <1>5 DEF HasSlot
<1>7. ~abandoned' => \A q \in Requests : pc'[q] # "closing"
  BY <1>1 DEF SlotsInv, config
<1> QED
  BY <1>1, <1>6, <1>7 DEF SlotsInv, config

LEMMA SlotsStep == SlotsInv /\ [GateNext]_gateVars => SlotsInv'
<1> SUFFICES ASSUME SlotsInv, [GateNext]_gateVars PROVE SlotsInv'
  OBVIOUS
<1>1. ASSUME NEW r \in Requests, Enter(r) PROVE SlotsInv'
  <2>1. r \notin Slots /\ "auth" \in Steps \cap InSlot /\ "done" \in Steps \ InSlot
    BY <1>1 DEF Enter, Slots, InSlot, Steps
  <2>2. CASE HasSlot
    BY <1>1, <2>1, <2>2, SlotsMove DEF Enter
  <2>3. CASE ~HasSlot
    BY <1>1, <2>1, <2>3, SlotsMove DEF Enter
  <2> QED
    BY <2>2, <2>3
<1>2. ASSUME NEW r \in Requests, CheckBudget(r) \/ CheckTokens(r) \/ Limit(r) \/ Serve(r) \/ Fail(r)
      PROVE  SlotsInv'
  <2>1. PICK l \in {"credit", "limiter", "running", "sending"} : Goto(r, l)
    BY <1>2 DEF CheckBudget, CheckTokens, Limit, Serve, Fail, Deny
  <2>2. r \in Slots /\ UNCHANGED <<config, client, inFlight>>
    BY <1>2 DEF CheckBudget, CheckTokens, Limit, Serve, Fail, Slots, InSlot
  <2>3. l \in Steps /\ l \in InSlot /\ l # "closing"
    BY DEF Steps, InSlot
  <2> QED
    BY <2>1, <2>2, <2>3, SlotsMove
<1>3. ASSUME NEW r \in Requests, Leave(r) \/ Abandon(r) PROVE SlotsInv'
  <2>1. PICK l \in {"done", "closing"} : Goto(r, l) /\ (l = "closing" => abandoned)
    BY <1>3 DEF Leave, Abandon
  <2>2. r \in Slots /\ inFlight' = inFlight - 1 /\ UNCHANGED <<config, client>>
    BY <1>3 DEF Leave, Abandon, Slots, InSlot
  <2>3. l \in Steps /\ l \notin InSlot
    BY DEF Steps, InSlot
  <2> QED
    BY <2>1, <2>2, <2>3, SlotsMove
<1>4. ASSUME NEW r \in Requests, CloseStream(r) PROVE SlotsInv'
  <2>1. r \notin Slots /\ "done" \in Steps /\ "done" \notin InSlot
    BY <1>4 DEF CloseStream, Slots, InSlot, Steps
  <2>2. Goto(r, "done") /\ UNCHANGED <<config, client, inFlight>>
    BY <1>4 DEF CloseStream
  <2> QED
    BY <2>1, <2>2, SlotsMove
<1>5. CASE RestartWorker
  <2>1. /\ pc' = [r \in Requests |-> IF pc[r] = "new" THEN "new" ELSE "done"]
        /\ inFlight' = 0 /\ UNCHANGED <<config, client>>
    BY <1>5 DEF RestartWorker
  <2>2. Slots' = {} /\ pc' \in [Requests -> Steps] /\ \A q \in Requests : pc'[q] # "closing"
    BY <2>1 DEF Slots, InSlot, Steps
  <2> QED
    BY <2>1, <2>2, FS_EmptySet, GateAssumption DEF SlotsInv, config
<1>6. CASE Background \/ UNCHANGED gateVars
  BY <1>6 DEF Background, gateVars, config, SlotsInv, Slots
<1> QED
  BY <1>1, <1>2, <1>3, <1>4, <1>5, <1>6 DEF GateNext

LEMMA SlotsInvariant == GateSpec => []SlotsInv
<1>1. GateInit => SlotsInv
  <2> SUFFICES ASSUME GateInit PROVE SlotsInv
    OBVIOUS
  <2>1. Slots = {} /\ pc \in [Requests -> Steps]
    BY DEF GateInit, Slots, InSlot, Steps
  <2> QED
    BY <2>1, FS_EmptySet, GateAssumption DEF GateInit, SlotsInv
<1> QED
  BY <1>1, SlotsStep, PTL DEF GateSpec

\* What a step of Gate does to the tables is a step of Usage.
LEMMA StepIsUsage == SlotsInv /\ [GateNext]_gateVars => [Next]_usageVars
<1> SUFFICES ASSUME SlotsInv, [GateNext]_gateVars PROVE [Next]_usageVars
  OBVIOUS
<1>1. ASSUME NEW r \in Requests,
             \/ Enter(r) \/ CheckBudget(r) \/ CheckTokens(r) \/ Limit(r) \/ Fail(r)
             \/ Leave(r) \/ Abandon(r)
      PROVE  UNCHANGED usageVars
  BY <1>1 DEF Enter, CheckBudget, CheckTokens, Limit, Fail, Leave, Abandon
<1>2. ASSUME NEW r \in Requests, Serve(r) \/ CloseStream(r) PROVE Next
  <2>1. PICK cost \in 0..MaxCost : Account(client[r], NoUser, cost)
    BY <1>2 DEF Serve, CloseStream
  <2>2. client[r] \in Clients
    BY DEF SlotsInv
  <2> QED
    BY <2>1, <2>2 DEF Next
<1>3. Background \/ RestartWorker => Next
  BY DEF Background, RestartWorker, Next
<1>4. UNCHANGED gateVars => UNCHANGED usageVars
  BY DEF gateVars
<1> QED
  BY <1>1, <1>2, <1>3, <1>4 DEF GateNext

LEMMA UsageHolds == GateSpec => []UsageInv
<1>1. GateInit => UsageInv
  BY Initially DEF GateInit, UsageInv
<1>2. SlotsInv /\ UsageInv /\ [GateNext]_gateVars => UsageInv'
  BY StepIsUsage, ClockStep, WindowsStep, TablesStep DEF UsageInv
<1> QED
  BY <1>1, <1>2, SlotsInvariant, PTL DEF GateSpec

\* Types hold, and the counter of requests in flight is the number of slots held.
THEOREM GateTypeCorrect == GateSpec => []TypeOK
<1>1. UsageInv /\ SlotsInv => TypeOK
  BY UsageTyped DEF SlotsInv, Slots, TypeOK
<1> QED
  BY <1>1, SlotsInvariant, UsageHolds, PTL

-----------------------------------------------------------------------------

\* The requests of c that have passed the check of the budget, or of the token cap,
\* and have not been accounted for.
Cleared(c) == {r \in Requests : client[r] = c /\ pc[r] \in {"credit", "limiter", "running"}}
Counting(c) == {r \in Requests : client[r] = c /\ pc[r] \in {"limiter", "running"}}

Bounding == windowed /\ ~lost /\ ~abandoned /\ MaxConcurrent # 0

\* What is spent and what the cleared requests may still spend.
CostInv ==
  Bounding /\ Fits(Spenders) /\ Budget > 0 =>
    \A c \in Clients :
      spent[c].cost + Cardinality(Cleared(c)) * MaxCost < Budget + MaxConcurrent * MaxCost
TokenInv ==
  Bounding /\ Fits(Callers) /\ TokenLimit > 0 =>
    \A c \in Clients :
      spent[c].tokens + Cardinality(Counting(c)) < TokenLimit + MaxConcurrent

LEMMA Products ==
  ASSUME NEW k \in Nat, NEW n \in Nat, NEW m \in Nat, k <= n
  PROVE  /\ k * m \in Nat /\ n * m \in Nat /\ k * m <= n * m
         /\ (k + 1) * m = k * m + m
<1>1. \A a, b \in Nat : a * b \in Nat
  OBVIOUS
<1>2. (n - k) * m \in Nat /\ (n - k) * m = n * m - k * m
  BY <1>1
<1> QED
  BY <1>1, <1>2

\* Those who hold a slot are not more than the slots.
LEMMA InSlots ==
  ASSUME NEW L, L \subseteq Requests, Cardinality(L) <= MaxConcurrent, NEW S, S \subseteq L
  PROVE  IsFiniteSet(S) /\ Cardinality(S) \in Nat /\ Cardinality(S) <= MaxConcurrent
<1>1. IsFiniteSet(L)
  BY FS_Subset, GateAssumption
<1>2. IsFiniteSet(S) /\ Cardinality(S) <= Cardinality(L) /\ Cardinality(S) \in Nat
      /\ Cardinality(L) \in Nat
  BY <1>1, FS_Subset, FS_CardinalityType
<1> QED
  BY <1>2, GateAssumption

LEMMA ClearedInSlots == ASSUME NEW c PROVE Cleared(c) \subseteq Slots /\ Counting(c) \subseteq Slots
BY DEF Cleared, Counting, Slots, InSlot

\* With nothing spent, or nobody new cleared, the bound stays.
LEMMA FewerCleared ==
  ASSUME NEW m \in Nat, NEW b \in Nat, NEW s \in Nat, NEW S, NEW T, S \subseteq T,
         IsFiniteSet(T), Cardinality(T) <= MaxConcurrent,
         s + Cardinality(T) * m < b + MaxConcurrent * m
  PROVE  s + Cardinality(S) * m < b + MaxConcurrent * m
<1>1. Cardinality(S) \in Nat /\ Cardinality(T) \in Nat /\ Cardinality(S) <= Cardinality(T)
  BY FS_Subset, FS_CardinalityType
<1>2. Cardinality(S) * m <= Cardinality(T) * m /\ Cardinality(S) * m \in Nat
      /\ Cardinality(T) * m \in Nat
  BY <1>1, Products
<1>3. MaxConcurrent * m \in Nat
  BY Products, GateAssumption
<1> QED
  BY <1>2, <1>3

LEMMA UnderBudget ==
  ASSUME NEW m \in Nat, NEW b \in Nat, NEW s \in Nat, s < b, NEW k \in Nat, k <= MaxConcurrent
  PROVE  s + k * m < b + MaxConcurrent * m
<1>1. k * m <= MaxConcurrent * m /\ k * m \in Nat /\ MaxConcurrent * m \in Nat
  BY Products, GateAssumption
<1> QED
  BY <1>1

\* Until the window ends, spenders only grow in number.
LEMMA SpendersGrow ==
  ASSUME ClockOK, NEW c \in Clients, NEW u, NEW cost \in Nat, Account(c, u, cost)
  PROVE  /\ Spenders \subseteq Spenders' /\ Callers \subseteq Callers'
         /\ IsFiniteSet(Spenders') /\ IsFiniteSet(Callers')
         /\ spent'[c].cost = spent[c].cost + cost /\ spent'[c].tokens = spent[c].tokens + 1
         /\ \A d \in Clients : d # c => spent'[d] = spent[d]
<1>1. /\ spent'[c].cost = spent[c].cost + cost /\ spent'[c].tokens = spent[c].tokens + 1
      /\ \A d \in Clients : d # c => spent'[d] = spent[d]
  BY DEF Account, ClockOK
<1>2. \A d \in Clients : spent[d].cost \in Nat /\ spent[d].tokens \in Nat
  BY DEF ClockOK
<1>3. Spenders \subseteq Spenders' /\ Callers \subseteq Callers'
  BY <1>1, <1>2 DEF Spenders, Callers
<1>4. Spenders' \subseteq Clients /\ Callers' \subseteq Clients
  BY DEF Spenders, Callers
<1>5. IsFiniteSet(Spenders') /\ IsFiniteSet(Callers')
  BY <1>4, FS_Subset, UsageAssumption
<1> QED
  BY <1>1, <1>3, <1>5

-----------------------------------------------------------------------------
(* What a step does to who is cleared and to what is spent *)

NobodyCleared == \A c \in Clients : Cleared(c)' \subseteq Cleared(c)
NobodyCounted == \A c \in Clients : Counting(c)' \subseteq Counting(c)
Quiet == UNCHANGED <<spent, lost, config>>

PassesBudget(r) ==
  /\ Quiet /\ SpentBy(client[r]) < Budget /\ NobodyCounted
  /\ \A c \in Clients : c # client[r] => Cleared(c)' \subseteq Cleared(c)
PassesTokens(r) ==
  /\ Quiet /\ TokensOf(client[r]) < TokenLimit /\ NobodyCleared
  /\ \A c \in Clients : c # client[r] => Counting(c)' \subseteq Counting(c)
Served(r, cost) ==
  /\ Account(client[r], NoUser, cost) /\ UNCHANGED <<config, client>> /\ NobodyCleared /\ NobodyCounted
  /\ ~abandoned => /\ r \in Cleared(client[r]) /\ r \notin Cleared(client[r])'
                   /\ r \in Counting(client[r]) /\ r \notin Counting(client[r])'
NewWindow ==
  /\ \A c \in Clients : spent'[c].cost = 0 /\ spent'[c].tokens = 0

LEMMA Moved ==
  ASSUME SlotsInv, NEW r \in Requests, NEW l, Goto(r, l), client' = client, NEW c
  PROVE  /\ Cleared(c)' \subseteq Cleared(c) \cup {q \in {r} : client[r] = c /\ l \in {"credit", "limiter", "running"}}
         /\ Counting(c)' \subseteq Counting(c) \cup {q \in {r} : client[r] = c /\ l \in {"limiter", "running"}}
         /\ l \notin {"credit", "limiter", "running"} => r \notin Cleared(c)' /\ r \notin Counting(c)'
BY DEF SlotsInv, Goto, Cleared, Counting

LEMMA StepKinds ==
  ASSUME SlotsInv, [GateNext]_gateVars
  PROVE  \/ Quiet /\ NobodyCleared /\ NobodyCounted
         \/ \E r \in Requests : PassesBudget(r) \/ PassesTokens(r)
         \/ \E r \in Requests, cost \in 0..MaxCost : Served(r, cost)
         \/ lost'
         \/ NewWindow
<1>1. ASSUME NEW r \in Requests, NEW l, Goto(r, l), client' = client,
             l \notin {"credit", "limiter", "running"}
      PROVE  NobodyCleared /\ NobodyCounted
  BY <1>1, Moved DEF NobodyCleared, NobodyCounted
<1>2. ASSUME NEW r \in Requests, Enter(r) \/ Leave(r) \/ Abandon(r) \/ Fail(r)
      PROVE  Quiet /\ NobodyCleared /\ NobodyCounted
  <2>1. PICK l \in {"auth", "done", "closing", "sending"} : Goto(r, l)
    BY <1>2 DEF Enter, Leave, Abandon, Fail, Deny
  <2>2. Quiet /\ client' = client
    BY <1>2 DEF Enter, Leave, Abandon, Fail, Quiet, usageVars, truth
  <2> QED
    BY <1>1, <2>1, <2>2
<1>3. ASSUME NEW r \in Requests, CheckBudget(r)
      PROVE  (Quiet /\ NobodyCleared /\ NobodyCounted) \/ PassesBudget(r)
  <2>1. Quiet /\ client' = client
    BY <1>3 DEF CheckBudget, Quiet, usageVars, truth
  <2>2. CASE Goto(r, "sending")
    BY <1>1, <2>1, <2>2
  <2>3. CASE Goto(r, "credit") /\ SpentBy(client[r]) < Budget
    BY <2>1, <2>3, Moved DEF PassesBudget, NobodyCounted
  <2> QED
    BY <1>3, <2>2, <2>3 DEF CheckBudget, Deny
<1>4. ASSUME NEW r \in Requests, CheckTokens(r)
      PROVE  (Quiet /\ NobodyCleared /\ NobodyCounted) \/ PassesTokens(r)
  <2>1. Quiet /\ client' = client /\ r \in Cleared(client[r])
    BY <1>4 DEF CheckTokens, Quiet, usageVars, truth, Cleared
  <2>2. CASE Goto(r, "sending")
    BY <1>1, <2>1, <2>2
  <2>3. CASE Goto(r, "limiter") /\ TokensOf(client[r]) < TokenLimit
    BY <2>1, <2>3, Moved DEF PassesTokens, NobodyCleared
  <2> QED
    BY <1>4, <2>2, <2>3 DEF CheckTokens, Deny
<1>5. ASSUME NEW r \in Requests, Limit(r)
      PROVE  Quiet /\ NobodyCleared /\ NobodyCounted
  <2>1. Quiet /\ client' = client /\ r \in Cleared(client[r]) /\ r \in Counting(client[r])
    BY <1>5 DEF Limit, Quiet, usageVars, truth, Cleared, Counting
  <2>2. CASE Goto(r, "sending")
    BY <1>1, <2>1, <2>2
  <2>3. CASE Goto(r, "running")
    BY <2>1, <2>3, Moved DEF NobodyCounted, NobodyCleared
  <2> QED
    BY <1>5, <2>2, <2>3 DEF Limit, Deny
<1>6. ASSUME NEW r \in Requests, Serve(r) \/ CloseStream(r)
      PROVE  \E cost \in 0..MaxCost : Served(r, cost)
  <2>1. PICK cost \in 0..MaxCost : Account(client[r], NoUser, cost)
    BY <1>6 DEF Serve, CloseStream
  <2>2. PICK l \in {"sending", "done"} : Goto(r, l)
    BY <1>6 DEF Serve, CloseStream, Deny
  <2>3. client' = client /\ UNCHANGED config
    BY <1>6 DEF Serve, CloseStream, config
  <2>4. ~abandoned => r \in Cleared(client[r]) /\ r \in Counting(client[r])
    BY <1>6 DEF Serve, CloseStream, SlotsInv, Cleared, Counting
  <2>5. r \notin Cleared(client[r])' /\ r \notin Counting(client[r])'
    BY <2>2, <2>3 DEF SlotsInv, Goto, Cleared, Counting
  <2> QED
    BY <1>1, <2>1, <2>2, <2>3, <2>4, <2>5 DEF Served
<1>7. CASE RestartWorker
  BY <1>7 DEF RestartWorker, Restart
<1>8. CASE Background
  <2>1. CASE Tick
    BY <2>1 DEF Tick, NewWindow
  <2>2. CASE Flush
    <3>1. Quiet /\ client' = client /\ pc' = pc
      BY <1>8, <2>2 DEF Background, Flush, truth, Quiet
    <3> QED
      BY <3>1 DEF NobodyCleared, NobodyCounted, Cleared, Counting
  <2> QED
    BY <1>8, <2>1, <2>2 DEF Background
<1>9. CASE UNCHANGED gateVars
  BY <1>9 DEF gateVars, usageVars, truth, Quiet, NobodyCleared, NobodyCounted, Cleared, Counting
<1> QED
  BY <1>2, <1>3, <1>4, <1>5, <1>6, <1>7, <1>8, <1>9 DEF GateNext

LEMMA NumbersOK ==
  ASSUME UsageInv, UsageInv', SlotsInv, SlotsInv', MaxConcurrent # 0, NEW c \in Clients
  PROVE  /\ MaxCost \in Nat /\ Budget \in Nat /\ TokenLimit \in Nat
         /\ spent[c].cost \in Nat /\ spent'[c].cost \in Nat
         /\ spent[c].tokens \in Nat /\ spent'[c].tokens \in Nat
         /\ IsFiniteSet(Cleared(c)) /\ IsFiniteSet(Counting(c))
         /\ Cardinality(Cleared(c)) \in Nat /\ Cardinality(Cleared(c)) <= MaxConcurrent
         /\ Cardinality(Counting(c)) \in Nat /\ Cardinality(Counting(c)) <= MaxConcurrent
         /\ Cardinality(Cleared(c)') \in Nat /\ Cardinality(Cleared(c)') <= MaxConcurrent
         /\ Cardinality(Counting(c)') \in Nat /\ Cardinality(Counting(c)') <= MaxConcurrent
<1>1. /\ Slots \subseteq Requests /\ Slots' \subseteq Requests
      /\ Cardinality(Slots) <= MaxConcurrent /\ Cardinality(Slots') <= MaxConcurrent
  BY DEF SlotsInv, Slots
<1>2. /\ Cleared(c) \subseteq Slots /\ Counting(c) \subseteq Slots
      /\ Cleared(c)' \subseteq Slots' /\ Counting(c)' \subseteq Slots'
  BY DEF Cleared, Counting, Slots, InSlot
<1>3. /\ IsFiniteSet(Cleared(c)) /\ IsFiniteSet(Counting(c))
      /\ Cardinality(Cleared(c)) \in Nat /\ Cardinality(Cleared(c)) <= MaxConcurrent
      /\ Cardinality(Counting(c)) \in Nat /\ Cardinality(Counting(c)) <= MaxConcurrent
  BY <1>1, <1>2, InSlots
<1>4. /\ Cardinality(Cleared(c)') \in Nat /\ Cardinality(Cleared(c)') <= MaxConcurrent
      /\ Cardinality(Counting(c)') \in Nat /\ Cardinality(Counting(c)') <= MaxConcurrent
  BY <1>1, <1>2, InSlots
<1>5. /\ spent[c].cost \in Nat /\ spent'[c].cost \in Nat
      /\ spent[c].tokens \in Nat /\ spent'[c].tokens \in Nat
  BY DEF UsageInv, ClockOK
<1> QED
  BY <1>3, <1>4, <1>5, UsageAssumption, GateAssumption

LEMMA CostStep ==
  ASSUME UsageInv, UsageInv', SlotsInv, SlotsInv', CostInv, [GateNext]_gateVars
  PROVE  CostInv'
<1> SUFFICES ASSUME Bounding', Fits(Spenders'), Budget > 0, NEW c \in Clients
             PROVE  spent'[c].cost + Cardinality(Cleared(c)') * MaxCost
                      < Budget + MaxConcurrent * MaxCost
  BY DEF CostInv
<1> DEFINE Before == /\ windowed /\ ~lost /\ ~abandoned
                     /\ spent[c].cost + Cardinality(Cleared(c)) * MaxCost
                          < Budget + MaxConcurrent * MaxCost
           k == Cardinality(Cleared(c)')
<1>0. MaxConcurrent # 0 /\ windowed' /\ ~lost' /\ ~abandoned'
  BY DEF Bounding
<1>1. /\ MaxCost \in Nat /\ Budget \in Nat
      /\ spent[c].cost \in Nat /\ spent'[c].cost \in Nat
      /\ IsFiniteSet(Cleared(c)) /\ Cardinality(Cleared(c)) \in Nat
      /\ Cardinality(Cleared(c)) <= MaxConcurrent
      /\ k \in Nat /\ k <= MaxConcurrent
  BY <1>0, NumbersOK
<1>2. ASSUME UNCHANGED <<lost, config>>, Spenders \subseteq Spenders' PROVE Before
  <2>1. IsFiniteSet(Spenders')
    BY FS_Subset, UsageAssumption DEF Spenders
  <2>2. Fits(Spenders)
    BY <1>2, <2>1, FewerFit
  <2>3. windowed /\ ~lost /\ ~abandoned
    BY <1>0, <1>2 DEF config
  <2> QED
    BY <1>0, <2>2, <2>3 DEF CostInv, Bounding
<1>3. ASSUME Quiet, Cleared(c)' \subseteq Cleared(c)
      PROVE  spent'[c].cost + k * MaxCost < Budget + MaxConcurrent * MaxCost
  <2>1. Before /\ spent'[c].cost = spent[c].cost
    BY <1>2, <1>3 DEF Quiet, Spenders
  <2> QED
    BY <1>1, <1>3, <2>1, FewerCleared
<1>4. ASSUME spent'[c].cost < Budget
      PROVE  spent'[c].cost + k * MaxCost < Budget + MaxConcurrent * MaxCost
  BY <1>1, <1>4, UnderBudget
<1>5. ASSUME NEW r \in Requests, PassesBudget(r)
      PROVE  spent'[c].cost + k * MaxCost < Budget + MaxConcurrent * MaxCost
  <2>1. CASE c = client[r]
    <3>1. Before /\ Fits(Spenders) /\ spent' = spent
      BY <1>2, <1>5 DEF PassesBudget, Quiet, Spenders
    <3>2. WindowUse(window, c) = spent[c].cost
      BY <3>1, UsageTruthful DEF WindowsTruthful
    <3> QED
      BY <1>4, <1>5, <2>1, <3>1, <3>2 DEF PassesBudget, SpentBy
  <2>2. CASE c # client[r]
    BY <1>3, <1>5, <2>2 DEF PassesBudget
  <2> QED
    BY <2>1, <2>2
<1>6. ASSUME NEW r \in Requests, NEW cost \in 0..MaxCost, Served(r, cost)
      PROVE  spent'[c].cost + k * MaxCost < Budget + MaxConcurrent * MaxCost
  <2>1. client[r] \in Clients /\ Account(client[r], NoUser, cost) /\ cost \in Nat /\ cost <= MaxCost
    BY <1>1, <1>6 DEF SlotsInv, Served
  <2>2. /\ Spenders \subseteq Spenders'
        /\ spent'[client[r]].cost = spent[client[r]].cost + cost
        /\ \A d \in Clients : d # client[r] => spent'[d] = spent[d]
    BY <2>1, SpendersGrow DEF UsageInv
  <2>3. Before
    BY <1>2, <1>6, <2>1, <2>2 DEF Served, Account
  <2>4. Cleared(c)' \subseteq Cleared(c)
    BY <1>6 DEF Served, NobodyCleared
  <2>5. CASE c # client[r]
    <3>1. spent'[c].cost = spent[c].cost
      BY <2>2, <2>5
    <3> QED
      BY <1>1, <2>3, <2>4, <3>1, FewerCleared
  <2>6. CASE c = client[r]
    <3>0. r \in Cleared(client[r]) /\ r \notin Cleared(client[r])'
      BY <1>6, <2>3 DEF Served
    <3>1. r \in Cleared(c) /\ Cleared(c)' \subseteq Cleared(c) \ {r}
      BY <1>6, <3>0, <2>4, <2>6 DEF Served, Cleared
    <3>2. /\ IsFiniteSet(Cleared(c) \ {r})
          /\ Cardinality(Cleared(c) \ {r}) = Cardinality(Cleared(c)) - 1
      BY <1>1, <3>1, FS_RemoveElement
    <3>3. k <= Cardinality(Cleared(c)) - 1
      BY <3>1, <3>2, FS_Subset
    <3>4. (k + 1) * MaxCost <= Cardinality(Cleared(c)) * MaxCost /\ (k + 1) * MaxCost = k * MaxCost + MaxCost
          /\ k * MaxCost \in Nat /\ Cardinality(Cleared(c)) * MaxCost \in Nat
          /\ MaxConcurrent * MaxCost \in Nat
      <4>1. k + 1 \in Nat /\ k + 1 <= Cardinality(Cleared(c)) /\ MaxConcurrent \in Nat
        BY <1>1, <3>3, GateAssumption
      <4> HIDE DEF k
      <4> QED
        BY <1>1, <4>1, Products
    <3> HIDE DEF k
    <3> QED
      BY <1>1, <2>1, <2>2, <2>3, <2>6, <3>4
  <2> QED
    BY <2>5, <2>6
<1>7. ASSUME NewWindow
      PROVE  spent'[c].cost + k * MaxCost < Budget + MaxConcurrent * MaxCost
  BY <1>1, <1>4, <1>7 DEF NewWindow
<1> QED
  BY <1>0, <1>3, <1>5, <1>6, <1>7, StepKinds DEF NobodyCleared, PassesTokens

LEMMA TokenStep ==
  ASSUME UsageInv, UsageInv', SlotsInv, SlotsInv', TokenInv, [GateNext]_gateVars
  PROVE  TokenInv'
<1> SUFFICES ASSUME Bounding', Fits(Callers'), TokenLimit > 0, NEW c \in Clients
             PROVE  spent'[c].tokens + Cardinality(Counting(c)') < TokenLimit + MaxConcurrent
  BY DEF TokenInv
<1> DEFINE Before == /\ windowed /\ ~lost /\ ~abandoned
                     /\ spent[c].tokens + Cardinality(Counting(c)) < TokenLimit + MaxConcurrent
           k == Cardinality(Counting(c)')
<1>0. MaxConcurrent # 0 /\ windowed' /\ ~lost' /\ ~abandoned'
  BY DEF Bounding
<1>1. /\ TokenLimit \in Nat /\ MaxConcurrent \in Nat
      /\ spent[c].tokens \in Nat /\ spent'[c].tokens \in Nat
      /\ IsFiniteSet(Counting(c)) /\ Cardinality(Counting(c)) \in Nat
      /\ k \in Nat /\ k <= MaxConcurrent
  BY <1>0, NumbersOK, GateAssumption
<1>2. ASSUME UNCHANGED <<lost, config>>, Callers \subseteq Callers' PROVE Before
  <2>1. IsFiniteSet(Callers')
    BY FS_Subset, UsageAssumption DEF Callers
  <2>2. Fits(Callers)
    BY <1>2, <2>1, FewerFit
  <2>3. windowed /\ ~lost /\ ~abandoned
    BY <1>0, <1>2 DEF config
  <2> QED
    BY <1>0, <2>2, <2>3 DEF TokenInv, Bounding
<1>3. ASSUME Quiet, Counting(c)' \subseteq Counting(c)
      PROVE  spent'[c].tokens + k < TokenLimit + MaxConcurrent
  <2>1. Before /\ spent'[c].tokens = spent[c].tokens
    BY <1>2, <1>3 DEF Quiet, Callers
  <2>2. k <= Cardinality(Counting(c))
    BY <1>1, <1>3, FS_Subset
  <2> HIDE DEF k
  <2> QED
    BY <1>1, <2>1, <2>2
<1>4. ASSUME spent'[c].tokens < TokenLimit
      PROVE  spent'[c].tokens + k < TokenLimit + MaxConcurrent
  <2> HIDE DEF k
  <2> QED
    BY <1>1, <1>4
<1>5. ASSUME NEW r \in Requests, PassesTokens(r)
      PROVE  spent'[c].tokens + k < TokenLimit + MaxConcurrent
  <2>1. CASE c = client[r]
    <3>1. Before /\ Fits(Callers) /\ spent' = spent
      BY <1>2, <1>5 DEF PassesTokens, Quiet, Callers
    <3>2. WindowUse(tokens, c) = spent[c].tokens
      BY <3>1, UsageTruthful DEF WindowsTruthful
    <3> QED
      BY <1>4, <1>5, <2>1, <3>1, <3>2 DEF PassesTokens, TokensOf
  <2>2. CASE c # client[r]
    BY <1>3, <1>5, <2>2 DEF PassesTokens
  <2> QED
    BY <2>1, <2>2
<1>6. ASSUME NEW r \in Requests, NEW cost \in 0..MaxCost, Served(r, cost)
      PROVE  spent'[c].tokens + k < TokenLimit + MaxConcurrent
  <2>1. client[r] \in Clients /\ Account(client[r], NoUser, cost) /\ cost \in Nat
    BY <1>6, UsageAssumption DEF SlotsInv, Served
  <2>2. /\ Callers \subseteq Callers'
        /\ spent'[client[r]].tokens = spent[client[r]].tokens + 1
        /\ \A d \in Clients : d # client[r] => spent'[d] = spent[d]
    BY <2>1, SpendersGrow DEF UsageInv
  <2>3. Before
    BY <1>2, <1>6, <2>1, <2>2 DEF Served, Account
  <2>4. Counting(c)' \subseteq Counting(c)
    BY <1>6 DEF Served, NobodyCounted
  <2>5. CASE c # client[r]
    <3>1. spent'[c].tokens = spent[c].tokens
      BY <2>2, <2>5
    <3>2. k <= Cardinality(Counting(c))
      BY <1>1, <2>4, FS_Subset
    <3> HIDE DEF k
    <3> QED
      BY <1>1, <2>3, <3>1, <3>2
  <2>6. CASE c = client[r]
    <3>0. r \in Counting(client[r]) /\ r \notin Counting(client[r])'
      BY <1>6, <2>3 DEF Served
    <3>1. r \in Counting(c) /\ Counting(c)' \subseteq Counting(c) \ {r}
      BY <1>6, <3>0, <2>4, <2>6 DEF Served, Counting
    <3>2. /\ IsFiniteSet(Counting(c) \ {r})
          /\ Cardinality(Counting(c) \ {r}) = Cardinality(Counting(c)) - 1
      BY <1>1, <3>1, FS_RemoveElement
    <3>3. k <= Cardinality(Counting(c)) - 1
      BY <3>1, <3>2, FS_Subset
    <3> HIDE DEF k
    <3> QED
      BY <1>1, <2>2, <2>3, <2>6, <3>3
  <2> QED
    BY <2>5, <2>6
<1>7. ASSUME NewWindow
      PROVE  spent'[c].tokens + k < TokenLimit + MaxConcurrent
  BY <1>1, <1>4, <1>7 DEF NewWindow
<1> QED
  BY <1>0, <1>3, <1>5, <1>6, <1>7, StepKinds DEF NobodyCounted, PassesBudget

\* A client overruns its budget and its token cap by no more than the requests that
\* may be in flight at once.
THEOREM OverrunStaysBounded == GateSpec => []OverrunBounded
<1>1. GateInit => CostInv /\ TokenInv
  <2> SUFFICES ASSUME GateInit, MaxConcurrent # 0, NEW c \in Clients
               PROVE  /\ Budget > 0 => spent[c].cost + Cardinality(Cleared(c)) * MaxCost
                                         < Budget + MaxConcurrent * MaxCost
                      /\ TokenLimit > 0 => spent[c].tokens + Cardinality(Counting(c))
                                             < TokenLimit + MaxConcurrent
    BY DEF CostInv, TokenInv, Bounding
  <2>1. spent[c].cost = 0 /\ spent[c].tokens = 0
    BY DEF GateInit, Init
  <2>2. Cleared(c) = {} /\ Counting(c) = {}
    BY DEF GateInit, Cleared, Counting
  <2>3. /\ Cardinality(Cleared(c)) = 0 /\ Cardinality(Counting(c)) = 0
        /\ MaxConcurrent \in Nat /\ Budget \in Nat /\ TokenLimit \in Nat /\ MaxCost \in Nat
    BY <2>2, FS_EmptySet, GateAssumption, UsageAssumption
  <2>4. Budget > 0 => 0 + 0 * MaxCost < Budget + MaxConcurrent * MaxCost
    BY <2>3, UnderBudget
  <2> QED
    BY <2>1, <2>3, <2>4
<1>2. UsageInv /\ UsageInv' /\ SlotsInv /\ SlotsInv' /\ CostInv /\ TokenInv /\ [GateNext]_gateVars
        => CostInv' /\ TokenInv'
  BY CostStep, TokenStep
<1>3. UsageInv /\ SlotsInv /\ CostInv /\ TokenInv => OverrunBounded
  <2> SUFFICES ASSUME UsageInv, SlotsInv, CostInv, TokenInv, Bounding, NEW c \in Clients
               PROVE  /\ Fits(Spenders) /\ Budget > 0 => spent[c].cost < Budget + MaxConcurrent * MaxCost
                      /\ Fits(Callers) /\ TokenLimit > 0 => spent[c].tokens < TokenLimit + MaxConcurrent
    BY DEF OverrunBounded, Bounding
  <2>1. /\ MaxCost \in Nat /\ Budget \in Nat /\ TokenLimit \in Nat /\ MaxConcurrent \in Nat
        /\ spent[c].cost \in Nat /\ spent[c].tokens \in Nat
    BY UsageAssumption, GateAssumption DEF UsageInv, ClockOK
  <2>2. Cleared(c) \subseteq Requests /\ Counting(c) \subseteq Requests
    BY DEF Cleared, Counting
  <2>3. Cardinality(Cleared(c)) \in Nat /\ Cardinality(Counting(c)) \in Nat
    BY <2>2, FS_Subset, FS_CardinalityType, GateAssumption
  <2>4. Cardinality(Cleared(c)) * MaxCost \in Nat /\ MaxConcurrent * MaxCost \in Nat
    BY <2>1, <2>3, Products
  <2>5. Fits(Spenders) /\ Budget > 0 => spent[c].cost < Budget + MaxConcurrent * MaxCost
    BY <2>1, <2>4 DEF CostInv
  <2>6. Fits(Callers) /\ TokenLimit > 0 => spent[c].tokens < TokenLimit + MaxConcurrent
    BY <2>1, <2>3 DEF TokenInv
  <2> QED
    BY <2>5, <2>6
<1> QED
  BY <1>1, <1>2, <1>3, SlotsInvariant, UsageHolds, PTL DEF GateSpec

-----------------------------------------------------------------------------

\* Only the check of the budget makes a verdict of it, and only by what a table holds
\* against the client.
LEMMA DeniedByBudget ==
  ASSUME DOMAIN verdict = Requests, [GateNext]_gateVars
  PROVE  /\ DOMAIN verdict' = Requests
         /\ \A r \in Requests : verdict'[r] = "budget" /\ verdict[r] # "budget" =>
              SpentBy(client[r]) >= Budget
<1>1. ASSUME NEW q \in Requests, NEW why, why # "budget",
             UNCHANGED verdict \/ verdict' = [verdict EXCEPT ![q] = why]
      PROVE  /\ DOMAIN verdict' = Requests
             /\ \A r \in Requests : verdict'[r] = "budget" => verdict[r] = "budget"
  BY <1>1
<1>2. ASSUME NEW q \in Requests,
             \/ Enter(q) \/ CheckTokens(q) \/ Limit(q) \/ Serve(q) \/ Fail(q)
             \/ Leave(q) \/ Abandon(q) \/ CloseStream(q)
      PROVE  /\ DOMAIN verdict' = Requests
             /\ \A r \in Requests : verdict'[r] = "budget" => verdict[r] = "budget"
  <2>1. \E why \in {"concurrency", "credit", "tokens", "body", "rate", "served", "failed"} :
          UNCHANGED verdict \/ verdict' = [verdict EXCEPT ![q] = why]
    BY <1>2 DEF Enter, CheckTokens, Limit, Serve, Fail, Leave, Abandon, CloseStream, Deny
  <2> QED
    BY <1>1, <2>1
<1>3. ASSUME NEW q \in Requests, CheckBudget(q)
      PROVE  /\ DOMAIN verdict' = Requests
             /\ \A r \in Requests : verdict'[r] = "budget" /\ verdict[r] # "budget" =>
                  SpentBy(client[r]) >= Budget
  <2>1. CASE Deny(q, "unauthorized") \/ UNCHANGED verdict
    BY <1>1, <2>1 DEF Deny
  <2>2. CASE Deny(q, "budget") /\ SpentBy(client[q]) >= Budget
    BY <2>2 DEF Deny
  <2> QED
    BY <1>3, <2>1, <2>2 DEF CheckBudget
<1>4. CASE Background \/ RestartWorker \/ UNCHANGED gateVars
  BY <1>4 DEF Background, RestartWorker, gateVars
<1> QED
  BY <1>2, <1>3, <1>4 DEF GateNext

\* A request denied for its client's spending is denied for what the client has spent:
\* a table never holds more, whatever was evicted or read back before (_budget_denial).
THEOREM DenialsAreTrue == GateSpec => NoFalseDenial
<1> DEFINE VerdictOK == DOMAIN verdict = Requests
<1>1. GateInit => VerdictOK
  BY DEF GateInit
<1>2. VerdictOK /\ [GateNext]_gateVars => VerdictOK'
  BY DeniedByBudget
<1>3. UsageInv /\ SlotsInv /\ VerdictOK /\ [GateNext]_gateVars =>
        [\A r \in Requests : verdict'[r] = "budget" /\ verdict[r] # "budget" =>
           Budget <= IF windowed THEN spent[client[r]].cost ELSE total[client[r]]]_gateVars
  <2> SUFFICES ASSUME UsageInv, SlotsInv, VerdictOK, [GateNext]_gateVars, NEW r \in Requests,
                      verdict'[r] = "budget", verdict[r] # "budget"
               PROVE  Budget <= IF windowed THEN spent[client[r]].cost ELSE total[client[r]]
    OBVIOUS
  <2>1. SpentBy(client[r]) >= Budget /\ client[r] \in Clients
    BY DeniedByBudget DEF SlotsInv
  <2>2. /\ WindowUse(window, client[r]) <= spent[client[r]].cost
        /\ GetOr(usage, client[r], Zero).cost <= total[client[r]]
    BY <2>1, UsageHonest DEF NothingInvented
  <2>3. /\ WindowUse(window, client[r]) \in Nat /\ GetOr(usage, client[r], Zero).cost \in Nat
        /\ spent[client[r]].cost \in Nat /\ total[client[r]] \in Nat /\ Budget \in Nat
    <3>1. IsDict(usage, Clients, Entry) /\ IsDict(window, Clients, WindowEntry)
      BY UsageTyped DEF UsageOK
    <3>2. WindowUse(window, client[r]) \in Nat
      BY <3>1 DEF IsDict, WindowEntry, WindowUse
    <3>3. GetOr(usage, client[r], Zero).cost \in Nat
      BY <3>1 DEF IsDict, Entry, GetOr, Zero
    <3>4. spent[client[r]].cost \in Nat /\ total[client[r]] \in Nat
      BY <2>1 DEF UsageInv, ClockOK
    <3> QED
      BY <3>2, <3>3, <3>4, GateAssumption
  <2> QED
    BY <2>1, <2>2, <2>3 DEF SpentBy
<1> HIDE DEF VerdictOK
<1> QED
  BY <1>1, <1>2, <1>3, SlotsInvariant, UsageHolds, PTL DEF GateSpec, NoFalseDenial

-----------------------------------------------------------------------------
(* RateLimiter *)

Bucket(k) == [tokens : 0 .. FullOf(k), last : 0 .. clock]

\* A bucket holds no more than its capacity, and was written by now; who was refused
\* has a bucket, written this instant, with less than a token in it.
LimiterInv ==
  /\ clock \in 0 .. EndOfTime
  /\ DOMAIN buckets \subseteq Ids /\ IsFiniteSet(DOMAIN buckets)
  /\ Cardinality(DOMAIN buckets) <= MaxBuckets
  /\ buckets = [k \in DOMAIN buckets |-> buckets[k]]
  /\ \A k \in DOMAIN buckets : buckets[k] \in Bucket(k)
  /\ refused \subseteq DOMAIN buckets
  /\ \A k \in refused : buckets[k].last = clock /\ buckets[k].tokens < Whole

\* Capacities and what they are multiplied by.
LEMMA Capacities ==
  ASSUME NEW k \in Ids
  PROVE  /\ Capacity[k] \in Nat \ {0} /\ Whole \in Nat \ {0}
         /\ FullOf(k) \in Nat /\ Whole <= FullOf(k)
<1>1. Capacity[k] \in Nat \ {0} /\ Whole \in Nat \ {0}
  BY LimiterAssumption DEF Whole
<1>2. \A c, w \in Nat \ {0} : c * w \in Nat /\ w <= c * w
  OBVIOUS
<1> QED
  BY <1>1, <1>2 DEF FullOf

\* The level of a client is between nothing and its capacity.
LEMMA LevelType ==
  ASSUME NEW k \in Ids, NEW d, NEW t \in Nat,
         k \in DOMAIN d => d[k].tokens \in 0 .. FullOf(k) /\ d[k].last \in 0 .. t
  PROVE  LevelIn(d, k, t) \in 0 .. FullOf(k)
<1>1. Capacity[k] \in Nat /\ FullOf(k) \in Nat
  BY Capacities
<1>2. CASE k \in DOMAIN d
  <2>1. (t - d[k].last) * Capacity[k] \in Nat
    <3>1. t - d[k].last \in Nat
      BY <1>2
    <3>2. \A a, b \in Nat : a * b \in Nat
      OBVIOUS
    <3> QED
      BY <1>1, <3>1, <3>2
  <2>2. d[k].tokens + (t - d[k].last) * Capacity[k] \in Nat
    BY <1>2, <2>1
  <2> QED
    BY <1>1, <1>2, <2>2 DEF LevelIn, Refilled, Less
<1>3. CASE k \notin DOMAIN d
  BY <1>1, <1>3 DEF LevelIn
<1> QED
  BY <1>2, <1>3

\* What a bucket held earlier is a level, now and at any later instant.
LEMMA LevelsNow ==
  ASSUME LimiterInv, NEW d, DOMAIN d \subseteq DOMAIN buckets, \A j \in DOMAIN d : d[j] = buckets[j],
         NEW k \in Ids
  PROVE  LevelIn(d, k, clock) \in 0 .. FullOf(k) /\ LevelIn(d, k, clock) \in Nat /\ FullOf(k) \in Nat
<1>1. clock \in Nat
  BY LimiterAssumption DEF LimiterInv
<1>2. k \in DOMAIN d => d[k].tokens \in 0 .. FullOf(k) /\ d[k].last \in 0 .. clock
  BY DEF LimiterInv, Bucket
<1> QED
  BY <1>1, <1>2, LevelType, Capacities

\* The order of eviction is one: strict, transitive and total.
LEMMA RatiosOrdered ==
  ASSUME NEW a \in Nat, NEW b \in Nat, NEW c \in Nat,
         NEW p \in Nat \ {0}, NEW q \in Nat \ {0}, NEW r \in Nat \ {0}
  PROVE  /\ a * q >= b * p /\ b * r >= c * q => a * r >= c * p
         /\ a * q > b * p /\ b * r >= c * q => a * r > c * p
         /\ a * q >= b * p /\ b * r > c * q => a * r > c * p
<1>0. \A x, y, z \in Nat : x * y \in Nat /\ (x * y) * z = (x * z) * y
  OBVIOUS
<1>1. \A x, y \in Nat, n \in Nat \ {0} :
        (x >= y <=> x * n >= y * n) /\ (x > y <=> x * n > y * n)
  OBVIOUS
<1>2. /\ a * q \in Nat /\ b * p \in Nat /\ b * r \in Nat /\ c * q \in Nat /\ a * r \in Nat /\ c * p \in Nat
      /\ (a * q) * r = (a * r) * q /\ (b * r) * p = (b * p) * r /\ (c * q) * p = (c * p) * q
  BY <1>0
<1>3. /\ a * q >= b * p => (a * r) * q >= (b * p) * r
      /\ a * q > b * p => (a * r) * q > (b * p) * r
      /\ b * r >= c * q => (b * p) * r >= (c * p) * q
      /\ b * r > c * q => (b * p) * r > (c * p) * q
  BY <1>1, <1>2
<1>4. (a * r) * q \in Nat /\ (b * p) * r \in Nat /\ (c * p) * q \in Nat
  BY <1>0, <1>2
<1>5. /\ (a * r) * q >= (c * p) * q => a * r >= c * p
      /\ (a * r) * q > (c * p) * q => a * r > c * p
  BY <1>1, <1>2
<1> QED
  BY <1>3, <1>4, <1>5

\* d holds buckets of the limiter, as they are.
FromBuckets(d) == DOMAIN d \subseteq DOMAIN buckets /\ \A j \in DOMAIN d : d[j] = buckets[j]

LEMMA FullerIsOrder ==
  ASSUME LimiterInv, NEW d, FromBuckets(d), NEW i \in Ids, NEW j \in Ids, NEW k \in Ids
  PROVE  /\ ~Fuller(d, i, i)
         /\ Fuller(d, i, j) /\ Fuller(d, j, k) => Fuller(d, i, k)
         /\ i # j => Fuller(d, i, j) \/ Fuller(d, j, i)
         /\ ~Fuller(d, j, i) => LevelIn(d, i, clock) * Capacity[j] >= LevelIn(d, j, clock) * Capacity[i]
<1> DEFINE a == LevelIn(d, i, clock)
           b == LevelIn(d, j, clock)
           c == LevelIn(d, k, clock)
           p == Capacity[i]
           q == Capacity[j]
           r == Capacity[k]
<1>1. a \in Nat /\ b \in Nat /\ c \in Nat
  BY LevelsNow DEF FromBuckets
<1>2. p \in Nat \ {0} /\ q \in Nat \ {0} /\ r \in Nat \ {0} /\ i \in Nat /\ j \in Nat /\ k \in Nat
  BY Capacities, LimiterAssumption
<1>3. /\ Fuller(d, i, j) <=> a * q > b * p \/ (a * q = b * p /\ i > j)
      /\ Fuller(d, j, k) <=> b * r > c * q \/ (b * r = c * q /\ j > k)
      /\ Fuller(d, i, k) <=> a * r > c * p \/ (a * r = c * p /\ i > k)
      /\ Fuller(d, j, i) <=> b * p > a * q \/ (b * p = a * q /\ j > i)
      /\ Fuller(d, i, i) <=> a * p > a * p \/ (a * p = a * p /\ i > i)
  BY Zenon DEF Fuller
<1> HIDE DEF a, b, c, p, q, r
<1>4. \A x, y \in Nat : x * y \in Nat
  OBVIOUS
<1>5. /\ a * q \in Nat /\ b * p \in Nat /\ b * r \in Nat /\ c * q \in Nat /\ a * r \in Nat /\ c * p \in Nat
      /\ a * p \in Nat
  BY <1>1, <1>2, <1>4
<1>6. /\ a * q >= b * p /\ b * r >= c * q => a * r >= c * p
      /\ a * q > b * p /\ b * r >= c * q => a * r > c * p
      /\ a * q >= b * p /\ b * r > c * q => a * r > c * p
  BY <1>1, <1>2, RatiosOrdered
<1>7. Fuller(d, i, j) /\ Fuller(d, j, k) => Fuller(d, i, k)
  BY <1>2, <1>3, <1>5, <1>6
<1>8. ~Fuller(d, i, i)
  BY <1>2, <1>3, <1>5
<1>9. i # j => Fuller(d, i, j) \/ Fuller(d, j, i)
  BY <1>2, <1>3, <1>5
<1>10. ~Fuller(d, j, i) => a * q >= b * p
  BY <1>2, <1>3, <1>5
<1> QED
  BY <1>7, <1>8, <1>9, <1>10 DEF a, b, p, q

\* How many buckets of d come after that of k in the sorted list.
Ahead(d, k) == {j \in DOMAIN d : Fuller(d, j, k)}
Rank(d, k) == Cardinality(Ahead(d, k))

LEMMA RankOrders ==
  ASSUME LimiterInv, NEW d, FromBuckets(d), NEW j \in DOMAIN d, NEW k \in DOMAIN d
  PROVE  /\ Rank(d, k) \in Nat
         /\ Fuller(d, j, k) => Rank(d, j) < Rank(d, k)
         /\ Rank(d, j) = Rank(d, k) => j = k
<1>0. DOMAIN d \subseteq Ids /\ IsFiniteSet(DOMAIN d)
  BY FS_Subset DEF FromBuckets, LimiterInv
<1>1. \A i \in DOMAIN d : IsFiniteSet(Ahead(d, i)) /\ Rank(d, i) \in Nat
  <2> TAKE i \in DOMAIN d
  <2>1. Ahead(d, i) \subseteq DOMAIN d
    BY DEF Ahead
  <2> QED
    BY <1>0, <2>1, FS_Subset, FS_CardinalityType DEF Rank
<1>2. ASSUME NEW x \in DOMAIN d, NEW y \in DOMAIN d, Fuller(d, x, y)
      PROVE  Rank(d, x) < Rank(d, y)
  <2>1. Ahead(d, x) \subseteq Ahead(d, y)
    BY <1>0, <1>2, FullerIsOrder DEF Ahead
  <2>2. x \in Ahead(d, y) /\ x \notin Ahead(d, x)
    BY <1>0, <1>2, FullerIsOrder DEF Ahead
  <2>3. Ahead(d, x) # Ahead(d, y)
    BY <2>2
  <2> QED
    BY <1>1, <2>1, <2>3, FS_Subset DEF Rank
<1>3. Rank(d, j) = Rank(d, k) => j = k
  <2> SUFFICES ASSUME j # k, Rank(d, j) = Rank(d, k) PROVE FALSE
    OBVIOUS
  <2>1. Fuller(d, j, k) \/ Fuller(d, k, j)
    BY <1>0, FullerIsOrder
  <2> QED
    BY <1>1, <1>2, <2>1
<1> QED
  BY <1>1, <1>2, <1>3

\* The first target of the list goes, and no more than the target.
LEMMA SomeEvicted ==
  ASSUME LimiterInv, NEW d, FromBuckets(d), DOMAIN d # {}
  PROVE  Evicted(d) # {}
<1> DEFINE T == {Rank(d, k) : k \in DOMAIN d}
<1>1. T \subseteq Nat /\ T # {}
  BY RankOrders
<1>2. PICK k \in DOMAIN d : \A j \in DOMAIN d : Rank(d, k) <= Rank(d, j)
  <2> HIDE DEF T
  <2>1. PICK x \in T : \A y \in T : x <= y
    BY <1>1, LeastNat
  <2> QED
    BY <2>1 DEF T
<1>3. Ahead(d, k) = {}
  <2> SUFFICES ASSUME NEW j \in DOMAIN d, Fuller(d, j, k) PROVE FALSE
    BY DEF Ahead
  <2>1. Rank(d, j) < Rank(d, k) /\ Rank(d, j) \in Nat /\ Rank(d, k) \in Nat
    BY RankOrders
  <2> QED
    BY <1>2, <2>1
<1>4. Rank(d, k) < EvictTarget
  BY <1>3, FS_EmptySet, LimiterAssumption DEF Rank
<1> QED
  BY <1>4 DEF Evicted, Rank, Ahead

LEMMA FewEvicted ==
  ASSUME LimiterInv, NEW d, FromBuckets(d)
  PROVE  Evicted(d) \subseteq DOMAIN d /\ IsFiniteSet(Evicted(d)) /\ Cardinality(Evicted(d)) <= EvictTarget
<1> DEFINE f == [k \in Evicted(d) |-> Rank(d, k)]
           T == 0 .. EvictTarget - 1
<1>1. Evicted(d) \subseteq DOMAIN d /\ \A k \in Evicted(d) : Rank(d, k) < EvictTarget
  BY DEF Evicted, Rank, Ahead
<1>2. EvictTarget \in Nat \ {0}
  BY LimiterAssumption
<1>3. \A k \in Evicted(d) : Rank(d, k) \in T
  BY <1>1, <1>2, RankOrders
<1>4. f \in Injection(Evicted(d), T)
  <2>1. \A j, k \in Evicted(d) : f[j] = f[k] => j = k
    BY <1>1, RankOrders
  <2>2. f \in [Evicted(d) -> T]
    BY <1>3
  <2> QED
    BY <2>1, <2>2 DEF Injection, IsInjective
<1>5. IsFiniteSet(T) /\ Cardinality(T) = EvictTarget
  BY <1>2, FS_Interval
<1> HIDE DEF f, T
<1> QED
  BY <1>1, <1>4, <1>5, FS_Injection


Idle == {k \in DOMAIN buckets : Level(k) = FullOf(k)}
Working == Without(buckets, Idle)

\* What is kept when room is made: all, all but the idle, or all but those and the
\* first of the others.
LEMMA RoomIs ==
  ASSUME LimiterInv
  PROVE  /\ FromBuckets(Room(buckets)) /\ FromBuckets(Working) /\ DOMAIN Working = DOMAIN buckets \ Idle
         /\ IsFiniteSet(DOMAIN Room(buckets)) /\ Cardinality(DOMAIN Room(buckets)) < MaxBuckets
         /\ \/ DOMAIN buckets \ DOMAIN Room(buckets) \subseteq Idle
            \/ DOMAIN Room(buckets) = DOMAIN Working \ Evicted(Working)
<1> DEFINE dom == DOMAIN buckets
<1>0. IsFiniteSet(dom) /\ Cardinality(dom) \in Nat /\ Cardinality(dom) <= MaxBuckets /\ MaxBuckets \in Nat
  BY FS_CardinalityType, LimiterAssumption DEF LimiterInv
<1>1. FromBuckets(Working) /\ DOMAIN Working = dom \ Idle
  BY DEF FromBuckets, Working, Without
<1>2. IsFiniteSet(dom \ Idle) /\ Cardinality(dom \ Idle) <= Cardinality(dom) /\ Cardinality(dom \ Idle) \in Nat
  BY <1>0, FS_Subset, FS_CardinalityType
<1>3. Reclaimed(buckets) = IF Cardinality(DOMAIN Working) < MaxBuckets THEN Working
                           ELSE Without(Working, Evicted(Working))
  BY DEF Reclaimed, Working, Idle, Level
<1>4. CASE Cardinality(dom) < MaxBuckets
  <2>1. Room(buckets) = buckets
    BY <1>0, <1>4 DEF Room
  <2> QED
    BY <1>0, <1>1, <1>4, <2>1 DEF FromBuckets
<1>5. CASE ~(Cardinality(dom) < MaxBuckets) /\ Cardinality(dom \ Idle) < MaxBuckets
  <2>1. Room(buckets) = Working
    BY <1>0, <1>1, <1>3, <1>5 DEF Room
  <2> QED
    BY <1>1, <1>2, <1>5, <2>1
<1>6. CASE ~(Cardinality(dom) < MaxBuckets) /\ ~(Cardinality(dom \ Idle) < MaxBuckets)
  <2> DEFINE gone == Evicted(Working)
  <2>1. Room(buckets) = Without(Working, gone)
    BY <1>0, <1>1, <1>3, <1>6 DEF Room
  <2>2. DOMAIN Working # {}
    BY <1>0, <1>1, <1>2, <1>6, FS_EmptySet, LimiterAssumption
  <2>3. gone # {} /\ gone \subseteq DOMAIN Working
    BY <1>1, <2>2, SomeEvicted, FewEvicted
  <2>4. DOMAIN Without(Working, gone) = DOMAIN Working \ gone /\ FromBuckets(Without(Working, gone))
    BY <1>1 DEF Without, FromBuckets
  <2>5. PICK k \in gone : k \in DOMAIN Working
    BY <2>3
  <2>6. /\ IsFiniteSet(DOMAIN Working \ {k})
        /\ Cardinality(DOMAIN Working \ {k}) = Cardinality(DOMAIN Working) - 1
    BY <1>1, <1>2, <2>5, FS_RemoveElement, ZenonT(40)
  <2>7. DOMAIN Working \ gone \subseteq DOMAIN Working \ {k}
    BY <2>5
  <2>8. /\ IsFiniteSet(DOMAIN Working \ gone)
        /\ Cardinality(DOMAIN Working \ gone) <= Cardinality(DOMAIN Working \ {k})
        /\ Cardinality(DOMAIN Working \ gone) \in Nat
    BY <2>6, <2>7, FS_Subset, FS_CardinalityType
  <2>9. Cardinality(DOMAIN Working \ gone) < MaxBuckets
    BY <1>0, <1>1, <1>2, <2>6, <2>8
  <2> QED
    BY <1>1, <2>1, <2>4, <2>8, <2>9
<1> QED
  BY <1>4, <1>5, <1>6

\* What allow writes: the bucket of k, as full as it was or would be, less a token.
LEMMA AllowIs ==
  ASSUME LimiterInv, NEW k \in Ids, Allow(k)
  PROVE  /\ DOMAIN buckets' = DOMAIN Room(buckets) \cup {k}
         /\ \A j \in DOMAIN Room(buckets) : j # k => buckets'[j] = buckets[j]
         /\ buckets' = [j \in DOMAIN buckets' |-> buckets'[j]]
         /\ \E n \in 0 .. LevelIn(Room(buckets), k, clock) :
              /\ buckets'[k] = [tokens |-> n, last |-> clock]
              /\ refused' \subseteq {k} /\ (refused' # {} => n < Whole)
         /\ clock' = clock
<1> DEFINE d == Room(buckets)
           level == LevelIn(d, k, clock)
           taken == IF level < Whole THEN 0 ELSE Whole
<1>1. FromBuckets(d)
  BY RoomIs
<1>2. level \in Nat /\ Whole \in Nat
  BY <1>1, LevelsNow, Capacities DEF FromBuckets
<1>3. /\ buckets' = With(d, k, [tokens |-> level - taken, last |-> clock])
      /\ refused' = IF taken = 0 THEN {k} ELSE {}
      /\ clock' = clock
  BY DEF Allow
<1>4. DOMAIN buckets' = DOMAIN d \cup {k} /\ buckets'[k] = [tokens |-> level - taken, last |-> clock]
      /\ \A j \in DOMAIN d : j # k => buckets'[j] = d[j]
  BY <1>3 DEF With
<1>9. buckets' = [j \in DOMAIN buckets' |-> buckets'[j]]
  BY <1>3 DEF With
<1>10. clock' = clock
  BY <1>3
<1>5. level - taken \in 0 .. level /\ (refused' # {} => level - taken < Whole) /\ refused' \subseteq {k}
  <2> HIDE DEF d, level
  <2>1. CASE level < Whole
    BY <1>2, <1>3, <2>1
  <2>2. CASE ~(level < Whole)
    <3>1. taken = Whole /\ Whole # 0
      BY <2>2, Capacities
    <3>2. level - Whole \in 0 .. level
      BY <1>2, <2>2
    <3> QED
      BY <1>3, <3>1, <3>2
  <2> QED
    BY <2>1, <2>2
<1> DEFINE n == level - taken
<1>6. n \in 0 .. LevelIn(Room(buckets), k, clock) /\ buckets'[k] = [tokens |-> n, last |-> clock]
      /\ refused' \subseteq {k} /\ (refused' # {} => n < Whole)
  BY <1>4, <1>5
<1>7. \A j \in DOMAIN Room(buckets) : j # k => buckets'[j] = buckets[j]
  BY <1>1, <1>4 DEF FromBuckets
<1>8. DOMAIN buckets' = DOMAIN Room(buckets) \cup {k}
  BY <1>4
<1> HIDE DEF d, level, taken, n
<1> QED
  BY <1>6, <1>7, <1>8, <1>9, <1>10

LEMMA LimiterStep == LimiterInv /\ [LimiterNext]_limiterVars => LimiterInv'
<1> SUFFICES ASSUME LimiterInv, [LimiterNext]_limiterVars PROVE LimiterInv'
  OBVIOUS
<1>1. ASSUME NEW k \in Ids, Allow(k) PROVE LimiterInv'
  <2> DEFINE d == Room(buckets)
  <2>1. /\ FromBuckets(d) /\ IsFiniteSet(DOMAIN d) /\ Cardinality(DOMAIN d) < MaxBuckets
    BY RoomIs
  <2>2. PICK n \in 0 .. LevelIn(d, k, clock) :
          /\ buckets'[k] = [tokens |-> n, last |-> clock]
          /\ refused' \subseteq {k} /\ (refused' # {} => n < Whole)
    BY <1>1, AllowIs
  <2>3. /\ DOMAIN buckets' = DOMAIN d \cup {k}
        /\ \A j \in DOMAIN d : j # k => buckets'[j] = buckets[j]
        /\ buckets' = [j \in DOMAIN buckets' |-> buckets'[j]]
        /\ clock' = clock
    BY <1>1, AllowIs
  <2>4. DOMAIN buckets \subseteq Ids /\ DOMAIN d \subseteq DOMAIN buckets /\ clock \in 0 .. EndOfTime
    BY <2>1 DEF FromBuckets, LimiterInv
  <2>5. IsFiniteSet(DOMAIN buckets') /\ Cardinality(DOMAIN buckets') <= MaxBuckets
    <3>1. /\ IsFiniteSet(DOMAIN d \cup {k})
          /\ Cardinality(DOMAIN d \cup {k}) = IF k \in DOMAIN d THEN Cardinality(DOMAIN d)
                                              ELSE Cardinality(DOMAIN d) + 1
      BY <2>1, FS_AddElement
    <3>2. Cardinality(DOMAIN d) \in Nat /\ MaxBuckets \in Nat
      BY <2>1, FS_CardinalityType, LimiterAssumption
    <3> QED
      BY <2>1, <2>3, <3>1, <3>2
  <2>6. [tokens |-> n, last |-> clock] \in Bucket(k)
    <3>1. LevelIn(d, k, clock) \in 0 .. FullOf(k) /\ FullOf(k) \in Nat
      BY <2>1, LevelsNow DEF FromBuckets
    <3>2. n \in 0 .. FullOf(k) /\ clock \in 0 .. clock
      BY <2>4, <3>1
    <3> QED
      BY <3>2 DEF Bucket
  <2>7. \A j \in DOMAIN buckets' : buckets'[j] \in Bucket(j)'
    BY <2>2, <2>3, <2>4, <2>6 DEF LimiterInv, Bucket
  <2> QED
    BY <2>2, <2>3, <2>4, <2>5, <2>7 DEF LimiterInv
<1>2. CASE Second
  <2>1. clock' = clock + 1 /\ clock < EndOfTime /\ UNCHANGED buckets /\ refused' = {}
    BY <1>2 DEF Second
  <2>2. \A k \in DOMAIN buckets : Bucket(k) \subseteq Bucket(k)'
    BY <2>1, LimiterAssumption DEF Bucket, LimiterInv
  <2> QED
    BY <2>1, <2>2, LimiterAssumption DEF LimiterInv
<1>3. CASE UNCHANGED limiterVars
  BY <1>3 DEF limiterVars, LimiterInv, Bucket
<1> QED
  BY <1>1, <1>2, <1>3 DEF LimiterNext

LEMMA LimiterInvariant == LimiterSpec => []LimiterInv
<1>1. LimiterInit => LimiterInv
  <2> SUFFICES ASSUME LimiterInit PROVE LimiterInv
    OBVIOUS
  <2>1. DOMAIN buckets = {} /\ buckets = [k \in DOMAIN buckets |-> buckets[k]]
    BY DEF LimiterInit, EmptyDict
  <2>2. IsFiniteSet({}) /\ Cardinality({}) = 0
    BY FS_EmptySet
  <2>3. clock = 0 /\ refused = {}
    BY DEF LimiterInit
  <2> QED
    BY <2>1, <2>2, <2>3, LimiterAssumption DEF LimiterInv
<1> QED
  BY <1>1, LimiterStep, PTL DEF LimiterSpec

\* However many clients come, and however full their buckets, the cap holds: when none is
\* idle, the list of those to give up is not empty (_reclaim).
THEOREM BucketsStayBounded == LimiterSpec => []BucketsBounded
<1>1. LimiterInv => BucketsBounded
  BY DEF LimiterInv, BucketsBounded
<1> QED
  BY <1>1, LimiterInvariant, PTL

\* The level of a bucket written this instant is what was written.
LEMMA LevelWritten ==
  ASSUME NEW k \in Ids, NEW d, k \in DOMAIN d, NEW t \in Nat,
         d[k].last = t, d[k].tokens \in 0 .. FullOf(k)
  PROVE  LevelIn(d, k, t) = d[k].tokens
<1>1. FullOf(k) \in Nat /\ Capacity[k] \in Nat
  BY Capacities
<1>2. (t - d[k].last) * Capacity[k] = 0
  BY <1>1
<1> QED
  BY <1>1, <1>2 DEF LevelIn, Refilled, Less

\* The buckets a request gives up are the fullest, in proportion, and EvictTarget at most.
LEMMA FullestGo ==
  ASSUME LimiterInv, NEW k \in Ids, Allow(k)
  PROVE  LET raised == {i \in Ids : LevelIn(buckets', i, clock) > Level(i)}
             kept == (DOMAIN buckets \cap DOMAIN buckets') \ (raised \cup {k})
         IN /\ Cardinality(raised) <= EvictTarget
            /\ \A i \in raised, j \in kept : Level(i) * Capacity[j] >= Level(j) * Capacity[i]
<1> DEFINE d == Room(buckets)
           raised == {i \in Ids : LevelIn(buckets', i, clock) > Level(i)}
           kept == (DOMAIN buckets \cap DOMAIN buckets') \ (raised \cup {k})
<1>0. clock \in Nat
  BY LimiterAssumption DEF LimiterInv
<1>1. FromBuckets(d) /\ FromBuckets(Working) /\ DOMAIN Working = DOMAIN buckets \ Idle /\ FromBuckets(buckets)
  BY RoomIs DEF FromBuckets
<1>2. \A i \in Ids : /\ LevelIn(d, i, clock) \in 0 .. FullOf(i) /\ LevelIn(d, i, clock) \in Nat
                     /\ FullOf(i) \in Nat /\ Level(i) \in Nat /\ Level(i) <= FullOf(i)
  BY <1>1, LevelsNow DEF FromBuckets, Level
<1>3. \A i \in Ids : LevelIn(buckets', i, clock) <= LevelIn(d, i, clock)
  <2> TAKE i \in Ids
  <2>1. CASE i = k
    <3>1. PICK n \in 0 .. LevelIn(d, k, clock) : buckets'[k] = [tokens |-> n, last |-> clock]
      BY AllowIs
    <3>2. k \in DOMAIN buckets' /\ n \in 0 .. FullOf(k)
      <4>1. k \in DOMAIN buckets'
        BY AllowIs
      <4>2. LevelIn(d, k, clock) \in 0 .. FullOf(k) /\ n \in 0 .. LevelIn(d, k, clock) /\ FullOf(k) \in Nat
        BY <1>2
      <4> HIDE DEF d
      <4> QED
        BY <4>1, <4>2
    <3>3. LevelIn(buckets', k, clock) = n
      BY <1>0, <3>1, <3>2, LevelWritten
    <3> QED
      BY <1>2, <2>1, <3>3
  <2>2. CASE i # k
    <3>1. (i \in DOMAIN buckets' <=> i \in DOMAIN d) /\ (i \in DOMAIN d => buckets'[i] = d[i])
      BY <1>1, <2>2, AllowIs DEF FromBuckets
    <3>2. LevelIn(buckets', i, clock) = LevelIn(d, i, clock)
      BY <3>1 DEF LevelIn
    <3> QED
      BY <1>2, <3>2
  <2> QED
    BY <2>1, <2>2
<1>4. \A i \in raised : i \in DOMAIN buckets \ DOMAIN d /\ i \notin Idle
  <2> SUFFICES ASSUME NEW i \in raised PROVE i \in DOMAIN buckets \ DOMAIN d /\ i \notin Idle
    OBVIOUS
  <2>1. LevelIn(d, i, clock) > Level(i) /\ i \in Ids
    <3>1. LevelIn(buckets', i, clock) > Level(i) /\ i \in Ids
      OBVIOUS
    <3>2. LevelIn(buckets', i, clock) \in Nat
      <4>1. CASE i \in DOMAIN buckets'
        <5>1. buckets'[i].tokens \in 0 .. FullOf(i) /\ buckets'[i].last \in 0 .. clock
          BY <4>1, LimiterStep, AllowIs DEF LimiterNext, LimiterInv, Bucket
        <5> QED
          BY <1>0, <1>2, <3>1, <5>1, LevelType
      <4>2. CASE i \notin DOMAIN buckets'
        BY <1>2, <3>1, <4>2 DEF LevelIn
      <4> QED
        BY <4>1, <4>2
    <3> QED
      BY <1>2, <1>3, <3>1, <3>2
  <2>2. i \notin DOMAIN d
    BY <1>1, <1>2, <2>1 DEF FromBuckets, Level, LevelIn
  <2>3. i \in DOMAIN buckets
    BY <1>2, <2>1, <2>2 DEF Level, LevelIn
  <2>4. Level(i) # FullOf(i)
    BY <1>2, <2>1
  <2> QED
    BY <2>2, <2>3, <2>4 DEF Idle
<1>5. CASE DOMAIN buckets \ DOMAIN d \subseteq Idle
  <2>1. raised = {}
    BY <1>4, <1>5
  <2>2. Cardinality(raised) <= EvictTarget
    BY <2>1, FS_EmptySet, LimiterAssumption
  <2> QED
    BY <2>1, <2>2
<1>6. CASE DOMAIN d = DOMAIN Working \ Evicted(Working)
  <2>1. raised \subseteq Evicted(Working)
    BY <1>1, <1>4, <1>6
  <2>2. /\ Evicted(Working) \subseteq DOMAIN Working /\ IsFiniteSet(Evicted(Working))
        /\ Cardinality(Evicted(Working)) <= EvictTarget
    BY <1>1, FewEvicted
  <2>3. Cardinality(raised) <= EvictTarget
    <3>1. IsFiniteSet(raised) /\ Cardinality(raised) <= Cardinality(Evicted(Working))
      BY <2>1, <2>2, FS_Subset
    <3>2. Cardinality(raised) \in Nat /\ Cardinality(Evicted(Working)) \in Nat /\ EvictTarget \in Nat
      BY <2>2, <3>1, FS_CardinalityType, LimiterAssumption
    <3> QED
      BY <2>2, <3>1, <3>2
  <2>4. ASSUME NEW i \in raised, NEW j \in kept
        PROVE  Level(i) * Capacity[j] >= Level(j) * Capacity[i]
    <3>1. i \in Evicted(Working) /\ j \in DOMAIN Working /\ j \notin Evicted(Working) /\ i \in DOMAIN Working
      <4>1. j \in DOMAIN d
        BY AllowIs
      <4> QED
        BY <1>6, <2>1, <2>2, <4>1
    <3>2. i \in Ids /\ j \in Ids
      BY <1>1, <3>1 DEF LimiterInv, FromBuckets
    <3>3. Rank(Working, i) < EvictTarget /\ ~(Rank(Working, j) < EvictTarget)
      BY <3>1 DEF Evicted, Rank, Ahead
    <3>4. Rank(Working, i) \in Nat /\ Rank(Working, j) \in Nat /\ EvictTarget \in Nat
      BY <1>1, <3>1, RankOrders, LimiterAssumption
    <3>5. ~Fuller(Working, j, i)
      BY <1>1, <3>1, <3>3, <3>4, RankOrders
    <3>6. LevelIn(Working, i, clock) * Capacity[j] >= LevelIn(Working, j, clock) * Capacity[i]
      BY <1>1, <3>2, <3>5, FullerIsOrder
    <3>7. LevelIn(Working, i, clock) = Level(i) /\ LevelIn(Working, j, clock) = Level(j)
      BY <1>1, <3>1 DEF FromBuckets, LevelIn, Level
    <3> QED
      BY <3>6, <3>7
  <2> HIDE DEF raised, kept
  <2> QED
    BY <2>3, <2>4 DEF raised, kept
<1> QED
  BY <1>5, <1>6, RoomIs

\* Whatever buckets there are and whoever comes, giving some up raises the level of the
\* fullest only, and of EvictTarget clients at most (_reclaim).
THEOREM FullestAreDropped == LimiterSpec => DropsTheFullest
<1>1. LimiterInv => [\A k \in Ids :
         LET raised == {i \in Ids : LevelIn(buckets', i, clock) > Level(i)}
             kept == (DOMAIN buckets \cap DOMAIN buckets') \ (raised \cup {k})
         IN Allow(k) =>
              /\ Cardinality(raised) <= EvictTarget
              /\ \A i \in raised, j \in kept : Level(i) * Capacity[j] >= Level(j) * Capacity[i]
       ]_limiterVars
  BY FullestGo
<1> QED
  BY <1>1, LimiterInvariant, PTL DEF DropsTheFullest

\* The ceiling of x / c.
LEMMA Ceiling ==
  ASSUME NEW x \in Nat \ {0}, NEW c \in Nat \ {0}
  PROVE  LET s == (x + c - 1) \div c
         IN s \in Nat \ {0} /\ s * c >= x /\ (s - 1) * c < x
<1> DEFINE s == (x + c - 1) \div c
           m == (x + c - 1) % c
<1>1. s \in Nat /\ m \in 0 .. c - 1 /\ x + c - 1 = c * s + m
  OBVIOUS
<1>2. s * c \in Nat /\ s * c = c * s
  BY <1>1
<1> HIDE DEF s, m
<1>3. s * c >= x
  BY <1>1, <1>2
<1>4. s # 0
  BY <1>2, <1>3
<1>5. (s - 1) * c = s * c - c
  BY <1>1
<1>6. (s - 1) * c < x
  BY <1>1, <1>2, <1>5
<1> QED
  BY <1>1, <1>3, <1>4, <1>6 DEF s

\* Retry-After is neither too short nor a second too long, whatever the capacities and
\* the window.
THEOREM WaitsAreEnough == LimiterSpec => []WaitIsEnough
<1>1. ASSUME LimiterInv, NEW k \in refused
      PROVE  LET wait == RetryAfter(k)
             IN /\ wait > 0 /\ LevelIn(buckets, k, clock + wait) >= Whole
                /\ LevelIn(buckets, k, clock + wait - 1) < Whole
                /\ Remaining(k) = 0
  <2> DEFINE n == buckets[k].tokens
             c == Capacity[k]
             s == (Whole - n + c - 1) \div c
  <2>1. /\ k \in DOMAIN buckets /\ k \in Ids /\ buckets[k].last = clock
        /\ n \in 0 .. FullOf(k) /\ n < Whole /\ clock \in Nat
    BY <1>1, LimiterAssumption DEF LimiterInv, Bucket
  <2>2. c \in Nat \ {0} /\ Whole \in Nat \ {0} /\ FullOf(k) \in Nat /\ Whole <= FullOf(k)
    BY <2>1, Capacities
  <2>3. Level(k) = n
    BY <2>1, LevelWritten DEF Level
  <2>4. Whole - n \in Nat \ {0} /\ n \in Nat
    BY <2>1, <2>2
  <2>5. s \in Nat \ {0} /\ s * c >= Whole - n /\ (s - 1) * c < Whole - n
    BY <2>2, <2>4, Ceiling
  <2>6. RetryAfter(k) = s
    BY <2>1, <2>2, <2>3, <2>5 DEF RetryAfter
  <2>7. Remaining(k) = 0
    <3>1. \A x \in Nat, y \in Nat \ {0} : x < y => x \div y = 0
      OBVIOUS
    <3> QED
      BY <2>1, <2>2, <2>3, <2>4, <3>1 DEF Remaining
  <2>8. \A t \in Nat : LevelIn(buckets, k, clock + t) = Less(FullOf(k), n + t * c)
    <3> TAKE t \in Nat
    <3>1. clock + t - buckets[k].last = t
      BY <2>1
    <3> QED
      BY <2>1, <3>1 DEF LevelIn, Refilled
  <2> HIDE DEF s, n, c
  <2>9. s - 1 \in Nat /\ s * c \in Nat /\ (s - 1) * c \in Nat
    <3>1. \A x, y \in Nat : x * y \in Nat
      OBVIOUS
    <3>2. s - 1 \in Nat
      BY <2>5
    <3> QED
      BY <2>2, <2>5, <3>1, <3>2
  <2>10. LevelIn(buckets, k, clock + s) >= Whole
    <3>1. LevelIn(buckets, k, clock + s) = Less(FullOf(k), n + s * c)
      BY <2>5, <2>8
    <3> QED
      BY <2>2, <2>4, <2>5, <2>9, <3>1 DEF Less
  <2>11. LevelIn(buckets, k, clock + s - 1) < Whole
    <3>1. clock + s - 1 = clock + (s - 1)
      BY <2>1, <2>5
    <3>2. LevelIn(buckets, k, clock + s - 1) = Less(FullOf(k), n + (s - 1) * c)
      BY <2>8, <2>9, <3>1
    <3> QED
      BY <2>2, <2>4, <2>5, <2>9, <3>2 DEF Less
  <2> QED
    BY <2>5, <2>6, <2>7, <2>10, <2>11
<1>2. LimiterInv => WaitIsEnough
  BY <1>1 DEF WaitIsEnough
<1> QED
  BY <1>2, LimiterInvariant, PTL

-----------------------------------------------------------------------------
(* HttpEdge: the body of the request *)

UploadMessages == [size : Nat, more : BOOLEAN, gone : BOOLEAN]

\* One turn of the fold in Bytes, and how many bytes the first k messages hold.
Weighing(ms, f) ==
  [s \in SUBSET DOMAIN ms |-> IF s = {} THEN 0 ELSE f[s \ {Max(s)}] + ms[Max(s)].size]
BytesTo(ms) == [k \in 0..Len(ms) |-> (CHOOSE f : f = Weighing(ms, f))[1..k]]

LEMMA BytesOf ==
  ASSUME NEW ms \in Seq(UploadMessages)
  PROVE  /\ Bytes(ms) = BytesTo(ms)[Len(ms)] /\ BytesTo(ms)[0] = 0
         /\ \A k \in 1..Len(ms) : BytesTo(ms)[k] = BytesTo(ms)[k - 1] + ms[k].size
         /\ \A k \in 0..Len(ms) : BytesTo(ms)[k] \in Nat
<1> DEFINE len == Len(ms)
           fold == CHOOSE f : f = Weighing(ms, f)
           Adding == [p \in Nat \X (1..len) |-> p[1] + ms[p[2]].size]
<1>1. len \in Nat /\ DOMAIN ms = 1..len /\ \A i \in 1..len : ms[i].size \in Nat
  <2>1. \A i \in 1..len : ms[i] \in UploadMessages
    OBVIOUS
  <2> QED
    BY <2>1 DEF UploadMessages
<1>2. Bytes(ms) = fold[DOMAIN ms]
  BY Zenon DEF Bytes, FoldLeft, MapThenFoldSet, Weighing
<1>3. Adding \in [Nat \X (1..len) -> Nat]
  BY <1>1
<1>4. PICK h \in [SUBSET (1..len) -> Nat] : h = FoldTurn(Adding, 0, h, len)
  <2> HIDE DEF Adding, len, fold
  <2>1. len \in Nat /\ 0 \in Nat
    BY <1>1
  <2>2. \A m \in Nat : \A g \in [Nat \X (1..m) -> Nat] :
          \E h \in [SUBSET (1..m) -> Nat] : h = FoldTurn(g, 0, h, m)
    BY <2>1, FoldExists, Zenon
  <2> QED
    BY <1>3, <2>1, <2>2, Zenon
<1>5. ASSUME NEW s \in SUBSET (1..len), s # {} PROVE Max(s) \in 1..len
  BY <1>1, <1>5, MaxIn
<1>6. h = Weighing(ms, h)
  <2>1. \A s \in SUBSET (1..len) : s # {} =>
          Adding[<<h[s \ {Max(s)}], Max(s)>>] = h[s \ {Max(s)}] + ms[Max(s)].size
    BY <1>5
  <2> HIDE DEF Adding
  <2> QED
    BY <1>1, <1>4, <2>1 DEF FoldTurn, Weighing
<1>7. fold = Weighing(ms, fold)
  BY <1>6, Zenon
<1> HIDE DEF fold, Adding
<1>8. fold[{}] = 0
  BY <1>7 DEF Weighing
<1>9. ASSUME NEW k \in 1..len PROVE fold[1..k] = fold[1..(k - 1)] + ms[k].size
  <2>1. k \in Nat \ {0} /\ 1..k \in SUBSET (1..len) /\ k \in 1..k
    BY <1>1
  <2>2. Max(1..k) = k /\ (1..k) \ {k} = 1..(k - 1) /\ 1..k # {}
    BY <2>1, MaxTo
  <2> QED
    BY <1>1, <1>7, <2>1, <2>2 DEF Weighing
<1>10. \A k \in 0..len : BytesTo(ms)[k] = fold[1..k]
  BY DEF BytesTo, fold
<1>11. BytesTo(ms)[0] = 0 /\ \A k \in 1..len : BytesTo(ms)[k] = BytesTo(ms)[k - 1] + ms[k].size
  BY <1>1, <1>8, <1>9, <1>10
<1>12. \A k \in 0..len : BytesTo(ms)[k] \in Nat
  <2> DEFINE T == {k \in 0..len : BytesTo(ms)[k] \in Nat}
  <2>1. 0 \in T
    BY <1>1, <1>11
  <2>2. \A k \in 1..len : k - 1 \in T => k \in T
    BY <1>1, <1>11
  <2> HIDE DEF T, len
  <2>3. \A k \in 0..len : k \in T
    BY <1>1, <2>1, <2>2, UpTo
  <2> QED
    BY <2>3 DEF T
<1>13. Bytes(ms) = BytesTo(ms)[len]
  BY <1>1, <1>2, <1>10
<1> QED
  BY <1>11, <1>12, <1>13

\* No message holds no bytes, and one more adds its own.
LEMMA BytesAppend ==
  ASSUME NEW ms \in Seq(UploadMessages), NEW m \in UploadMessages
  PROVE  /\ Bytes(ms) \in Nat /\ Bytes(Append(ms, m)) = Bytes(ms) + m.size
         /\ m.size \in Nat
<1> DEFINE both == Append(ms, m)
           len == Len(ms)
<1>1. both \in Seq(UploadMessages) /\ Len(both) = len + 1 /\ both[len + 1] = m /\ len \in Nat
  OBVIOUS
<1>2. \A i \in 1..len : both[i] = ms[i]
  OBVIOUS
<1> HIDE DEF both
<1>3. /\ Bytes(both) = BytesTo(both)[len + 1] /\ BytesTo(both)[0] = 0
      /\ \A k \in 1..(len + 1) : BytesTo(both)[k] = BytesTo(both)[k - 1] + both[k].size
  BY <1>1, BytesOf
<1>4. /\ Bytes(ms) = BytesTo(ms)[len] /\ BytesTo(ms)[0] = 0
      /\ \A k \in 1..len : BytesTo(ms)[k] = BytesTo(ms)[k - 1] + ms[k].size
      /\ \A k \in 0..len : BytesTo(ms)[k] \in Nat
  BY BytesOf
<1> HIDE DEF len
<1>5. \A k \in 0..len : BytesTo(both)[k] = BytesTo(ms)[k]
  <2> DEFINE T == {k \in 0..len : BytesTo(both)[k] = BytesTo(ms)[k]}
  <2>1. 0 \in T
    BY <1>1, <1>3, <1>4
  <2>2. ASSUME NEW k \in 1..len, k - 1 \in T PROVE k \in T
    <3>1. BytesTo(both)[k - 1] = BytesTo(ms)[k - 1] /\ both[k] = ms[k] /\ k \in 1..(len + 1)
      BY <1>1, <1>2, <2>2
    <3>2. BytesTo(both)[k] = BytesTo(both)[k - 1] + both[k].size
      BY <1>3, <3>1
    <3>3. BytesTo(ms)[k] = BytesTo(ms)[k - 1] + ms[k].size
      BY <1>4
    <3> QED
      BY <3>1, <3>2, <3>3
  <2> HIDE DEF T
  <2>3. \A k \in 0..len : k \in T
    BY <1>1, <2>1, <2>2, UpTo
  <2> QED
    BY <2>3 DEF T
<1>6. len + 1 \in 1..(len + 1) /\ (len + 1) - 1 = len /\ len \in 0..len
  BY <1>1
<1>7. BytesTo(both)[len + 1] = BytesTo(both)[(len + 1) - 1] + both[len + 1].size
  BY <1>3, <1>6
<1>8. Bytes(both) = Bytes(ms) + m.size /\ Bytes(ms) \in Nat
  BY <1>1, <1>3, <1>4, <1>5, <1>6, <1>7
<1>9. m.size \in Nat
  BY DEF UploadMessages
<1> QED
  BY <1>8, <1>9 DEF both

LEMMA NoBytes == Bytes(<<>>) = 0
<1>1. <<>> \in Seq(UploadMessages) /\ Len(<<>>) = 0
  OBVIOUS
<1> QED
  BY <1>1, BytesOf

-----------------------------------------------------------------------------
(* The request *)

\* What is buffered is what was sent until then; the application has read a part of it,
\* or all that was ever sent.
Replaying ==
  /\ uploaded \in Seq(UploadMessages) /\ buffered \in Seq(UploadMessages)
  /\ received \in Seq(UploadMessages) /\ replayed \in 0..Len(buffered)
  /\ \/ /\ uploaded = buffered /\ Len(received) = replayed
        /\ \A i \in 1..replayed : received[i] = buffered[i]
     \/ replayed = Len(buffered) /\ received = uploaded
  /\ where # "app" => uploaded = buffered /\ replayed = 0 /\ received = <<>>
  /\ where = "app" => Bytes(uploaded) <= MaxBytes

LEMMA BufferReplays ==
  ASSUME Replaying, Buffer
  PROVE  Replaying'
<1>1. PICK m \in [size : Chunks, more : BOOLEAN, gone : {FALSE}] \cup {Disconnect} :
        /\ uploaded' = Append(uploaded, m)
        /\ buffered' = Append(buffered, m)
        /\ where' = IF Bytes(buffered') > MaxBytes THEN "refusing"
                    ELSE IF m.more THEN "buffering" ELSE "app"
  BY DEF Buffer
<1>2. m \in UploadMessages
  <2>1. Disconnect \in UploadMessages
    BY DEF UploadMessages, Disconnect
  <2>2. [size : Chunks, more : BOOLEAN, gone : {FALSE}] \subseteq UploadMessages
    BY EdgeAssumption DEF UploadMessages
  <2> QED
    BY <2>1, <2>2
<1>3. uploaded = buffered /\ replayed = 0 /\ received = <<>> /\ UNCHANGED <<replayed, received>>
  BY DEF Buffer, Replaying
<1>4. uploaded' = buffered' /\ buffered' \in Seq(UploadMessages) /\ Len(buffered') \in Nat
  BY <1>1, <1>2, <1>3 DEF Replaying
<1>5. Bytes(buffered') \in Nat
  BY <1>2, <1>4, BytesAppend
<1>6. where' = "app" => Bytes(uploaded') <= MaxBytes
  BY <1>1, <1>4, <1>5, EdgeAssumption
<1> QED
  BY <1>3, <1>4, <1>6 DEF Replaying

LEMMA ReadReplays ==
  ASSUME Replaying, Read
  PROVE  Replaying'
<1>1. where = "app" /\ UNCHANGED <<buffered, where>> /\ Len(buffered) \in Nat
  BY DEF Read, Replaying
<1>2. CASE replayed < Len(buffered)
  <2>1. replayed' = replayed + 1 /\ received' = Append(received, buffered[replayed']) /\ UNCHANGED uploaded
    BY <1>2 DEF Read
  <2>2. uploaded = buffered /\ Len(received) = replayed /\ \A i \in 1..replayed : received[i] = buffered[i]
    BY <1>2 DEF Replaying
  <2>3. buffered[replayed'] \in UploadMessages /\ replayed' \in 0..Len(buffered)
    BY <1>1, <1>2, <2>1 DEF Replaying
  <2>4. /\ received' \in Seq(UploadMessages) /\ Len(received') = replayed'
        /\ \A i \in 1..replayed' : received'[i] = buffered[i]
    BY <2>1, <2>2, <2>3 DEF Replaying
  <2> QED
    BY <1>1, <2>1, <2>2, <2>3, <2>4 DEF Replaying
<1>3. CASE ~(replayed < Len(buffered))
  <2>1. uploaded' = Append(uploaded, Disconnect) /\ received' = Append(received, Disconnect) /\ UNCHANGED replayed
    BY <1>3 DEF Read
  <2>2. Disconnect \in UploadMessages /\ Disconnect.size = 0
    BY DEF UploadMessages, Disconnect
  <2>3. replayed = Len(buffered) /\ received = uploaded
    BY <1>1, <1>3 DEF Replaying
  <2>4. uploaded' \in Seq(UploadMessages) /\ received' = uploaded'
    BY <2>1, <2>2, <2>3 DEF Replaying
  <2>5. Bytes(uploaded') = Bytes(uploaded) + 0 /\ Bytes(uploaded) \in Nat
    BY <2>1, <2>2, BytesAppend DEF Replaying
  <2> QED
    BY <1>1, <2>1, <2>3, <2>4, <2>5 DEF Replaying
<1> QED
  BY <1>2, <1>3

LEMMA EdgeReplays == Replaying /\ [EdgeNext]_edgeVars => Replaying'
<1> SUFFICES ASSUME Replaying, [EdgeNext]_edgeVars PROVE Replaying'
  OBVIOUS
<1>1. CASE Refuse \/ Respond \/ SendBody \/ UNCHANGED edgeVars
  <2>1. UNCHANGED <<uploaded, buffered, replayed, received, where>>
    BY <1>1 DEF Refuse, Respond, SendBody, Starts, edgeVars
  <2> QED
    BY <2>1 DEF Replaying
<1> QED
  BY <1>1, BufferReplays, ReadReplays DEF EdgeNext

\* The application reads what the client sent, of which nothing is too large, whatever
\* the sizes and the number of the pieces (replay_receive of MaxBodySizeMiddleware).
THEOREM BodyIsReplayed == EdgeSpec => []ReadsWhatWasSent
<1>1. EdgeInit => Replaying
  <2>1. <<>> \in Seq(UploadMessages) /\ Len(<<>>) = 0
    OBVIOUS
  <2> QED
    BY <2>1 DEF EdgeInit, Replaying
<1>2. Replaying => ReadsWhatWasSent
  <2> SUFFICES ASSUME Replaying PROVE ReadsWhatWasSent
    OBVIOUS
  <2>1. IsPrefix(received, uploaded)
    <3>1. CASE received = uploaded
      BY <3>1 DEF IsPrefix, Replaying
    <3>2. CASE /\ uploaded = buffered /\ Len(received) = replayed
               /\ \A i \in 1..replayed : received[i] = buffered[i]
      <4>1. Len(received) <= Len(uploaded) /\ Len(received) \in Nat /\ Len(uploaded) \in Nat
        BY <3>2 DEF Replaying
      <4>2. /\ SubSeq(received, 1, Len(received)) = [i \in 1..Len(received) |-> received[i]]
            /\ SubSeq(uploaded, 1, Len(received)) = [i \in 1..Len(received) |-> uploaded[i]]
        BY <4>1 DEF Replaying
      <4>3. SubSeq(received, 1, Len(received)) = SubSeq(uploaded, 1, Len(received))
        BY <3>2, <4>2
      <4> QED
        BY <4>1, <4>3 DEF IsPrefix
    <3> QED
      BY <3>1, <3>2 DEF Replaying
  <2>2. received # <<>> => Bytes(uploaded) <= MaxBytes
    BY DEF Replaying
  <2> QED
    BY <2>1, <2>2 DEF ReadsWhatWasSent
<1> QED
  BY <1>1, <1>2, EdgeReplays, PTL DEF EdgeSpec

-----------------------------------------------------------------------------
(* The response *)

Kinds == {"flat", "envelope", "opaque", "answer"}
PieceSet == Kinds \X Nat \X Nat
ReplyMessages == [type : {"start", "body"}, error : BOOLEAN, body : Seq(PieceSet), more : BOOLEAN]
StartOf(err) == [type |-> "start", error |-> err, body |-> <<>>, more |-> TRUE]
BodiesOf(ms) == [i \in DOMAIN ms |-> ms[i].body]
Meant(r, k) == [i \in 1..k |-> Piece(r, i)]

\* An error for another vendor's client, which is held back.
HeldBack == compat /\ reply.status = "error"

\* What is held back is the start and the pieces so far, of which nothing is sent before
\* they are whole; any other response is sent as it comes.
Responding ==
  /\ reply = [status |-> reply.status, kind |-> reply.kind, pieces |-> reply.pieces, sent |-> reply.sent]
  /\ reply.status = "none" => start = <<>> /\ parts = <<>> /\ output = <<>>
  /\ reply.status # "none" =>
       /\ reply.kind \in Kinds /\ reply.pieces \in Nat \ {0} /\ reply.sent \in 0..reply.pieces
       /\ reply.kind = "flat" => reply.status = "error"
       /\ IF HeldBack
          THEN /\ start = <<StartOf(TRUE)>> /\ parts = Meant(reply, reply.sent)
               /\ output = IF reply.sent < reply.pieces THEN <<>>
                           ELSE <<StartOf(TRUE), [type |-> "body", error |-> TRUE,
                                                  body |-> Translate(parts), more |-> FALSE]>>
          ELSE /\ start = <<>> /\ parts = <<>>
               /\ output \in Seq(ReplyMessages) /\ Len(output) = reply.sent + 1
               /\ output[1].type = "start" /\ output[1].more
               /\ \A i \in 2..Len(output) :
                    output[i].type = "body" /\ (~output[i].more => i = reply.pieces + 1)
               /\ FlattenSeq(BodiesOf(output)) = Meant(reply, reply.sent)

LEMMA BodiesAppend ==
  ASSUME NEW ms \in Seq(ReplyMessages), NEW m \in ReplyMessages
  PROVE  /\ BodiesOf(ms) \in Seq(Seq(PieceSet))
         /\ FlattenSeq(BodiesOf(Append(ms, m))) = FlattenSeq(BodiesOf(ms)) \o m.body
<1>1. m.body \in Seq(PieceSet) /\ BodiesOf(ms) \in Seq(Seq(PieceSet))
  <2>1. \A i \in 1..Len(ms) : ms[i].body \in Seq(PieceSet)
    <3>1. \A i \in 1..Len(ms) : ms[i] \in ReplyMessages
      OBVIOUS
    <3> QED
      BY <3>1 DEF ReplyMessages
  <2>2. Len(ms) \in Nat /\ DOMAIN ms = 1..Len(ms)
    OBVIOUS
  <2>3. BodiesOf(ms) \in [1..Len(ms) -> Seq(PieceSet)]
    BY <2>1, <2>2 DEF BodiesOf
  <2>4. BodiesOf(ms) \in Seq(Seq(PieceSet))
    BY <2>2, <2>3, SeqDef
  <2> QED
    BY <2>4 DEF ReplyMessages
<1>2. BodiesOf(Append(ms, m)) = Append(BodiesOf(ms), m.body)
  BY DEF BodiesOf
<1> QED
  BY <1>1, <1>2, FlattenAppend

LEMMA NoBodies == BodiesOf(<<>>) = <<>> /\ FlattenSeq(<<>>) = <<>>
BY DEF BodiesOf, FlattenSeq

LEMMA StartsResponds ==
  ASSUME Responding, NEW status \in {"ok", "error"}, NEW kind \in Kinds, NEW pieces \in Nat \ {0},
         kind = "flat" => status = "error", Starts(status, kind, pieces)
  PROVE  Responding'
<1> DEFINE m == [type |-> "start", error |-> status = "error", body |-> <<>>, more |-> TRUE]
<1>1. /\ reply.status = "none" /\ start = <<>> /\ parts = <<>> /\ output = <<>> /\ compat' = compat
      /\ reply' = [status |-> status, kind |-> kind, pieces |-> pieces, sent |-> 0]
      /\ SendThrough(m)
  BY DEF Starts, Responding
<1>2. Meant(reply', 0) = <<>>
  BY DEF Meant
<1>3. CASE compat /\ status = "error"
  <2>1. start' = <<m>> /\ m = StartOf(TRUE) /\ UNCHANGED <<parts, output>>
    BY <1>1, <1>3 DEF SendThrough, StartOf
  <2> QED
    BY <1>1, <1>2, <1>3, <2>1 DEF Responding, HeldBack
<1>4. CASE ~(compat /\ status = "error")
  <2>1. output' = Append(output, m) /\ UNCHANGED <<start, parts>>
    BY <1>1, <1>4 DEF SendThrough
  <2>2. m \in ReplyMessages
    BY DEF ReplyMessages
  <2>3. /\ output' \in Seq(ReplyMessages) /\ Len(output') = 1
        /\ output'[1].type = "start" /\ output'[1].more
    BY <1>1, <2>1, <2>2
  <2>4. FlattenSeq(BodiesOf(output')) = <<>>
    <3>1. output \in Seq(ReplyMessages)
      BY <1>1, EmptySeq
    <3>2. FlattenSeq(BodiesOf(output')) = FlattenSeq(BodiesOf(output)) \o m.body
      BY <2>1, <2>2, <3>1, BodiesAppend
    <3>3. FlattenSeq(BodiesOf(output)) = <<>> /\ m.body = <<>>
      BY <1>1, NoBodies
    <3> QED
      BY <3>2, <3>3
  <2> QED
    BY <1>1, <1>2, <1>4, <2>1, <2>3, <2>4 DEF Responding, HeldBack
<1> QED
  BY <1>3, <1>4

LEMMA SendBodyResponds ==
  ASSUME Responding, SendBody
  PROVE  Responding'
<1> DEFINE n == reply.sent + 1
           m == [type |-> "body", error |-> reply.status = "error",
                 body |-> <<Piece(reply, n)>>, more |-> n < reply.pieces]
<1>1. /\ reply.status # "none" /\ reply.sent < reply.pieces /\ compat' = compat
      /\ reply' = [status |-> reply.status, kind |-> reply.kind, pieces |-> reply.pieces, sent |-> n]
      /\ SendThrough(m)
  BY DEF SendBody, Responding
<1>2. /\ reply.kind \in Kinds /\ reply.pieces \in Nat \ {0} /\ reply.sent \in Nat
      /\ n \in 1..reply.pieces /\ (reply.kind = "flat" => reply.status = "error")
  BY <1>1 DEF Responding
<1>3. Piece(reply, n) \in PieceSet
  BY <1>2 DEF Piece, PieceSet
<1>4. Meant(reply, reply.sent) \o <<Piece(reply, n)>> = Meant(reply', n)
  <2>1. \A i \in Nat : Piece(reply', i) = Piece(reply, i)
    BY <1>1 DEF Piece
  <2>2. Meant(reply, reply.sent) \in Seq(PieceSet) /\ Len(Meant(reply, reply.sent)) = reply.sent
    BY <1>2 DEF Meant, Piece, PieceSet
  <2> QED
    BY <1>2, <1>3, <2>1, <2>2 DEF Meant
<1>5. CASE HeldBack
  <2>1. /\ start = <<StartOf(TRUE)>> /\ parts = Meant(reply, reply.sent) /\ output = <<>> /\ HeldBack'
    BY <1>1, <1>5 DEF Responding, HeldBack
  <2>2. /\ parts' = parts \o <<Piece(reply, n)>> /\ UNCHANGED start
        /\ output' = IF n < reply.pieces THEN output
                     ELSE output \o start \o <<[m EXCEPT !.body = Translate(parts')]>>
    BY <1>1, <2>1 DEF SendThrough
  <2>3. parts' = Meant(reply', n)
    BY <1>4, <2>1, <2>2
  <2>4. ~(n < reply.pieces) =>
          output' = <<StartOf(TRUE), [type |-> "body", error |-> TRUE, body |-> Translate(parts'),
                                      more |-> FALSE]>>
    <3> SUFFICES ASSUME ~(n < reply.pieces)
                 PROVE  output' = <<StartOf(TRUE), [type |-> "body", error |-> TRUE,
                                                    body |-> Translate(parts'), more |-> FALSE]>>
      OBVIOUS
    <3>1. [m EXCEPT !.body = Translate(parts')]
            = [type |-> "body", error |-> TRUE, body |-> Translate(parts'), more |-> FALSE]
      <4>1. (reply.status = "error") = TRUE /\ (n < reply.pieces) = FALSE
        BY <1>5 DEF HeldBack
      <4>2. m = [type |-> "body", error |-> TRUE, body |-> <<Piece(reply, n)>>, more |-> FALSE]
        BY <4>1, Zenon
      <4> DEFINE w == [m EXCEPT !.body = Translate(parts')]
      <4> HIDE DEF m
      <4>3. \A e, b, l :
              m = [type |-> "body", error |-> e, body |-> b, more |-> l]
                => w = [type |-> "body", error |-> e, body |-> Translate(parts'), more |-> l]
        OBVIOUS
      <4>4. w = [type |-> "body", error |-> TRUE, body |-> Translate(parts'), more |-> FALSE]
        <5> HIDE DEF w
        <5> QED
          BY <4>2, <4>3, Zenon
      <4> QED
        BY <4>4
    <3>2. output' = <<>> \o <<StartOf(TRUE)>> \o <<[m EXCEPT !.body = Translate(parts')]>>
      BY <2>1, <2>2
    <3> DEFINE last == [type |-> "body", error |-> TRUE, body |-> Translate(parts'), more |-> FALSE]
    <3>3. output' = <<>> \o <<StartOf(TRUE)>> \o <<last>>
      BY <3>1, <3>2
    <3>4. <<>> \o <<StartOf(TRUE)>> = <<StartOf(TRUE)>> /\ <<StartOf(TRUE)>> \o <<last>> = <<StartOf(TRUE), last>>
      <4>1. \A a, b : <<>> \o <<a>> = <<a>> /\ <<a>> \o <<b>> = <<a, b>>
        <5> SUFFICES ASSUME NEW a, NEW b PROVE <<>> \o <<a>> = <<a>> /\ <<a>> \o <<b>> = <<a, b>>
          OBVIOUS
        <5>1. a \in {a, b} /\ b \in {a, b}
          OBVIOUS
        <5> QED
          BY <5>1, ShortSequences
      <4> HIDE DEF last
      <4> QED
        BY <4>1, Zenon
    <3> HIDE DEF last
    <3>5. output' = <<StartOf(TRUE), last>>
      BY <3>3, <3>4, Zenon
    <3> QED
      BY <3>5 DEF last
  <2>5. n < reply.pieces => output' = <<>>
    BY <2>1, <2>2
  <2>6. /\ reply'.status # "none" /\ reply'.kind = reply.kind /\ reply'.pieces = reply.pieces
        /\ reply'.sent = n /\ n \in 0..reply.pieces /\ reply'.status = reply.status
    BY <1>1, <1>2
  <2>7. start' = <<StartOf(TRUE)>>
    BY <2>1, <2>2
  <2> HIDE DEF m, n
  <2>8. IF HeldBack'
        THEN /\ start' = <<StartOf(TRUE)>> /\ parts' = Meant(reply', reply'.sent)
             /\ output' = IF reply'.sent < reply'.pieces THEN <<>>
                          ELSE <<StartOf(TRUE), [type |-> "body", error |-> TRUE,
                                                 body |-> Translate(parts'), more |-> FALSE]>>
        ELSE FALSE
    BY <2>1, <2>3, <2>4, <2>5, <2>6, <2>7
  <2>9. reply' = [status |-> reply'.status, kind |-> reply'.kind, pieces |-> reply'.pieces, sent |-> reply'.sent]
    BY <1>1
  <2> QED
    BY <1>2, <2>6, <2>8, <2>9 DEF Responding
<1>6. CASE ~HeldBack
  <2>1. /\ start = <<>> /\ parts = <<>> /\ ~HeldBack'
        /\ output \in Seq(ReplyMessages) /\ Len(output) = reply.sent + 1
        /\ output[1].type = "start" /\ output[1].more
        /\ \A i \in 2..Len(output) :
             output[i].type = "body" /\ (~output[i].more => i = reply.pieces + 1)
        /\ FlattenSeq(BodiesOf(output)) = Meant(reply, reply.sent)
    BY <1>1, <1>6 DEF Responding, HeldBack
  <2>2. output' = Append(output, m) /\ UNCHANGED <<start, parts>>
    BY <1>1, <2>1 DEF SendThrough
  <2>3. m \in ReplyMessages
    BY <1>3 DEF ReplyMessages
  <2>4. FlattenSeq(BodiesOf(output')) = Meant(reply', n)
    <3>1. FlattenSeq(BodiesOf(output')) = FlattenSeq(BodiesOf(output)) \o m.body
      BY <2>1, <2>2, <2>3, BodiesAppend
    <3> QED
      BY <1>4, <2>1, <3>1
  <2>5. /\ output' \in Seq(ReplyMessages) /\ Len(output') = n + 1
        /\ output'[1].type = "start" /\ output'[1].more
    BY <1>2, <2>1, <2>2, <2>3
  <2>6. ASSUME NEW i \in 2..Len(output')
        PROVE  output'[i].type = "body" /\ (~output'[i].more => i = reply.pieces + 1)
    <3>1. CASE i <= Len(output)
      BY <1>2, <2>1, <2>2, <2>3, <3>1
    <3>2. CASE ~(i <= Len(output))
      <4>1. output'[i] = m /\ i = n + 1
        BY <1>2, <2>1, <2>2, <2>3, <2>5, <3>2
      <4>2. m.type = "body" /\ m.more = (n < reply.pieces)
        OBVIOUS
      <4>3. ~(n < reply.pieces) => n = reply.pieces
        BY <1>2
      <4> QED
        BY <4>1, <4>2, <4>3
    <3> QED
      BY <3>1, <3>2
  <2> HIDE DEF m
  <2> QED
    BY <1>1, <1>2, <2>1, <2>2, <2>4, <2>5, <2>6 DEF Responding
<1> QED
  BY <1>5, <1>6

LEMMA EdgeResponds == Responding /\ [EdgeNext]_edgeVars => Responding'
<1> SUFFICES ASSUME Responding, [EdgeNext]_edgeVars PROVE Responding'
  OBVIOUS
<1>1. CASE Buffer \/ Read \/ UNCHANGED edgeVars
  <2>1. UNCHANGED <<compat, reply, start, parts, output>>
    BY <1>1 DEF Buffer, Read, edgeVars
  <2> QED
    BY <2>1 DEF Responding, HeldBack
<1>2. CASE Refuse
  <2>1. Starts("error", "flat", 1) /\ "flat" \in Kinds /\ 1 \in Nat \ {0} /\ "error" \in {"ok", "error"}
    BY <1>2 DEF Refuse, Kinds
  <2> QED
    BY <2>1, StartsResponds, Zenon
<1>3. CASE Respond
  <2>1. \/ \E n \in 1..2 : Starts("ok", "answer", n)
        \/ \E b \in Bodies : Starts("error", b.kind, b.pieces)
    BY <1>3 DEF Respond
  <2>2. ASSUME NEW n \in 1..2, Starts("ok", "answer", n) PROVE Responding'
    <3>1. /\ "answer" \in Kinds /\ n \in Nat \ {0} /\ "ok" \in {"ok", "error"} /\ "answer" # "flat"
      BY DEF Kinds
    <3> QED
      BY <2>2, <3>1, StartsResponds, Zenon
  <2>3. ASSUME NEW b \in Bodies, Starts("error", b.kind, b.pieces) PROVE Responding'
    <3>1. b.kind \in Kinds /\ b.pieces \in Nat \ {0}
      BY DEF Bodies, Kinds
    <3> QED
      BY <2>3, <3>1, StartsResponds
  <2> QED
    BY <2>1, <2>2, <2>3
<1> QED
  BY <1>1, <1>2, <1>3, SendBodyResponds DEF EdgeNext

\* The client gets one response, in one piece if it had to be translated, whatever kind
\* it is of and however many pieces it comes in (OpenAICompatErrorMiddleware).
THEOREM OneResponseIsSent == EdgeSpec => []OneResponse
<1>1. EdgeInit => Responding
  BY DEF EdgeInit, Responding, Unwritten
<1>2. Responding => OneResponse
  <2> SUFFICES ASSUME Responding, reply.status # "none" PROVE OneResponse
    <3> SUFFICES ASSUME Responding, reply.status = "none" PROVE OneResponse
      OBVIOUS
    <3>1. output = <<>> /\ DOMAIN output = {}
      BY DEF Responding
    <3> QED
      BY <3>1 DEF OneResponse
  <2> DEFINE whole == Meant(reply, reply.pieces)
  <2>1. /\ reply.kind \in Kinds /\ reply.pieces \in Nat \ {0} /\ reply.sent \in 0..reply.pieces
        /\ (reply.kind = "flat" => reply.status = "error")
    BY DEF Responding
  <2>2. CASE HeldBack /\ reply.sent < reply.pieces
    BY <2>1, <2>2 DEF Responding, OneResponse
  <2>3. CASE HeldBack /\ ~(reply.sent < reply.pieces)
    <3> DEFINE last == [type |-> "body", error |-> TRUE, body |-> Translate(parts), more |-> FALSE]
    <3>0. reply.sent = reply.pieces
      BY <2>1, <2>3
    <3>1. parts = whole /\ output = <<StartOf(TRUE), last>>
      BY <2>3, <3>0 DEF Responding
    <3>2. whole \in Seq(PieceSet) /\ Len(whole) = reply.pieces
      BY <2>1 DEF Meant, Piece, PieceSet
    <3>3. IsFlat(whole) <=> reply.kind = "flat"
      <4>1. 1 \in 1..reply.pieces /\ whole[1] = <<reply.kind, 1, reply.pieces>>
        BY <2>1 DEF Meant, Piece
      <4>2. CASE reply.kind = "flat"
        BY <2>1, <3>2, <4>2 DEF Meant, Piece, IsFlat
      <4>3. CASE IsFlat(whole)
        <5>1. whole[1] = <<"flat", 1, reply.pieces>>
          BY <2>1, <3>2, <4>3 DEF IsFlat
        <5>2. whole[1][1] = "flat" /\ whole[1][1] = reply.kind
          <6> HIDE DEF whole
          <6> QED
            BY <4>1, <5>1
        <5> HIDE DEF whole
        <5> QED
          BY <4>3, <5>2
      <4> QED
        BY <4>2, <4>3
    <3>4. Translate(parts) = IF reply.kind = "flat" THEN <<<<"envelope", 1, 1>>>> ELSE whole
      BY <3>1, <3>3 DEF Translate
    <3>5. Translate(parts) \in Seq(PieceSet)
      <4>1. <<"envelope", 1, 1>> \in PieceSet
        BY DEF PieceSet, Kinds
      <4> QED
        BY <3>2, <3>4, <4>1
    <3>6. last \in ReplyMessages /\ StartOf(TRUE) \in ReplyMessages
      BY <3>5 DEF ReplyMessages, StartOf
    <3>7. FlattenSeq(BodiesOf(output)) = Translate(parts)
      <4>0. \A a, b \in ReplyMessages :
              /\ <<>> \in Seq(ReplyMessages) /\ <<a>> \in Seq(ReplyMessages)
              /\ Append(<<>>, a) = <<a>> /\ Append(<<a>>, b) = <<a, b>>
        BY ShortSequences
      <4> HIDE DEF last
      <4>1. <<>> \in Seq(ReplyMessages) /\ <<StartOf(TRUE)>> \in Seq(ReplyMessages)
        BY <3>6, <4>0, Zenon
      <4>2. Append(<<>>, StartOf(TRUE)) = <<StartOf(TRUE)>> /\ Append(<<StartOf(TRUE)>>, last) = output
        BY <3>1, <3>6, <4>0, Zenon
      <4>3. FlattenSeq(BodiesOf(<<StartOf(TRUE)>>)) = FlattenSeq(BodiesOf(<<>>)) \o <<>>
        BY <3>6, <4>1, <4>2, BodiesAppend DEF StartOf
      <4>4. FlattenSeq(BodiesOf(output)) = FlattenSeq(BodiesOf(<<StartOf(TRUE)>>)) \o Translate(parts)
        BY <3>6, <4>1, <4>2, BodiesAppend DEF last
      <4>5. FlattenSeq(BodiesOf(<<StartOf(TRUE)>>)) = <<>>
        BY <4>3, NoBodies
      <4> HIDE DEF last
      <4>6. FlattenSeq(BodiesOf(output)) = <<>> \o Translate(parts)
        BY <4>4, <4>5
      <4> QED
        BY <3>5, <4>6
    <3>8. /\ \A i \in DOMAIN output : output[i].type = "start" <=> i = 1
          /\ \A i \in DOMAIN output : ~output[i].more => i = Len(output)
      <4>1. /\ DOMAIN output = 1..2 /\ Len(output) = 2
            /\ output[1] = StartOf(TRUE) /\ output[2] = last
        BY <3>1
      <4>2. /\ output[1].type = "start" /\ output[1].more = TRUE /\ output[2].type = "body"
        BY <4>1 DEF StartOf
      <4>3. \A i \in 1..2 : i = 1 \/ i = 2
        OBVIOUS
      <4> QED
        BY <4>1, <4>2, <4>3
    <3> HIDE DEF last
    <3>9. FlattenSeq([i \in DOMAIN output |-> output[i].body])
            = IF compat /\ reply.kind = "flat" THEN <<<<"envelope", 1, 1>>>>
              ELSE [i \in 1..reply.pieces |-> Piece(reply, i)]
      BY <2>3, <3>4, <3>7 DEF HeldBack, BodiesOf, Meant
    <3> QED
      BY <3>8, <3>9 DEF OneResponse
  <2>4. CASE ~HeldBack
    <3>1. /\ output \in Seq(ReplyMessages) /\ Len(output) = reply.sent + 1
          /\ output[1].type = "start" /\ output[1].more
          /\ \A i \in 2..Len(output) :
               output[i].type = "body" /\ (~output[i].more => i = reply.pieces + 1)
          /\ FlattenSeq(BodiesOf(output)) = Meant(reply, reply.sent)
      BY <2>4 DEF Responding
    <3>2. \A i \in DOMAIN output : i = 1 \/ i \in 2..Len(output)
      BY <3>1
    <3>3. \A i \in DOMAIN output : i <= reply.pieces + 1 /\ i <= Len(output)
      BY <2>1, <3>1
    <3>4. /\ \A i \in DOMAIN output : output[i].type = "start" <=> i = 1
          /\ \A i \in DOMAIN output : ~output[i].more => i = Len(output)
      BY <2>1, <3>1, <3>2, <3>3
    <3> QED
      BY <2>1, <2>4, <3>1, <3>4 DEF OneResponse, HeldBack, BodiesOf, Meant
  <2> QED
    BY <2>2, <2>3, <2>4
<1> QED
  BY <1>1, <1>2, EdgeResponds, PTL DEF EdgeSpec

-----------------------------------------------------------------------------
(* SemanticCache *)

Stages == {"new", "embedding", "verifying", "upstream", "storing", "done"}

\* What an entry answers is what its answer was made for: a look-up that hits does not
\* store, and so answers do not drift.
Entries ==
  {e \in [asked : Questions, made : Questions, expires : Int] : e.made = e.asked}

\* What a question may be given: an answer made for one of its bucket, marks and model.
Matches(made, q) == made.bucket = q.bucket /\ made.marks = q.marks /\ made.dim = q.dim

Gifts ==
  [made : Questions \cup {NoGift.made}, verified : BOOLEAN,
   from : {"nowhere", "semantic", "upstream", "exact"}]

SemanticTypes ==
  /\ verifying \in BOOLEAN
  /\ entries \in Seq(Entries)
  /\ maxlen \in Nat
  /\ moment \in Nat
  /\ stage \in [Askers -> Stages]
  /\ question \in [Askers -> Questions]
  /\ embedded \in [Askers -> BOOLEAN]
  /\ candidate \in [Askers -> Entries \cup {NoGift}]
  /\ given \in [Askers -> Gifts]

\* A candidate waits for a verdict only where there is one to come, and stays what it was
\* when it was found, whatever becomes of its entry meanwhile.
CandidatesFit ==
  \A r \in Askers : stage[r] = "verifying" =>
    /\ candidate[r] \in Entries
    /\ Matches(candidate[r].made, question[r])
    /\ verifying /\ Alike(candidate[r].made, question[r]) >= VerifyMin

\* What AnswersTheQuestion says of one request.
Suits(g, q) ==
  g.from # "nowhere" =>
    /\ Matches(g.made, q)
    /\ IF g.from # "semantic" THEN g.made = q
       ELSE \/ Alike(g.made, q) >= MinSimilarity
            \/ verifying /\ g.verified /\ Alike(g.made, q) >= VerifyMin

SemanticInv == SemanticTypes /\ CandidatesFit /\ AnswersTheQuestion

-----------------------------------------------------------------------------

\* Dropping the oldest entries leaves entries.
LEMMA NewestOfEntries ==
  ASSUME NEW s \in Seq(Entries), NEW n \in Nat
  PROVE  Newest(s, n) \in Seq(Entries)
BY SubSeqProperties DEF Newest

\* So does storing an answer for the question it was made for.
LEMMA StoredEntries ==
  ASSUME SemanticTypes, NEW q \in Questions
  PROVE  Stored(q, q) \in Seq(Entries)
<1> DEFINE e == [asked |-> q, made |-> q, expires |-> moment + EntryTTL]
<1>0. EntryTTL \in Nat /\ moment \in Nat /\ maxlen \in Nat /\ entries \in Seq(Entries)
  BY SemanticAssumption DEF SemanticAssumption, SemanticTypes
<1>1. e \in Entries
  BY <1>0 DEF Entries
<1>2. Append(entries, e) \in Seq(Entries)
  BY <1>0, <1>1, AppendProperties
<1> QED
  BY <1>0, <1>2, NewestOfEntries DEF Stored

\* The resemblance of two questions is a number.
LEMMA AlikeIsNumber ==
  ASSUME NEW p \in Questions, NEW q \in Questions
  PROVE  Alike(p, q) \in Int
BY SemanticAssumption DEF SemanticAssumption, Alike

\* What find returns may answer the question, and is as close as the floor demands.
LEMMA FoundFits ==
  ASSUME SemanticTypes, NEW q \in Questions, NEW e \in Find(q)
  PROVE  e \in Entries /\ Matches(e.made, q) /\ Alike(e.made, q) >= Floor
<1>1. PICK i \in DOMAIN entries :
        e = entries[i] /\ Comparable(entries[i], q) /\ Alike(entries[i].asked, q) >= Floor
  BY DEF Find
<1>2. e \in Entries
  BY <1>1, ElementOfSeq DEF SemanticTypes
<1>3. e.made = e.asked
  BY <1>2 DEF Entries
<1> QED
  BY <1>1, <1>2, <1>3 DEF Comparable, Matches

-----------------------------------------------------------------------------

LEMMA SemanticInitially == SemanticInit => SemanticInv
<1> SUFFICES ASSUME SemanticInit PROVE SemanticInv
  OBVIOUS
<1>1. entries \in Seq(Entries)
  BY EmptySeq DEF SemanticInit
<1>2. SemanticTypes
  BY <1>1, SemanticAssumption DEF SemanticAssumption, SemanticInit, SemanticTypes, Gifts, Stages, NoGift
<1> QED
  BY <1>2 DEF SemanticInit, SemanticInv, CandidatesFit, AnswersTheQuestion, NoGift

\* The property, request by request.
LEMMA SuitsIsAnswers == AnswersTheQuestion <=> \A r \in Askers : Suits(given[r], question[r])
BY DEF AnswersTheQuestion, Suits, Matches

\* A request that is given what suits it, and goes on to where no verdict is awaited,
\* keeps the invariant, whatever becomes of the entries of others.
LEMMA GivingKeeps ==
  ASSUME SemanticInv, NEW r \in Askers, NEW g \in Gifts, NEW s \in Stages \ {"verifying"},
         Suits(g, question[r]), entries' \in Seq(Entries),
         given' = [given EXCEPT ![r] = g], stage' = [stage EXCEPT ![r] = s],
         embedded' \in [Askers -> BOOLEAN],
         UNCHANGED <<verifying, maxlen, moment, question, candidate>>
  PROVE  SemanticInv'
<1>1. SemanticTypes'
  BY DEF SemanticInv, SemanticTypes
<1>2. CandidatesFit'
  BY DEF SemanticInv, SemanticTypes, CandidatesFit
<1>3. ASSUME NEW a \in Askers PROVE Suits(given[a], question[a])'
  <2>1. Suits(given'[a], question[a])
    BY SuitsIsAnswers DEF SemanticInv, SemanticTypes
  <2> QED
    BY <2>1 DEF Suits
<1> QED
  BY <1>1, <1>2, <1>3, SuitsIsAnswers DEF SemanticInv, AnswersTheQuestion, Suits, Matches

\* So does a request that only goes on.
LEMMA MovingKeeps ==
  ASSUME SemanticInv, NEW r \in Askers, NEW s \in Stages \ {"verifying"},
         entries' \in Seq(Entries), stage' = [stage EXCEPT ![r] = s],
         embedded' \in [Askers -> BOOLEAN],
         UNCHANGED <<verifying, maxlen, moment, question, candidate, given>>
  PROVE  SemanticInv'
<1>1. given[r] \in Gifts /\ given' = [given EXCEPT ![r] = given[r]]
  BY DEF SemanticInv, SemanticTypes
<1>2. Suits(given[r], question[r])
  BY SuitsIsAnswers DEF SemanticInv
<1> QED
  BY <1>1, <1>2, GivingKeeps

\* Whatever happens to the store or the clock alone keeps the invariant.
LEMMA StoreKeeps ==
  ASSUME SemanticInv, entries' \in Seq(Entries), maxlen' \in Nat, moment' \in Nat,
         UNCHANGED <<verifying, stage, question, embedded, candidate, given>>
  PROVE  SemanticInv'
<1>1. SemanticTypes'
  BY DEF SemanticInv, SemanticTypes
<1>2. CandidatesFit'
  BY DEF SemanticInv, CandidatesFit
<1>3. AnswersTheQuestion'
  BY DEF SemanticInv, AnswersTheQuestion
<1> QED
  BY <1>1, <1>2, <1>3 DEF SemanticInv

\* A look-up: what is close enough is given, what only may be waits for a verdict.
LEMMA EmbeddedKeeps == ASSUME SemanticInv, NEW r \in Askers, Embedded(r) PROVE SemanticInv'
<1> DEFINE q == question[r]
<1>1. q \in Questions /\ stage \in [Askers -> Stages] /\ SemanticTypes
  BY DEF SemanticInv, SemanticTypes
<1>2. embedded' \in [Askers -> BOOLEAN] /\ entries' \in Seq(Entries)
  BY <1>1 DEF Embedded, SemanticTypes
<1>3. CASE Find(q) = {} /\ Move(r, "upstream") /\ UNCHANGED <<candidate, given>>
  BY <1>2, <1>3, MovingKeeps DEF Embedded, Move, Stages
<1>4. ASSUME NEW e \in Find(q), Alike(e.asked, q) >= MinSimilarity,
             Give(r, e.made, FALSE, "semantic"), Move(r, "done"), UNCHANGED candidate
      PROVE  SemanticInv'
  <2> DEFINE g == [made |-> e.made, verified |-> FALSE, from |-> "semantic"]
  <2>1. e \in Entries /\ Matches(e.made, q)
    BY <1>1, FoundFits
  <2>2. e.made \in Questions /\ e.made = e.asked
    BY <2>1 DEF Entries
  <2>3. g \in Gifts
    BY <2>2 DEF Gifts
  <2>4. Suits(g, q)
    BY <1>4, <2>1, <2>2 DEF Suits
  <2> QED
    BY <1>2, <1>4, <2>3, <2>4, GivingKeeps DEF Embedded, Give, Move, Stages
<1>5. ASSUME NEW e \in Find(q), Alike(e.asked, q) < MinSimilarity,
             candidate' = [candidate EXCEPT ![r] = e], Move(r, "verifying"), UNCHANGED given
      PROVE  SemanticInv'
  <2>1. e \in Entries /\ Matches(e.made, q) /\ Alike(e.made, q) >= Floor
    BY <1>1, FoundFits
  <2>2. e.made \in Questions /\ e.made = e.asked
    BY <2>1 DEF Entries
  <2>3. verifying /\ Alike(e.made, q) >= VerifyMin
    <3>1. Alike(e.made, q) \in Int
      BY <1>1, <2>2, AlikeIsNumber
    <3>2. MinSimilarity \in Int /\ VerifyMin \in Int
      BY SemanticAssumption DEF SemanticAssumption
    <3> QED
      BY <1>5, <2>1, <2>2, <3>1, <3>2 DEF Floor
  <2>4. UNCHANGED <<verifying, entries, maxlen, moment, question>>
    BY DEF Embedded
  <2>5. SemanticTypes'
    BY <1>1, <1>2, <1>5, <2>1, <2>4 DEF SemanticTypes, Move, Stages
  <2>6. CandidatesFit'
    <3>1. \A a \in Askers \ {r} : candidate'[a] = candidate[a] /\ stage'[a] = stage[a]
      BY <1>1, <1>5 DEF SemanticTypes, Move
    <3>2. candidate'[r] = e
      BY <1>1, <1>5 DEF SemanticTypes
    <3> QED
      BY <2>1, <2>3, <2>4, <3>1, <3>2 DEF SemanticInv, CandidatesFit
  <2>7. AnswersTheQuestion'
    BY <1>5, <2>4 DEF SemanticInv, AnswersTheQuestion
  <2> QED
    BY <2>5, <2>6, <2>7 DEF SemanticInv
<1> QED
  BY <1>3, <1>4, <1>5 DEF Embedded

\* A verdict is about the candidate that was found to fit.
LEMMA VerifiedKeeps == ASSUME SemanticInv, NEW r \in Askers, Verified(r) PROVE SemanticInv'
<1> DEFINE g == [made |-> candidate[r].made, verified |-> TRUE, from |-> "semantic"]
<1>1. /\ candidate[r] \in Entries /\ Matches(candidate[r].made, question[r])
      /\ verifying /\ Alike(candidate[r].made, question[r]) >= VerifyMin
  BY DEF Verified, SemanticInv, CandidatesFit
<1>2. g \in Gifts
  BY <1>1 DEF Gifts, Entries
<1>3. Suits(g, question[r])
  BY <1>1 DEF Suits
<1>4. entries' \in Seq(Entries) /\ embedded' \in [Askers -> BOOLEAN]
  BY DEF Verified, SemanticInv, SemanticTypes
<1> QED
  BY <1>2, <1>3, <1>4, GivingKeeps DEF Verified, Give, Move, Stages

\* A fresh answer is made for the question it is given to.
LEMMA AnswerKeeps == ASSUME SemanticInv, NEW r \in Askers, Answer(r) PROVE SemanticInv'
<1>1. PICK from \in {"upstream", "exact"} :
        /\ Give(r, question[r], FALSE, from)
        /\ Move(r, IF from = "upstream" THEN "storing" ELSE "done")
  BY DEF Answer
<1> DEFINE g == [made |-> question[r], verified |-> FALSE, from |-> from]
           s == IF from = "upstream" THEN "storing" ELSE "done"
<1>2. g \in Gifts
  BY DEF SemanticInv, SemanticTypes, Gifts
<1>3. Suits(g, question[r])
  BY DEF Suits, Matches
<1>4. entries' \in Seq(Entries) /\ embedded' \in [Askers -> BOOLEAN]
  BY DEF Answer, SemanticInv, SemanticTypes
<1>5. s \in Stages \ {"verifying"}
  BY DEF Stages
<1>6. given' = [given EXCEPT ![r] = g] /\ stage' = [stage EXCEPT ![r] = s]
  BY <1>1 DEF Give, Move
<1> HIDE DEF g, s
<1> QED
  BY <1>2, <1>3, <1>4, <1>5, <1>6, GivingKeeps DEF Answer

\* And is stored for that question.
LEMMA AddKeeps == ASSUME SemanticInv, NEW r \in Askers, Add(r) PROVE SemanticInv'
<1>1. question[r] \in Questions /\ entries \in Seq(Entries) /\ SemanticTypes
  BY DEF SemanticInv, SemanticTypes
<1>2. entries' \in Seq(Entries)
  BY <1>1, StoredEntries DEF Add
<1>3. embedded' \in [Askers -> BOOLEAN]
  BY <1>1 DEF Add, SemanticTypes
<1> QED
  BY <1>2, <1>3, MovingKeeps DEF Add, Move, Stages

LEMMA SemanticKept == SemanticInv /\ [SemanticNext]_semanticVars => SemanticInv'
<1> SUFFICES ASSUME SemanticInv, [SemanticNext]_semanticVars PROVE SemanticInv'
  OBVIOUS
<1>1. entries \in Seq(Entries) /\ embedded \in [Askers -> BOOLEAN] /\ maxlen \in Nat /\ moment \in Nat
  BY DEF SemanticInv, SemanticTypes
<1>2. ASSUME NEW r \in Askers, Ask(r) \/ EmbedFails(r) \/ NotVerified(r) \/ NoAnswer(r)
      PROVE  SemanticInv'
  <2>1. entries' \in Seq(Entries) /\ embedded' \in [Askers -> BOOLEAN]
    BY <1>1, <1>2 DEF Ask, EmbedFails, NotVerified, NoAnswer
  <2>2. UNCHANGED <<verifying, maxlen, moment, question, candidate, given>>
    BY <1>2 DEF Ask, EmbedFails, NotVerified, NoAnswer
  <2>3. PICK s \in Stages \ {"verifying"} : stage' = [stage EXCEPT ![r] = s]
    BY <1>2 DEF Ask, EmbedFails, NotVerified, NoAnswer, Move, Stages
  <2> QED
    BY <2>1, <2>2, <2>3, MovingKeeps
<1>3. ASSUME NEW n \in Sizes, Resize(n) PROVE SemanticInv'
  <2>1. n \in Nat
    BY SemanticAssumption DEF SemanticAssumption
  <2> QED
    BY <1>1, <1>3, <2>1, NewestOfEntries, StoreKeeps DEF Resize
<1>4. CASE Clear
  BY <1>1, <1>4, EmptySeq, StoreKeeps DEF Clear
<1>5. CASE Elapse
  BY <1>1, <1>5, StoreKeeps DEF Elapse
<1>6. CASE UNCHANGED semanticVars
  BY <1>1, <1>6, StoreKeeps DEF semanticVars
<1> QED
  BY <1>2, <1>3, <1>4, <1>5, <1>6, EmbeddedKeeps, VerifiedKeeps, AnswerKeeps, AddKeeps
     DEF SemanticNext

\* Every answer a request is given, whether fresh, cached or another's, was made for a
\* question of its own bucket, marks and model that is as close to it as the threshold
\* or the verification demands: for any number of requests and entries, any resizing
\* and clearing, and entries that expire while they are verified.
THEOREM AnswersFit == SemanticSpec => []AnswersTheQuestion
<1>1. SemanticInv => AnswersTheQuestion
  BY DEF SemanticInv
<1> QED
  BY <1>1, SemanticInitially, SemanticKept, PTL DEF SemanticSpec
================================================================================
