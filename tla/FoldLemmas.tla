------------------------------- MODULE FoldLemmas -------------------------------
(***************************************************************************)
(* Induction over the numbers without an operator for a parameter, and     *)
(* what it says of the folds of SequencesExt: that the function a fold is  *)
(* defined by exists. With it, what sequences turned item by item into     *)
(* other sequences (Spread) hold, and in which order.                      *)
(***************************************************************************)
EXTENDS Integers, FiniteSets, Sequences, SequencesExt, FiniteSetTheorems, NaturalsInduction,
        SequenceTheorems, TLAPS

\* A set of numbers has a least one.
LEMMA LeastNat ==
  ASSUME NEW T, T \subseteq Nat, T # {}
  PROVE  \E x \in T : \A y \in T : x <= y
<1> DEFINE R == {p \in Nat \X Nat : p[1] < p[2]}
<1>1. OpToRel(<, Nat) = R
  BY Zenon DEF OpToRel
<1>2. IsWellFoundedOn(R, Nat)
  BY <1>1, NatLessThanWellFounded, Zenon
<1>3. PICK x \in T : \A y \in T : ~ (<<y, x>> \in R)
  <2> HIDE DEF R
  <2> QED BY <1>2, WFMin
<1>4. \A y \in T : ~ (y < x)
  <2> SUFFICES ASSUME NEW y \in T, y < x PROVE <<y, x>> \in R
    BY <1>3
  <2> QED OBVIOUS
<1> QED
  BY <1>3, <1>4

\* A set of numbers up to n that goes on to the next one holds them all.
LEMMA UpTo ==
  ASSUME NEW n \in Nat, NEW T, 0 \in T, \A k \in 1..n : k - 1 \in T => k \in T
  PROVE  \A k \in 0..n : k \in T
<1> SUFFICES ASSUME NEW k \in 0..n, k \notin T PROVE FALSE
  OBVIOUS
<1> DEFINE U == {i \in 0..n : i \notin T}
<1>1. PICK i \in U : \A j \in U : i <= j
  <2>1. U \subseteq Nat /\ U # {}
    OBVIOUS
  <2> HIDE DEF U
  <2> QED
    BY <2>1, LeastNat
<1>2. i # 0 /\ i \in 1..n /\ i - 1 \in 0..n
  OBVIOUS
<1>3. i - 1 \in T
  BY <1>1, <1>2
<1> QED
  BY <1>2, <1>3

\* What holds of the empty sequence, and of one with an element more, holds of all.
LEMMA AllSequences ==
  ASSUME NEW S, NEW T, <<>> \in T, \A s \in Seq(S) \cap T : \A e \in S : Append(s, e) \in T
  PROVE  \A s \in Seq(S) : s \in T
<1> SUFFICES ASSUME NEW s \in Seq(S) PROVE s \in T
  OBVIOUS
<1> DEFINE To(k) == [i \in 1..k |-> s[i]]
           U == {k \in 0..Len(s) : To(k) \in T}
<1>1. Len(s) \in Nat /\ s = To(Len(s)) /\ To(0) = <<>>
  OBVIOUS
<1>2. 0 \in U
  BY <1>1
<1>3. ASSUME NEW k \in 1..Len(s), k - 1 \in U PROVE k \in U
  <2>1. k - 1 \in Nat /\ k = (k - 1) + 1 /\ k \in Nat
    BY <1>1
  <2>2. To(k - 1) \in Seq(S) /\ Len(To(k - 1)) = k - 1
    BY <2>1
  <2>3. s[k] \in S
    OBVIOUS
  <2>4. To(k) \in Seq(S) /\ Len(To(k)) = k
    BY <2>1
  <2>5. Append(To(k - 1), s[k]) \in Seq(S) /\ Len(Append(To(k - 1), s[k])) = k
    BY <2>1, <2>2, <2>3
  <2>6. \A i \in 1..k : Append(To(k - 1), s[k])[i] = To(k)[i]
    BY <2>1, <2>2, <2>3
  <2>7. Append(To(k - 1), s[k]) = To(k)
    BY <2>4, <2>5, <2>6, SeqEqual
  <2>8. To(k - 1) \in Seq(S) \cap T
    BY <1>3, <2>2
  <2> HIDE DEF To
  <2>9. Append(To(k - 1), s[k]) \in T
    BY <2>3, <2>8
  <2>10. To(k) \in T
    BY <2>7, <2>9
  <2>11. k \in 0..Len(s)
    BY <1>1
  <2> QED
    BY <2>10, <2>11
<1> HIDE DEF U
<1>4. \A k \in 0..Len(s) : k \in U
  BY <1>1, <1>2, <1>3, UpTo
<1> HIDE DEF To
<1> QED
  BY <1>1, <1>4 DEF U

\* A sequence of n+1 is its first n elements with the last appended.
LEMMA MapAppend ==
  ASSUME NEW X, NEW n \in Nat, NEW f \in Seq(X), DOMAIN f = 1..(n + 1)
  PROVE  [i \in 1..n |-> f[i]] \in Seq(X) /\ f = Append([i \in 1..n |-> f[i]], f[n + 1])
<1> DEFINE g == [i \in 1..n |-> f[i]]
<1>1. Len(f) = n + 1
  <2>1. Len(f) \in Nat /\ DOMAIN f = 1..Len(f)
    OBVIOUS
  <2>2. n + 1 \in 1..Len(f) /\ Len(f) \in 1..(n + 1)
    BY <2>1
  <2> QED
    BY <2>1, <2>2
<1>2. \A i \in 1..(n + 1) : f[i] \in X
  OBVIOUS
<1>3. g \in Seq(X) /\ Len(g) = n
  BY <1>2
<1>4. Append(g, f[n + 1]) \in Seq(X) /\ Len(Append(g, f[n + 1])) = n + 1
  BY <1>2, <1>3
<1>5. \A i \in 1..(n + 1) : Append(g, f[n + 1])[i] = f[i]
  BY <1>3
<1> HIDE DEF g
<1>6. Append(g, f[n + 1]) = f
  BY <1>1, <1>4, <1>5, SeqEqual
<1> QED
  BY <1>3, <1>6 DEF g

\* The numbers to k have k as their largest, and those to k - 1 are the others.
LEMMA MaxTo ==
  ASSUME NEW k \in Nat \ {0}, NEW s, s \subseteq 1..k, k \in s
  PROVE  Max(s) = k /\ s \ {k} \subseteq 1..(k - 1) /\ (1..k) \ {k} = 1..(k - 1) /\ 1..k # {}
<1>1. \A x \in s : k >= x
  OBVIOUS
<1>2. \A x \in s : (\A y \in s : x >= y) => x = k
  OBVIOUS
<1>3. Max(s) = k
  BY <1>1, <1>2 DEF Max
<1> QED
  BY <1>3

\* Numbers up to n have a largest one.
LEMMA HasMost ==
  ASSUME NEW n \in Nat, NEW s, s \subseteq 1..n, s # {}
  PROVE  \E x \in s : \A y \in s : y <= x
<1> DEFINE T == {n - x : x \in s}
<1>1. T \subseteq Nat /\ T # {}
  <2>1. \A x \in s : n - x \in Nat
    OBVIOUS
  <2> QED
    BY <2>1
<1>2. PICK x \in s : \A y \in s : n - x <= n - y
  <2> HIDE DEF T
  <2>1. PICK t \in T : \A u \in T : t <= u
    BY <1>1, LeastNat
  <2> QED
    BY <2>1 DEF T
<1>3. \A y \in s : y <= x
  BY <1>2
<1> QED
  BY <1>3

LEMMA MaxIn ==
  ASSUME NEW n \in Nat, NEW s, s \subseteq 1..n, s # {}
  PROVE  Max(s) \in s /\ Max(s) \in 1..n
<1>1. PICK x \in s : \A y \in s : y <= x
  BY HasMost
<1>2. \A y \in s : x >= y
  BY <1>1
<1> QED
  BY <1>2, Zenon DEF Max

\* One turn of a fold over the numbers to n: G makes of what the others come to, and of
\* the last, what they all come to.
FoldTurn(G, base, f, n) ==
  [s \in SUBSET (1..n) |-> IF s = {} THEN base ELSE G[<<f[s \ {Max(s)}], Max(s)>>]]

LEMMA FoldExists ==
  \A A : \A base \in A : \A n \in Nat : \A G \in [A \X (1..n) -> A] :
    \E f \in [SUBSET (1..n) -> A] : f = FoldTurn(G, base, f, n)
<1> TAKE A
<1> TAKE base \in A
<1> TAKE n \in Nat
<1> TAKE G \in [A \X (1..n) -> A]
<1> DEFINE T == {k \in 0..n : \E f \in [SUBSET (1..k) -> A] : f = FoldTurn(G, base, f, k)}
<1>1. 0 \in T
  <2> DEFINE f == [s \in SUBSET (1..0) |-> base]
  <2>1. \A s \in SUBSET (1..0) : s = {}
    OBVIOUS
  <2>2. f = FoldTurn(G, base, f, 0)
    BY <2>1 DEF FoldTurn
  <2>3. f \in [SUBSET (1..0) -> A]
    OBVIOUS
  <2> QED
    BY <2>2, <2>3
<1>2. ASSUME NEW k \in 1..n, k - 1 \in T PROVE k \in T
  <2>1. PICK f \in [SUBSET (1..(k - 1)) -> A] : f = FoldTurn(G, base, f, k - 1)
    BY <1>2
  <2> DEFINE g == [s \in SUBSET (1..k) |-> IF k \in s THEN G[<<f[s \ {k}], k>>] ELSE f[s]]
  <2>2. \A s \in SUBSET (1..k) : k \notin s => s \in SUBSET (1..(k - 1))
    OBVIOUS
  <2>3. \A s \in SUBSET (1..k) : k \in s => s \ {k} \in SUBSET (1..(k - 1)) /\ Max(s) = k
    <3>1. k \in Nat \ {0}
      OBVIOUS
    <3> TAKE s \in SUBSET (1..k)
    <3>2. k \in s => Max(s) = k /\ s \ {k} \subseteq 1..(k - 1)
      BY <3>1, MaxTo
    <3> QED
      BY <3>2
  <2>4. g \in [SUBSET (1..k) -> A]
    BY <2>2, <2>3
  <2>5. ASSUME NEW s \in SUBSET (1..k)
        PROVE  g[s] = IF s = {} THEN base ELSE G[<<g[s \ {Max(s)}], Max(s)>>]
    <3>1. CASE k \in s
      <4>1. Max(s) = k /\ s \ {k} \in SUBSET (1..k) /\ k \notin s \ {k} /\ s # {}
        BY <2>3, <3>1
      <4>2. g[s \ {k}] = f[s \ {k}]
        BY <4>1
      <4>3. g[s] = G[<<f[s \ {k}], k>>]
        BY <3>1
      <4> QED
        BY <4>1, <4>2, <4>3
    <3>2. CASE k \notin s
      <4>1. s \in SUBSET (1..(k - 1)) /\ s \ {Max(s)} \in SUBSET (1..k) /\ k \notin s \ {Max(s)}
        BY <2>2, <3>2
      <4>2. g[s] = f[s] /\ g[s \ {Max(s)}] = f[s \ {Max(s)}]
        BY <3>2, <4>1
      <4>3. f[s] = IF s = {} THEN base ELSE G[<<f[s \ {Max(s)}], Max(s)>>]
        BY <2>1, <4>1 DEF FoldTurn
      <4> QED
        BY <4>2, <4>3
    <3> QED
      BY <3>1, <3>2
  <2> HIDE DEF g
  <2>6. g = FoldTurn(G, base, g, k)
    BY <2>4, <2>5 DEF FoldTurn
  <2> QED
    BY <2>4, <2>6
<1> HIDE DEF T
<1>3. n \in T
  BY <1>1, <1>2, UpTo
<1> QED
  BY <1>3 DEF T

-----------------------------------------------------------------------------
(* FlattenSeq *)

\* One turn of FlattenSeq.
Joining(ss, f, n) == [i \in 1..n |-> IF i = 1 THEN ss[i] ELSE f[i - 1] \o ss[i]]

LEMMA JoiningExists ==
  ASSUME NEW S, NEW n \in Nat, NEW ss \in [1..n -> Seq(S)]
  PROVE  \E f \in [1..n -> Seq(S)] : f = Joining(ss, f, n)
<1> DEFINE T == {k \in 0..n : \E f \in [1..k -> Seq(S)] : f = Joining(ss, f, k)}
<1>1. 0 \in T
  <2> DEFINE f == [i \in 1..0 |-> <<>>]
  <2>1. f = Joining(ss, f, 0) /\ f \in [1..0 -> Seq(S)]
    BY DEF Joining
  <2> HIDE DEF f
  <2>2. \E g \in [1..0 -> Seq(S)] : g = Joining(ss, g, 0)
    BY <2>1
  <2>3. 0 \in 0..n
    OBVIOUS
  <2> QED
    BY <2>2, <2>3, Zenon
<1>2. ASSUME NEW k \in 1..n, k - 1 \in T PROVE k \in T
  <2>1. PICK f \in [1..(k - 1) -> Seq(S)] : f = Joining(ss, f, k - 1)
    BY <1>2
  <2> DEFINE g == [i \in 1..k |-> IF i < k THEN f[i] ELSE IF k = 1 THEN ss[k] ELSE f[k - 1] \o ss[k]]
  <2>2. ss[k] \in Seq(S) /\ (k # 1 => f[k - 1] \in Seq(S) /\ f[k - 1] \o ss[k] \in Seq(S))
    <3>1. ss[k] \in Seq(S)
      OBVIOUS
    <3>2. k # 1 => f[k - 1] \in Seq(S)
      OBVIOUS
    <3>3. \A a, b \in Seq(S) : a \o b \in Seq(S)
      OBVIOUS
    <3> QED
      BY <3>1, <3>2, <3>3
  <2>3. g \in [1..k -> Seq(S)]
    BY <2>2
  <2>4. ASSUME NEW i \in 1..k PROVE g[i] = IF i = 1 THEN ss[i] ELSE g[i - 1] \o ss[i]
    <3>1. CASE i < k
      <4>1. i \in 1..(k - 1) /\ g[i] = f[i] /\ (i # 1 => g[i - 1] = f[i - 1])
        BY <3>1
      <4>2. f[i] = IF i = 1 THEN ss[i] ELSE f[i - 1] \o ss[i]
        BY <2>1, <4>1 DEF Joining
      <4> QED
        BY <4>1, <4>2
    <3>2. CASE i = k
      BY <3>2
    <3> QED
      BY <3>1, <3>2
  <2> HIDE DEF g
  <2>5. g = Joining(ss, g, k)
    BY <2>3, <2>4 DEF Joining
  <2> QED
    BY <2>3, <2>5
<1> HIDE DEF T
<1>3. \A k \in 1..n : k - 1 \in T => k \in T
  BY <1>2
<1>4. \A k \in 0..n : k \in T
  BY <1>1, <1>3, UpTo
<1>5. n \in T
  BY <1>4
<1> QED
  BY <1>5 DEF T

\* What the first k of the sequences come to.
FlatTo(ss) == CHOOSE f : f = Joining(ss, f, Len(ss))

LEMMA FlattenTo ==
  ASSUME NEW S, NEW ss \in Seq(Seq(S)), ss # <<>>
  PROVE  /\ FlattenSeq(ss) = FlatTo(ss)[Len(ss)] /\ FlatTo(ss)[1] = ss[1]
         /\ \A i \in 1..Len(ss) : /\ FlatTo(ss)[i] \in Seq(S)
                                  /\ i # 1 => FlatTo(ss)[i] = FlatTo(ss)[i - 1] \o ss[i]
<1> DEFINE n == Len(ss)
           F == FlatTo(ss)
<1>1. n \in Nat /\ n # 0 /\ ss \in [1..n -> Seq(S)]
  OBVIOUS
<1>2. FlattenSeq(ss) = F[n]
  BY <1>1, Zenon DEF FlattenSeq, FlatTo, Joining
<1>3. PICK h \in [1..n -> Seq(S)] : h = Joining(ss, h, n)
  <2> HIDE DEF n
  <2> QED
    BY <1>1, JoiningExists
<1>4. F = Joining(ss, F, n)
  BY <1>3, Zenon DEF FlatTo
<1> HIDE DEF F
<1>5. \A i \in 1..n : F[i] = IF i = 1 THEN ss[i] ELSE F[i - 1] \o ss[i]
  BY <1>4 DEF Joining
<1>6. \A i \in 0..n : i # 0 => F[i] \in Seq(S)
  <2> DEFINE T == {i \in 0..n : i # 0 => F[i] \in Seq(S)}
  <2>1. 0 \in T
    BY <1>1
  <2>2. ASSUME NEW k \in 1..n, k - 1 \in T PROVE k \in T
    <3>1. CASE k = 1
      BY <1>1, <1>5, <3>1
    <3>2. CASE k # 1
      <4>1. k - 1 # 0
        BY <3>2
      <4>2. F[k - 1] \in Seq(S)
        BY <2>2, <4>1
      <4>3. ss[k] \in Seq(S)
        BY <1>1
      <4>4. F[k] = F[k - 1] \o ss[k]
        BY <1>5, <3>2
      <4>5. F[k] \in Seq(S)
        BY <4>2, <4>3, <4>4
      <4> QED
        BY <4>5
    <3> QED
      BY <3>1, <3>2
  <2> HIDE DEF T, n
  <2>3. \A i \in 0..n : i \in T
    BY <1>1, <2>1, <2>2, UpTo
  <2> QED
    BY <2>3 DEF T
<1>7. F[1] = ss[1] /\ \A i \in 1..n : i # 1 => F[i] = F[i - 1] \o ss[i]
  <2>1. 1 \in 1..n
    BY <1>1
  <2> HIDE DEF n
  <2> QED
    BY <1>5, <2>1
<1>8. \A i \in 1..n : F[i] \in Seq(S)
  BY <1>6
<1> QED
  BY <1>2, <1>7, <1>8, Zenon DEF F

LEMMA FlattenType ==
  ASSUME NEW S, NEW ss \in Seq(Seq(S))
  PROVE  FlattenSeq(ss) \in Seq(S)
<1>1. CASE ss = <<>>
  <2>1. FlattenSeq(ss) = <<>>
    BY <1>1 DEF FlattenSeq
  <2> QED
    BY <2>1
<1>2. CASE ss # <<>>
  <2>1. Len(ss) \in 1..Len(ss)
    BY <1>2
  <2> QED
    BY <1>2, <2>1, FlattenTo
<1> QED
  BY <1>1, <1>2

\* What is appended comes last.
LEMMA FlattenAppend ==
  ASSUME NEW S, NEW ss \in Seq(Seq(S)), NEW s \in Seq(S)
  PROVE  FlattenSeq(Append(ss, s)) = FlattenSeq(ss) \o s
<1> DEFINE tt == Append(ss, s)
           n == Len(ss)
<1>1. tt \in Seq(Seq(S)) /\ Len(tt) = n + 1 /\ tt[n + 1] = s /\ n \in Nat
  OBVIOUS
<1>2. \A i \in 1..n : tt[i] = ss[i]
  OBVIOUS
<1>3. tt # <<>>
  <2>1. Len(tt) # Len(<<>>)
    BY <1>1
  <2> HIDE DEF tt
  <2> QED
    BY <2>1
<1> HIDE DEF tt
<1>4. /\ FlattenSeq(tt) = FlatTo(tt)[Len(tt)] /\ FlatTo(tt)[1] = tt[1]
      /\ \A i \in 1..Len(tt) : /\ FlatTo(tt)[i] \in Seq(S)
                               /\ i # 1 => FlatTo(tt)[i] = FlatTo(tt)[i - 1] \o tt[i]
  BY <1>1, <1>3, FlattenTo, Zenon
<1>5. CASE ss = <<>>
  <2>1. FlattenSeq(ss) = <<>> /\ n = 0
    BY <1>5 DEF FlattenSeq
  <2>2. FlattenSeq(tt) = s
    BY <1>1, <1>4, <2>1
  <2>3. <<>> \o s = s
    OBVIOUS
  <2> QED
    BY <2>1, <2>2, <2>3 DEF tt
<1>6. CASE ss # <<>>
  <2> DEFINE T == {i \in 0..n : i # 0 => FlatTo(tt)[i] = FlatTo(ss)[i]}
  <2>1. n # 0 /\ n \in 1..n
    BY <1>6
  <2>2. /\ FlattenSeq(ss) = FlatTo(ss)[Len(ss)] /\ FlatTo(ss)[1] = ss[1]
        /\ \A i \in 1..Len(ss) : /\ FlatTo(ss)[i] \in Seq(S)
                                 /\ i # 1 => FlatTo(ss)[i] = FlatTo(ss)[i - 1] \o ss[i]
    BY <1>6, FlattenTo, Zenon
  <2>3. 0 \in T
    BY <1>1
  <2>4. ASSUME NEW k \in 1..n, k - 1 \in T PROVE k \in T
    <3>1. CASE k = 1
      <4>1. FlatTo(tt)[k] = FlatTo(ss)[k]
        BY <1>2, <1>4, <2>2, <3>1
      <4> QED
        BY <4>1
    <3>2. CASE k # 1
      <4>1. FlatTo(tt)[k - 1] = FlatTo(ss)[k - 1] /\ tt[k] = ss[k] /\ k \in 1..Len(tt)
        BY <1>1, <1>2, <2>4, <3>2, SMTT(40)
      <4>2. FlatTo(tt)[k] = FlatTo(tt)[k - 1] \o tt[k] /\ FlatTo(ss)[k] = FlatTo(ss)[k - 1] \o ss[k]
        BY <1>4, <2>2, <3>2, <4>1
      <4>3. FlatTo(tt)[k] = FlatTo(ss)[k]
        BY <4>1, <4>2
      <4> QED
        BY <4>3
    <3> QED
      BY <3>1, <3>2
  <2>5. n \in T
    <3> HIDE DEF T, n
    <3>1. \A k \in 1..n : k - 1 \in T => k \in T
      BY <2>4
    <3>2. \A k \in 0..n : k \in T
      BY <1>1, <2>3, <3>1, UpTo
    <3> QED
      BY <1>1, <3>2
  <2>6. FlatTo(tt)[n] = FlatTo(ss)[n]
    BY <2>1, <2>5
  <2>7. n + 1 \in 1..Len(tt) /\ n + 1 # 1 /\ (n + 1) - 1 = n
    BY <1>1, <2>1
  <2>8. FlatTo(tt)[n + 1] = FlatTo(tt)[(n + 1) - 1] \o tt[n + 1]
    <3> HIDE DEF n
    <3> QED
      BY <1>4, <2>7
  <2>9. FlattenSeq(tt) = FlatTo(ss)[n] \o s
    <3> HIDE DEF n
    <3> QED
      BY <1>1, <1>4, <2>6, <2>7, <2>8
  <2> QED
    BY <2>2, <2>9 DEF tt
<1> QED
  BY <1>5, <1>6

\* In whichever order three are joined.
LEMMA Associates ==
  ASSUME NEW S, NEW a \in Seq(S), NEW b \in Seq(S), NEW c \in Seq(S)
  PROVE  (a \o b) \o c = a \o (b \o c)
BY ConcatAssociative

\* What is appended to the second of two is appended to both.
LEMMA AppendsLater ==
  ASSUME NEW S, NEW a \in Seq(S), NEW b \in Seq(S), NEW x \in S
  PROVE  a \o Append(b, x) = Append(a \o b, x)
<1>1. <<x>> \in Seq(S) /\ a \o b \in Seq(S)
  OBVIOUS
<1>2. Append(b, x) = b \o <<x>>
  BY AppendIsConcat
<1>3. Append(a \o b, x) = (a \o b) \o <<x>>
  BY <1>1, AppendIsConcat
<1>4. (a \o b) \o <<x>> = a \o (b \o <<x>>)
  BY <1>1, Associates
<1> QED
  BY <1>2, <1>3, <1>4, Zenon

\* Nothing to join.
LEMMA FlattenEmpty == FlattenSeq(<<>>) = <<>>
BY DEF FlattenSeq

LEMMA FlattensAssociate ==
  ASSUME NEW S, NEW ss \in Seq(Seq(S)), NEW tt \in Seq(Seq(S)), NEW s \in Seq(S)
  PROVE  (FlattenSeq(ss) \o FlattenSeq(tt)) \o s = FlattenSeq(ss) \o (FlattenSeq(tt) \o s)
<1>1. FlattenSeq(ss) \in Seq(S) /\ FlattenSeq(tt) \in Seq(S)
  BY FlattenType
<1> QED
  BY <1>1, Associates, SMTT(40)

\* Sequences of sequences are joined one group after the other.
LEMMA FlattenConcat ==
  ASSUME NEW S, NEW ss \in Seq(Seq(S)), NEW tt \in Seq(Seq(S))
  PROVE  FlattenSeq(ss \o tt) = FlattenSeq(ss) \o FlattenSeq(tt)
<1> DEFINE T == {uu \in Seq(Seq(S)) : FlattenSeq(ss \o uu) = FlattenSeq(ss) \o FlattenSeq(uu)}
<1>0. FlattenSeq(ss) \in Seq(S)
  BY FlattenType
<1>1. <<>> \in T
  <2>1. ss \o <<>> = ss /\ FlattenSeq(ss) \o <<>> = FlattenSeq(ss)
    BY <1>0, ConcatEmptySeq
  <2>2. <<>> \in Seq(Seq(S))
    OBVIOUS
  <2> QED
    BY <2>1, <2>2, FlattenEmpty
<1>2. ASSUME NEW uu \in Seq(Seq(S)) \cap T, NEW s \in Seq(S) PROVE Append(uu, s) \in T
  <2>1. uu \in Seq(Seq(S)) /\ Append(uu, s) \in Seq(Seq(S)) /\ ss \o uu \in Seq(Seq(S))
    OBVIOUS
  <2>2. ss \o Append(uu, s) = Append(ss \o uu, s)
    BY <2>1, AppendsLater, SMTT(40)
  <2>3. FlattenSeq(Append(ss \o uu, s)) = FlattenSeq(ss \o uu) \o s
    BY <2>1, FlattenAppend
  <2>4. FlattenSeq(Append(uu, s)) = FlattenSeq(uu) \o s
    BY FlattenAppend
  <2>5. FlattenSeq(uu) \in Seq(S)
    BY FlattenType
  <2>6. (FlattenSeq(ss) \o FlattenSeq(uu)) \o s = FlattenSeq(ss) \o (FlattenSeq(uu) \o s)
    BY <2>1, FlattensAssociate, SMTT(40)
  <2> QED
    BY <1>2, <2>1, <2>2, <2>3, <2>4, <2>6
<1> HIDE DEF T
<1>3. \A uu \in Seq(Seq(S)) : uu \in T
  BY <1>1, <1>2, AllSequences
<1> QED
  BY <1>3 DEF T

\* Sequences of one or two elements.
LEMMA ShortSequences ==
  ASSUME NEW S, NEW a \in S, NEW b \in S
  PROVE  /\ <<>> \in Seq(S) /\ <<a>> \in Seq(S) /\ <<a, b>> \in Seq(S)
         /\ Append(<<>>, a) = <<a>> /\ Append(<<a>>, b) = <<a, b>>
         /\ <<>> \o <<a>> = <<a>> /\ <<a>> \o <<b>> = <<a, b>>
<1>1. <<>> \in Seq(S) /\ <<a>> \in Seq(S) /\ <<a, b>> \in Seq(S)
  OBVIOUS
<1>2. Append(<<>>, a) = <<a>>
  OBVIOUS
<1>3. Append(<<a>>, b) = <<a, b>>
  <2>1. /\ Append(<<a>>, b) \in Seq(S) /\ Len(Append(<<a>>, b)) = 2 /\ Len(<<a, b>>) = 2
        /\ Append(<<a>>, b)[1] = a /\ Append(<<a>>, b)[2] = b
        /\ <<a, b>>[1] = a /\ <<a, b>>[2] = b
    OBVIOUS
  <2>2. \A i \in 1..2 : i = 1 \/ i = 2
    OBVIOUS
  <2> QED
    BY <1>1, <2>1, <2>2, SeqEqual
<1>4. <<>> \o <<a>> = <<a>>
  OBVIOUS
<1>5. <<a>> \o <<b>> = <<a, b>>
  <2>1. /\ <<a>> \o <<b>> \in Seq(S) /\ Len(<<a>> \o <<b>>) = 2 /\ Len(<<a, b>>) = 2
        /\ (<<a>> \o <<b>>)[1] = a /\ (<<a>> \o <<b>>)[2] = b
        /\ <<a, b>>[1] = a /\ <<a, b>>[2] = b
    OBVIOUS
  <2>2. \A i \in 1..2 : i = 1 \/ i = 2
    OBVIOUS
  <2> QED
    BY <1>1, <2>1, <2>2, SeqEqual
<1> QED BY <1>1, <1>2, <1>3, <1>4, <1>5

-----------------------------------------------------------------------------
(* Sequences *)

\* The empty sequence has no elements.
LEMMA NoneIn == ToSet(<<>>) = {}
BY DEF ToSet

\* (Nor has one of no length.)
LEMMA NothingLong == ASSUME NEW X, NEW s \in Seq(X), Len(s) = 0 PROVE ToSet(s) = {}
<1>1. s = <<>>
  OBVIOUS
<1> QED
  BY <1>1, NoneIn

\* Sequences of one length and with the same elements are one.
LEMMA SequenceSame ==
  ASSUME NEW X, NEW s \in Seq(X), NEW t \in Seq(X), Len(s) = Len(t), \A i \in 1..Len(s) : s[i] = t[i]
  PROVE  s = t
OBVIOUS

\* Where the elements of two sequences are when they are joined.
LEMMA Concats ==
  ASSUME NEW X, NEW s \in Seq(X), NEW t \in Seq(X)
  PROVE  /\ s \o t \in Seq(X) /\ Len(s \o t) = Len(s) + Len(t)
         /\ \A i \in 1..Len(s) : (s \o t)[i] = s[i]
         /\ \A i \in 1..Len(t) : (s \o t)[Len(s) + i] = t[i]
OBVIOUS

\* The elements of a sequence.
LEMMA ToSetOf == ASSUME NEW X, NEW s \in Seq(X) PROVE \A x : x \in ToSet(s) <=> \E i \in 1..Len(s) : x = s[i]
<1>1. DOMAIN s = 1..Len(s)
  OBVIOUS
<1> QED
  BY <1>1 DEF ToSet

-----------------------------------------------------------------------------
(* What is made of the elements of a sequence, joined *)

\* What f makes of the elements of s, joined; and a sequence of one.
Spread(s, f) == FlattenSeq([i \in 1..Len(s) |-> f[s[i]]])
One(x) == <<x>>

\* A sequence of one element.
LEMMA OneOf == ASSUME NEW X, NEW x \in X
  PROVE One(x) \in Seq(X) /\ Len(One(x)) = 1 /\ One(x)[1] = x /\ One(x) # <<>> /\ ToSet(One(x)) = {x}
<1>1. One(x) \in Seq(X) /\ Len(One(x)) = 1 /\ One(x)[1] = x /\ DOMAIN One(x) = {1}
  BY DEF One
<1>2. One(x) # <<>>
  <2>1. Len(One(x)) # Len(<<>>)
    BY <1>1
  <2> QED
    BY <2>1
<1>3. ToSet(One(x)) = {x}
  BY <1>1 DEF ToSet
<1> QED
  BY <1>1, <1>2, <1>3

\* What f makes of each element.
LEMMA SpreadsWhat ==
  ASSUME NEW X, NEW Y, NEW f \in [X -> Seq(Y)], NEW s \in Seq(X)
  PROVE  /\ [i \in 1..Len(s) |-> f[s[i]]] \in Seq(Seq(Y))
         /\ Len([i \in 1..Len(s) |-> f[s[i]]]) = Len(s)
<1>1. Len(s) \in Nat /\ \A i \in 1..Len(s) : s[i] \in X
  OBVIOUS
<1>2. \A i \in 1..Len(s) : f[s[i]] \in Seq(Y)
  BY <1>1
<1> QED
  BY <1>1, <1>2

\* What is made of a sequence, of nothing, of one element more, of one, of two
\* sequences joined; by functions that agree; and by two functions in turn.
LEMMA SpreadType ==
  ASSUME NEW X, NEW Y, NEW f \in [X -> Seq(Y)], NEW s \in Seq(X)
  PROVE  Spread(s, f) \in Seq(Y)
<1> DEFINE g == [i \in 1..Len(s) |-> f[s[i]]]
<1>1. g \in Seq(Seq(Y))
  BY SpreadsWhat
<1> HIDE DEF g
<1>2. FlattenSeq(g) \in Seq(Y)
  BY <1>1, FlattenType
<1> QED
  BY <1>2 DEF Spread, g

\* (Of nothing.)
LEMMA SpreadNothing == ASSUME NEW f PROVE Spread(<<>>, f) = <<>>
<1>1. [i \in 1..Len(<<>>) |-> f[<<>>[i]]] = <<>>
  OBVIOUS
<1> QED
  BY <1>1, FlattenEmpty DEF Spread

\* (Of one element more.)
LEMMA SpreadMore ==
  ASSUME NEW X, NEW Y, NEW f \in [X -> Seq(Y)], NEW s \in Seq(X), NEW x \in X
  PROVE  Spread(Append(s, x), f) = Spread(s, f) \o f[x]
<1> DEFINE more == Append(s, x)
           n == Len(s)
           a == [i \in 1..Len(more) |-> f[more[i]]]
           b == [i \in 1..n |-> f[s[i]]]
<1>1. n \in Nat /\ Len(more) = n + 1 /\ more \in Seq(X) /\ more[n + 1] = x
      /\ (\A i \in 1..n : more[i] = s[i] /\ s[i] \in X) /\ f[x] \in Seq(Y)
  OBVIOUS
<1>2. a \in Seq(Seq(Y)) /\ b \in Seq(Seq(Y))
  BY <1>1, SpreadsWhat
<1> HIDE DEF more, n
<1>3. DOMAIN a = 1..(n + 1) /\ a[n + 1] = f[x] /\ b = [i \in 1..n |-> a[i]]
  BY <1>1
<1> HIDE DEF a
<1>4. a = Append(b, f[x])
  BY <1>1, <1>2, <1>3, MapAppend
<1> HIDE DEF b
<1>5. FlattenSeq(a) = FlattenSeq(b) \o f[x]
  BY <1>1, <1>2, <1>4, FlattenAppend
<1> QED
  BY <1>5 DEF Spread, a, b, more, n

\* (Of one.)
LEMMA SpreadOne ==
  ASSUME NEW X, NEW Y, NEW f \in [X -> Seq(Y)], NEW x \in X
  PROVE  Spread(One(x), f) = f[x]
<1>1. <<>> \in Seq(X) /\ One(x) = Append(<<>>, x)
  BY DEF One
<1>2. Spread(Append(<<>>, x), f) = Spread(<<>>, f) \o f[x]
  BY <1>1, SpreadMore
<1>3. f[x] \in Seq(Y) /\ <<>> \o f[x] = f[x]
  OBVIOUS
<1> QED
  BY <1>1, <1>2, <1>3, SpreadNothing

\* (Of two sequences joined.)
LEMMA SpreadConcat ==
  ASSUME NEW X, NEW Y, NEW f \in [X -> Seq(Y)], NEW s \in Seq(X), NEW t \in Seq(X)
  PROVE  Spread(s \o t, f) = Spread(s, f) \o Spread(t, f)
<1> DEFINE T == {u \in Seq(X) : Spread(s \o u, f) = Spread(s, f) \o Spread(u, f)}
<1>1. Spread(s, f) \in Seq(Y) /\ \A u \in Seq(X) : Spread(u, f) \in Seq(Y)
  BY SpreadType
<1>2. <<>> \in T
  <2>1. s \o <<>> = s /\ Spread(s, f) \o <<>> = Spread(s, f) /\ <<>> \in Seq(X)
    BY <1>1, ConcatEmptySeq
  <2> QED
    BY <2>1, SpreadNothing
<1>3. ASSUME NEW u \in Seq(X) \cap T, NEW x \in X PROVE Append(u, x) \in T
  <2>1. u \in Seq(X) /\ Append(u, x) \in Seq(X) /\ s \o u \in Seq(X) /\ f[x] \in Seq(Y)
    OBVIOUS
  <2>2. s \o Append(u, x) = Append(s \o u, x)
    BY <2>1, AppendsLater, SMTT(40)
  <2>3. Spread(Append(s \o u, x), f) = Spread(s \o u, f) \o f[x]
    BY <2>1, SpreadMore
  <2>4. Spread(Append(u, x), f) = Spread(u, f) \o f[x]
    BY <2>1, SpreadMore
  <2>5. Spread(u, f) \in Seq(Y)
    BY <1>1
  <2> DEFINE a == Spread(s, f)
             b == Spread(u, f)
             c == f[x]
  <2>6. (a \o b) \o c = a \o (b \o c)
    <3>1. a \in Seq(Y) /\ b \in Seq(Y) /\ c \in Seq(Y)
      BY <1>1, <2>1, <2>5
    <3> HIDE DEF a, b, c, T
    <3> QED
      BY <3>1, Associates, SMTT(40)
  <2> QED
    BY <1>3, <2>1, <2>2, <2>3, <2>4, <2>6
<1> HIDE DEF T
<1>4. \A u \in Seq(X) : u \in T
  BY <1>2, <1>3, AllSequences
<1> QED
  BY <1>4 DEF T

\* (By functions that agree.)
LEMMA SpreadSame ==
  ASSUME NEW s, NEW f, NEW g, \A i \in 1..Len(s) : f[s[i]] = g[s[i]]
  PROVE  Spread(s, f) = Spread(s, g)
<1>1. [i \in 1..Len(s) |-> f[s[i]]] = [i \in 1..Len(s) |-> g[s[i]]]
  OBVIOUS
<1> QED
  BY <1>1 DEF Spread

\* f makes a sequence of every element; h is what f makes, then g; f makes one, by h.
Makes(f, X, Y) == f \in [X -> Seq(Y)]
EachIs(h, f, g, X) == \A x \in X : h[x] = Spread(f[x], g)
Singly(f, h, X) == \A x \in X : f[x] = One(h[x])

\* (By two functions in turn.)
LEMMA SpreadTwice ==
  ASSUME NEW X, NEW Y, NEW Z, NEW f, NEW g, NEW h, NEW s, Makes(f, X, Y), Makes(g, Y, Z),
         EachIs(h, f, g, X), s \in Seq(X)
  PROVE  Spread(Spread(s, f), g) = Spread(s, h)
<1> USE DEF Makes, EachIs
<1> DEFINE k == [x \in X |-> Spread(f[x], g)]
           T == {u \in Seq(X) : Spread(Spread(u, f), g) = Spread(u, k)}
<1>1. k \in [X -> Seq(Z)]
  <2>1. \A x \in X : Spread(f[x], g) \in Seq(Z)
    BY SpreadType
  <2> QED
    BY <2>1
<1>2. <<>> \in T
  BY SpreadNothing
<1>3. ASSUME NEW u \in Seq(X) \cap T, NEW x \in X PROVE Append(u, x) \in T
  <2>1. u \in Seq(X) /\ Append(u, x) \in Seq(X) /\ f[x] \in Seq(Y) /\ k[x] = Spread(f[x], g)
    OBVIOUS
  <2>2. Spread(u, f) \in Seq(Y)
    BY <2>1, SpreadType
  <2>3. Spread(Append(u, x), f) = Spread(u, f) \o f[x]
    <3> HIDE DEF T, k
    <3> QED
      BY <2>1, SpreadMore, ZenonT(40)
  <2> DEFINE a == Spread(u, f)
             b == f[x]
  <2>4. Spread(a \o b, g) = Spread(a, g) \o Spread(b, g)
    <3>1. a \in Seq(Y) /\ b \in Seq(Y)
      BY <2>1, <2>2
    <3> HIDE DEF a, b, k, T
    <3> QED
      BY <3>1, SpreadConcat, ZenonT(40)
  <2> HIDE DEF k, T
  <2>5. Spread(Append(u, x), k) = Spread(u, k) \o k[x]
    BY <1>1, <2>1, SpreadMore, ZenonT(40)
  <2> QED
    BY <1>3, <2>1, <2>3, <2>4, <2>5 DEF T
<1> HIDE DEF T
<1>4. \A u \in Seq(X) : u \in T
  BY <1>2, <1>3, AllSequences
<1>5. \A i \in 1..Len(s) : k[s[i]] = h[s[i]]
  OBVIOUS
<1> HIDE DEF k
<1>6. Spread(s, k) = Spread(s, h)
  BY <1>5, SpreadSame
<1> QED
  BY <1>4, <1>6 DEF T

\* The elements of two sequences joined.
LEMMA HasMore ==
  ASSUME NEW X, NEW s \in Seq(X), NEW t \in Seq(X)
  PROVE  ToSet(s \o t) = ToSet(s) \cup ToSet(t)
<1>1. /\ DOMAIN s = 1..Len(s) /\ DOMAIN t = 1..Len(t) /\ DOMAIN (s \o t) = 1..(Len(s) + Len(t))
      /\ Len(s) \in Nat /\ Len(t) \in Nat
      /\ \A i \in 1..Len(s) : (s \o t)[i] = s[i]
      /\ \A i \in 1..Len(t) : (s \o t)[Len(s) + i] = t[i]
  OBVIOUS
<1>2. ASSUME NEW i \in 1..(Len(s) + Len(t)) PROVE (s \o t)[i] \in ToSet(s) \cup ToSet(t)
  <2>1. CASE i <= Len(s)
    <3>1. i \in 1..Len(s)
      BY <1>1, <2>1
    <3>2. (s \o t)[i] = s[i]
      BY <1>1, <3>1
    <3> QED
      BY <1>1, <3>1, <3>2 DEF ToSet
  <2>2. CASE i > Len(s)
    <3>1. i - Len(s) \in 1..Len(t) /\ Len(s) + (i - Len(s)) = i
      BY <1>1, <2>2
    <3>2. (s \o t)[i] = t[i - Len(s)]
      BY <1>1, <3>1
    <3> QED
      BY <1>1, <3>1, <3>2 DEF ToSet
  <2> QED
    BY <1>1, <2>1, <2>2
<1>3. \A i \in 1..Len(s) : s[i] \in ToSet(s \o t)
  <2> TAKE i \in 1..Len(s)
  <2>1. i \in DOMAIN (s \o t) /\ (s \o t)[i] = s[i]
    BY <1>1
  <2> QED
    BY <2>1 DEF ToSet
<1>4. \A i \in 1..Len(t) : t[i] \in ToSet(s \o t)
  <2> TAKE i \in 1..Len(t)
  <2>1. Len(s) + i \in DOMAIN (s \o t) /\ (s \o t)[Len(s) + i] = t[i]
    BY <1>1
  <2> QED
    BY <2>1 DEF ToSet
<1> QED
  BY <1>1, <1>2, <1>3, <1>4, ZenonT(40) DEF ToSet

\* The elements of what is made of a sequence are those made of one of its elements.
LEMMA SpreadHas ==
  ASSUME NEW X, NEW Y, NEW f \in [X -> Seq(Y)], NEW s \in Seq(X)
  PROVE  \A y : y \in ToSet(Spread(s, f)) <=> \E i \in 1..Len(s) : y \in ToSet(f[s[i]])
<1> DEFINE T == {u \in Seq(X) : \A y : y \in ToSet(Spread(u, f))
                                       <=> \E x \in ToSet(u) : y \in ToSet(f[x])}
<1>1. <<>> \in T
  <2>1. ToSet(<<>>) = {} /\ <<>> \in Seq(X)
    BY DEF ToSet
  <2> QED
    BY <2>1, SpreadNothing
<1>2. ASSUME NEW u \in Seq(X) \cap T, NEW x \in X PROVE Append(u, x) \in T
  <2>1. u \in Seq(X) /\ Append(u, x) \in Seq(X) /\ f[x] \in Seq(Y)
    OBVIOUS
  <2>2. Spread(u, f) \in Seq(Y)
    BY <2>1, SpreadType
  <2>3. Spread(Append(u, x), f) = Spread(u, f) \o f[x]
    BY <2>1, SpreadMore
  <2>4. ToSet(Spread(u, f) \o f[x]) = ToSet(Spread(u, f)) \cup ToSet(f[x])
    BY <2>1, <2>2, HasMore
  <2>5. ToSet(Append(u, x)) = ToSet(u) \cup {x}
    <3>1. Append(u, x) = u \o One(x)
      BY <2>1, AppendIsConcat DEF One
    <3>2. One(x) \in Seq(X) /\ ToSet(One(x)) = {x}
      BY OneOf
    <3> QED
      BY <2>1, <3>1, <3>2, HasMore
  <2>6. \A y : y \in ToSet(Spread(u, f)) <=> \E z \in ToSet(u) : y \in ToSet(f[z])
    BY <1>2
  <2>7. \A y : y \in ToSet(Spread(Append(u, x), f)) <=> \E z \in ToSet(Append(u, x)) : y \in ToSet(f[z])
    <3> HIDE DEF T
    <3> QED
      BY <2>3, <2>4, <2>5, <2>6
  <2> QED
    BY <2>1, <2>7
<1> HIDE DEF T
<1>3. \A u \in Seq(X) : u \in T
  BY <1>1, <1>2, AllSequences
<1>4. \A y : y \in ToSet(Spread(s, f)) <=> \E x \in ToSet(s) : y \in ToSet(f[x])
  BY <1>3 DEF T
<1>5. \A x : x \in ToSet(s) <=> \E i \in 1..Len(s) : x = s[i]
  <2>1. DOMAIN s = 1..Len(s)
    OBVIOUS
  <2> QED
    BY <2>1 DEF ToSet
<1> QED
  BY <1>4, <1>5

\* One for one.
LEMMA SpreadEach ==
  ASSUME NEW X, NEW Y, NEW f, NEW h \in [X -> Y], NEW s \in Seq(X), Singly(f, h, X)
  PROVE  /\ Spread(s, f) \in Seq(Y) /\ Len(Spread(s, f)) = Len(s)
         /\ \A i \in 1..Len(s) : Spread(s, f)[i] = h[s[i]]
<1> DEFINE g == [x \in X |-> One(h[x])]
           T == {u \in Seq(X) : Spread(u, g) = [i \in 1..Len(u) |-> h[u[i]]]}
<1> USE DEF Singly
<1>1. g \in [X -> Seq(Y)]
  <2>1. \A x \in X : One(h[x]) \in Seq(Y)
    BY OneOf
  <2> QED
    BY <2>1
<1>2. <<>> \in T
  <2>1. [i \in 1..Len(<<>>) |-> h[<<>>[i]]] = <<>> /\ <<>> \in Seq(X)
    OBVIOUS
  <2> QED
    BY <2>1, SpreadNothing
<1>3. ASSUME NEW u \in Seq(X) \cap T, NEW x \in X PROVE Append(u, x) \in T
  <2> DEFINE n == Len(u)
             more == Append(u, x)
             a == [i \in 1..Len(more) |-> h[more[i]]]
             b == [i \in 1..n |-> h[u[i]]]
  <2>1. /\ u \in Seq(X) /\ more \in Seq(X) /\ n \in Nat /\ Len(more) = n + 1
        /\ more[n + 1] = x /\ \A i \in 1..n : more[i] = u[i] /\ u[i] \in X
    OBVIOUS
  <2>2. g[x] = One(h[x]) /\ h[x] \in Y
    OBVIOUS
  <2> HIDE DEF g
  <2>3. Spread(more, g) = Spread(u, g) \o One(h[x])
    <3>1. Spread(Append(u, x), g) = Spread(u, g) \o g[x]
      <4>1. u \in Seq(X)
        OBVIOUS
      <4> HIDE DEF T
      <4> QED
        BY <1>1, <4>1, SpreadMore, ZenonT(40)
    <3> QED
      BY <2>2, <3>1
  <2>4. Spread(u, g) = b
    BY <1>3
  <2> HIDE DEF more, n, T
  <2>5. b \in Seq(Y)
    <3>1. \A i \in 1..n : h[u[i]] \in Y
      BY <2>1
    <3>2. b \in [1..n -> Y]
      BY <3>1
    <3> HIDE DEF b
    <3> QED
      BY <2>1, <3>2
  <2>6. b \o One(h[x]) = Append(b, h[x])
    BY <2>2, <2>5, AppendIsConcat DEF One
  <2>7. a \in Seq(Y) /\ DOMAIN a = 1..(n + 1) /\ a[n + 1] = h[x] /\ b = [i \in 1..n |-> a[i]]
    <3>1. \A i \in 1..(n + 1) : more[i] \in X
      BY <2>1
    <3> QED
      BY <2>1, <3>1
  <2> HIDE DEF a
  <2>8. a = Append(b, h[x])
    BY <2>1, <2>2, <2>7, MapAppend
  <2> HIDE DEF b
  <2>9. Spread(more, g) = a
    BY <2>3, <2>4, <2>6, <2>8
  <2> QED
    BY <2>1, <2>9 DEF T, a, more
<1> HIDE DEF T
<1>4. \A u \in Seq(X) : u \in T
  BY <1>2, <1>3, AllSequences
<1>5. Spread(s, f) = Spread(s, g)
  <2>1. \A i \in 1..Len(s) : s[i] \in X
    OBVIOUS
  <2>2. \A i \in 1..Len(s) : f[s[i]] = g[s[i]]
    BY <2>1
  <2> HIDE DEF g
  <2> QED
    BY <2>2, SpreadSame
<1>6. Spread(s, f) = [i \in 1..Len(s) |-> h[s[i]]]
  BY <1>4, <1>5 DEF T
<1>7. (\A i \in 1..Len(s) : s[i] \in X) /\ Len(s) \in Nat
  OBVIOUS
<1> QED
  BY <1>6, <1>7

\* One element, joined with nothing.
LEMMA OneAfter == ASSUME NEW x PROVE <<>> \o One(x) = One(x) /\ One(x) \o <<>> = One(x)
<1>1. One(x) \in Seq({x})
  BY OneOf
<1> QED
  BY <1>1, ConcatEmptySeq

\* The i-th of what ss joins is the r-th of its j-th; what its next one has follows the j-th.
Placed(ss, F, i, j, r) ==
  /\ j \in 1..Len(ss) /\ r \in 1..Len(ss[j])
  /\ F[i] = ss[j][r]
  /\ j = Len(ss) => i - r + Len(ss[j]) = Len(F)
  /\ j < Len(ss) =>
       /\ i - r + Len(ss[j]) + Len(ss[j + 1]) <= Len(F)
       /\ \A n \in 1..Len(ss[j + 1]) : F[i - r + Len(ss[j]) + n] = ss[j + 1][n]

\* Every element of what is joined has a place in one of the parts.
LEMMA FlattenPlaces ==
  ASSUME NEW S, NEW ss \in Seq(Seq(S))
  PROVE  \A i \in 1..Len(FlattenSeq(ss)) : \E j, r \in Nat : Placed(ss, FlattenSeq(ss), i, j, r)
<1> DEFINE Fine(tt) == \A i \in 1..Len(FlattenSeq(tt)) : \E j, r \in Nat : Placed(tt, FlattenSeq(tt), i, j, r)
           T == {tt \in Seq(Seq(S)) : Fine(tt)}
<1>1. <<>> \in T
  <2>1. <<>> \in Seq(Seq(S)) /\ Len(<<>>) = 0
    OBVIOUS
  <2>2. Fine(<<>>)
    BY <2>1, FlattenEmpty
  <2> QED
    BY <2>1, <2>2
<1>2. ASSUME NEW tt \in Seq(Seq(S)) \cap T, NEW s \in Seq(S) PROVE Append(tt, s) \in T
  <2> DEFINE more == Append(tt, s)
             F == FlattenSeq(tt)
             G == FlattenSeq(more)
             m == Len(tt)
  <2>1. /\ tt \in Seq(Seq(S)) /\ more \in Seq(Seq(S)) /\ m \in Nat /\ Len(more) = m + 1
        /\ more[m + 1] = s /\ \A j \in 1..m : more[j] = tt[j] /\ tt[j] \in Seq(S)
    OBVIOUS
  <2>2. F \in Seq(S)
    BY <2>1, FlattenType
  <2>3. G = F \o s
    BY <2>1, FlattenAppend
  <2>4. \A i \in 1..Len(F) : \E j, r \in Nat : Placed(tt, F, i, j, r)
    OBVIOUS
  <2> HIDE DEF more, F, m
  <2>5. /\ Len(F) \in Nat /\ Len(s) \in Nat /\ Len(F \o s) = Len(F) + Len(s)
        /\ \A i \in 1..Len(F) : (F \o s)[i] = F[i]
        /\ \A i \in 1..Len(s) : (F \o s)[Len(F) + i] = s[i]
    BY <2>2
  <2> HIDE DEF G
  <2>6. ASSUME NEW i \in 1..Len(G) PROVE \E j, r \in Nat : Placed(more, G, i, j, r)
    <3>1. CASE i <= Len(F)
      <4>1. i \in 1..Len(F)
        BY <2>3, <2>5, <3>1
      <4>2. PICK j, r \in Nat : Placed(tt, F, i, j, r)
        BY <2>4, <4>1
      <4> DEFINE L == Len(tt[j])
                 N == Len(tt[j + 1])
      <4>3. /\ j \in 1..m /\ r \in 1..L /\ F[i] = tt[j][r]
            /\ j = m => i - r + L = Len(F)
            /\ j < m => /\ i - r + L + N <= Len(F)
                        /\ \A n \in 1..N : F[i - r + L + n] = tt[j + 1][n]
        BY <4>2 DEF Placed, m
      <4>4. more[j] = tt[j] /\ j \in 1..(m + 1) /\ G[i] = F[i] /\ L \in Nat /\ j # m + 1
            /\ Len(more[j]) = L
        <5>1. j \in 1..m
          BY <4>3
        <5>2. more[j] = tt[j] /\ tt[j] \in Seq(S)
          BY <2>1, <5>1
        <5>3. L \in Nat /\ Len(more[j]) = L
          BY <5>2
        <5>4. j \in 1..(m + 1) /\ j # m + 1
          BY <2>1, <5>1
        <5>5. G[i] = F[i]
          BY <2>3, <2>5, <4>1
        <5> QED
          BY <5>2, <5>3, <5>4, <5>5
      <4>5. CASE j = m
        <5>1. more[j + 1] = s /\ i - r + Len(more[j]) = Len(F) /\ j # Len(more)
          BY <2>1, <4>3, <4>4, <4>5
        <5>2. \A n \in 1..Len(s) : G[Len(F) + n] = s[n]
          BY <2>3, <2>5
        <5>3. Len(F) + Len(s) = Len(G) /\ Len(F) + Len(s) <= Len(G)
          BY <2>3, <2>5
        <5> HIDE DEF L
        <5>4. Placed(more, G, i, j, r)
          BY <2>1, <4>3, <4>4, <5>1, <5>2, <5>3 DEF Placed
        <5> QED
          BY <5>4
      <4>6. CASE j < m
        <5>1. j + 1 \in 1..m /\ more[j + 1] = tt[j + 1] /\ N \in Nat /\ Len(more[j + 1]) = N
          <6>1. j + 1 \in 1..m
            <7>1. j \in 1..m
              BY <4>3
            <7> QED
              BY <2>1, <4>6, <7>1
          <6>2. more[j + 1] = tt[j + 1] /\ tt[j + 1] \in Seq(S)
            BY <2>1, <6>1
          <6>3. N \in Nat /\ Len(more[j + 1]) = N
            BY <6>2
          <6> QED
            BY <6>1, <6>2, <6>3
        <5> HIDE DEF L, N
        <5>2. i - r + L + N <= Len(G)
          BY <2>3, <2>5, <4>3, <4>4, <4>6, <5>1
        <5>3. \A n \in 1..N : G[i - r + L + n] = tt[j + 1][n]
          <6> TAKE n \in 1..N
          <6>1. i - r + L + n \in 1..Len(F)
            <7>1. r \in Nat /\ r <= L /\ i \in Nat /\ i >= 1 /\ n \in Nat /\ n <= N /\ n >= 1
              BY <4>1, <4>3, <4>4, <5>1
            <7>2. i - r + L + N <= Len(F) /\ L \in Nat /\ N \in Nat /\ Len(F) \in Nat
              BY <4>3, <4>4, <4>6, <5>1, <2>5
            <7> QED
              BY <7>1, <7>2
          <6>2. G[i - r + L + n] = F[i - r + L + n]
            BY <2>3, <2>5, <6>1
          <6> QED
            BY <4>3, <4>6, <6>2
        <5>4. j # Len(more)
          BY <2>1, <4>4
        <5>5. Placed(more, G, i, j, r)
          BY <2>1, <4>3, <4>4, <5>1, <5>2, <5>3, <5>4 DEF Placed
        <5> QED
          BY <5>5
      <4> QED
        BY <4>3, <4>5, <4>6, <2>1
    <3>2. CASE i > Len(F)
      <4> DEFINE r == i - Len(F)
                 j == m + 1
      <4>1. r \in 1..Len(s) /\ Len(F) + r = i /\ r \in Nat /\ j \in Nat /\ j \in 1..(m + 1)
        BY <2>1, <2>3, <2>5, <3>2
      <4>2. G[i] = s[r]
        BY <2>3, <2>5, <4>1
      <4>3. i - r + Len(s) = Len(G)
        BY <2>3, <2>5, <4>1
      <4>4. more[j] = s /\ Len(more) = j
        BY <2>1
      <4> HIDE DEF j, r
      <4>5. Placed(more, G, i, j, r)
        <5>1. ~(j < Len(more))
          BY <4>4, <4>1
        <5> QED
          BY <4>1, <4>2, <4>3, <4>4, <5>1 DEF Placed, G, j
      <4> QED
        BY <4>1, <4>5
    <3> QED
      BY <3>1, <3>2, <2>3, <2>5
  <2>7. Fine(more)
    BY <2>6 DEF G
  <2> QED
    BY <2>1, <2>7 DEF more
<1> HIDE DEF T
<1>3. \A tt \in Seq(Seq(S)) : tt \in T
  BY <1>1, <1>2, AllSequences
<1> QED
  BY <1>3 DEF T

\* Where the j-th has the key j throughout, keys never fall; and they rise where none
\* has more than one.
LEMMA FlattenRises ==
  ASSUME NEW S, NEW key \in [S -> Nat], NEW ss \in Seq(Seq(S)),
         \A j \in 1..Len(ss) : \A r \in 1..Len(ss[j]) : key[ss[j][r]] = j
  PROVE  \A a, b \in 1..Len(FlattenSeq(ss)) : a < b =>
           /\ key[FlattenSeq(ss)[a]] <= key[FlattenSeq(ss)[b]]
           /\ (\A j \in 1..Len(ss) : Len(ss[j]) <= 1)
                => key[FlattenSeq(ss)[a]] < key[FlattenSeq(ss)[b]]
<1> DEFINE Keyed(tt) == \A j \in 1..Len(tt) : \A r \in 1..Len(tt[j]) : key[tt[j][r]] = j
           Single(tt) == \A j \in 1..Len(tt) : Len(tt[j]) <= 1
           Upto(tt) == \A a \in 1..Len(FlattenSeq(tt)) : key[FlattenSeq(tt)[a]] <= Len(tt)
           Rises(tt) == \A a, b \in 1..Len(FlattenSeq(tt)) : a < b =>
                          /\ key[FlattenSeq(tt)[a]] <= key[FlattenSeq(tt)[b]]
                          /\ Single(tt) => key[FlattenSeq(tt)[a]] < key[FlattenSeq(tt)[b]]
           T == {tt \in Seq(Seq(S)) : Keyed(tt) => Upto(tt) /\ Rises(tt)}
<1>1. <<>> \in T
  <2>1. <<>> \in Seq(Seq(S)) /\ Len(<<>>) = 0 /\ FlattenSeq(<<>>) = <<>>
    BY FlattenEmpty
  <2> QED
    BY <2>1
<1>2. ASSUME NEW tt \in Seq(Seq(S)) \cap T, NEW s \in Seq(S) PROVE Append(tt, s) \in T
  <2> DEFINE more == Append(tt, s)
             F == FlattenSeq(tt)
             G == FlattenSeq(more)
             m == Len(tt)
  <2>1. /\ tt \in Seq(Seq(S)) /\ more \in Seq(Seq(S)) /\ m \in Nat /\ Len(more) = m + 1
        /\ more[m + 1] = s /\ \A j \in 1..m : more[j] = tt[j] /\ tt[j] \in Seq(S)
    OBVIOUS
  <2>2. F \in Seq(S)
    BY <2>1, FlattenType
  <2>3. G = F \o s
    BY <2>1, FlattenAppend
  <2>4. Keyed(tt) => Upto(tt) /\ Rises(tt)
    OBVIOUS
  <2> HIDE DEF more, F, m, T
  <2>5. /\ Len(F) \in Nat /\ Len(s) \in Nat /\ Len(F \o s) = Len(F) + Len(s)
        /\ \A i \in 1..Len(F) : (F \o s)[i] = F[i] /\ F[i] \in S
        /\ \A i \in 1..Len(s) : (F \o s)[Len(F) + i] = s[i] /\ s[i] \in S
    BY <2>2
  <2> HIDE DEF G, Keyed, Upto, Rises, Single
  <2>6. ASSUME Keyed(more) PROVE Upto(more) /\ Rises(more)
    <3>1. Keyed(tt)
      <4>1. \A j \in 1..m : j \in 1..(m + 1)
        BY <2>1
      <4> QED
        BY <2>1, <2>6, <4>1 DEF Keyed, m
    <3>2. \A r \in 1..Len(s) : key[s[r]] = m + 1
      <4>1. m + 1 \in 1..(m + 1)
        BY <2>1
      <4> QED
        BY <2>1, <2>6, <4>1 DEF Keyed
    <3>3. \A a \in 1..Len(F) : key[F[a]] <= m
      BY <2>4, <3>1 DEF Upto, F, m
    <3>4. \A a, b \in 1..Len(F) : a < b =>
            key[F[a]] <= key[F[b]] /\ (Single(tt) => key[F[a]] < key[F[b]])
      BY <2>4, <3>1 DEF Rises, F
    <3>5. Single(more) => Single(tt) /\ Len(s) <= 1
      <4>1. \A j \in 1..m : j \in 1..(m + 1)
        BY <2>1
      <4>2. m + 1 \in 1..(m + 1)
        BY <2>1
      <4> QED
        BY <2>1, <4>1, <4>2 DEF Single, m
    <3>6. \A a \in 1..Len(G) : \/ a \in 1..Len(F) /\ G[a] = F[a]
                               \/ a - Len(F) \in 1..Len(s) /\ G[a] = s[a - Len(F)]
      <4> TAKE a \in 1..Len(G)
      <4>1. CASE a <= Len(F)
        BY <2>3, <2>5, <4>1
      <4>2. CASE a > Len(F)
        <5>1. a - Len(F) \in 1..Len(s) /\ Len(F) + (a - Len(F)) = a
          BY <2>3, <2>5, <4>2
        <5> QED
          BY <2>3, <2>5, <5>1
      <4> QED
        BY <2>3, <2>5, <4>1, <4>2
    <3>7. \A a \in 1..Len(F) : key[F[a]] \in Nat
      BY <2>5
    <3>8. Upto(more)
      <4>1. ASSUME NEW a \in 1..Len(G) PROVE key[G[a]] <= m + 1
        <5>1. CASE a \in 1..Len(F) /\ G[a] = F[a]
          BY <3>3, <3>7, <5>1, <2>1
        <5>2. CASE a - Len(F) \in 1..Len(s) /\ G[a] = s[a - Len(F)]
          <6>1. key[G[a]] = m + 1
            BY <3>2, <5>2
          <6> QED
            BY <2>1, <6>1
        <5> QED
          BY <3>6, <5>1, <5>2
      <4> QED
        BY <4>1, <2>1 DEF Upto, G
    <3>9. ASSUME NEW a \in 1..Len(G), NEW b \in 1..Len(G), a < b
          PROVE  key[G[a]] <= key[G[b]] /\ (Single(more) => key[G[a]] < key[G[b]])
      <4>1. CASE b \in 1..Len(F) /\ G[b] = F[b]
        <5>1. a \in 1..Len(F) /\ G[a] = F[a]
          BY <2>3, <2>5, <3>9, <4>1
        <5> QED
          BY <3>4, <3>5, <3>9, <4>1, <5>1
      <4>2. CASE b - Len(F) \in 1..Len(s) /\ G[b] = s[b - Len(F)]
        <5>1. key[G[b]] = m + 1
          BY <3>2, <4>2
        <5>2. CASE a \in 1..Len(F) /\ G[a] = F[a]
          BY <3>3, <3>7, <5>1, <5>2, <2>1, SMTT(40)
        <5>3. CASE a - Len(F) \in 1..Len(s) /\ G[a] = s[a - Len(F)]
          <6>1. key[G[a]] = m + 1
            BY <3>2, <5>3
          <6>2. ~(Len(s) <= 1)
            BY <2>5, <3>9, <4>2, <5>3
          <6> QED
            BY <2>1, <3>5, <5>1, <6>1, <6>2
        <5> QED
          BY <3>6, <5>2, <5>3
      <4> QED
        BY <3>6, <4>1, <4>2
    <3> QED
      BY <3>8, <3>9 DEF Rises, G
  <2> QED
    BY <2>1, <2>6 DEF T, more
<1> HIDE DEF T
<1>3. \A tt \in Seq(Seq(S)) : tt \in T
  BY <1>1, <1>2, AllSequences
<1> QED
  BY <1>3 DEF T

\* The numbers up to n, in order.
Numbers(n) == [j \in 1..n |-> j]

\* To join n sequences is to spread the numbers of them.
LEMMA FlattenIsSpread ==
  ASSUME NEW n \in Nat, NEW X, NEW G \in [1..n -> Seq(X)]
  PROVE  /\ Numbers(n) \in Seq(1..n) /\ FlattenSeq(G) = Spread(Numbers(n), G)
         /\ G \in Seq(Seq(X)) /\ Len(G) = n /\ FlattenSeq(G) \in Seq(X)
<1>1. Numbers(n) \in Seq(1..n) /\ Len(Numbers(n)) = n /\ \A i \in 1..n : Numbers(n)[i] = i
  BY DEF Numbers
<1>2. [i \in 1..Len(Numbers(n)) |-> G[Numbers(n)[i]]] = [i \in 1..n |-> G[i]]
  BY <1>1
<1>3. G = [i \in 1..n |-> G[i]]
  OBVIOUS
<1>4. FlattenSeq(G) = Spread(Numbers(n), G)
  BY <1>2, <1>3 DEF Spread
<1>5. G \in Seq(Seq(X)) /\ Len(G) = n
  OBVIOUS
<1>6. FlattenSeq(G) \in Seq(X)
  BY <1>5, FlattenType
<1> QED
  BY <1>1, <1>4, <1>5, <1>6

\* What f makes of what is joined is what it makes of each, joined.
LEMMA FlattenSpread ==
  ASSUME NEW n \in Nat, NEW X, NEW Y, NEW G, NEW f, NEW K,
         Makes(G, 1..n, X), Makes(f, X, Y), Makes(K, 1..n, Y), EachIs(K, G, f, 1..n)
  PROVE  Spread(FlattenSeq(G), f) = FlattenSeq(K)
<1> DEFINE u == Numbers(n)
<1>0. G \in [1..n -> Seq(X)] /\ K \in [1..n -> Seq(Y)]
  BY DEF Makes
<1>1. u \in Seq(1..n) /\ FlattenSeq(G) = Spread(u, G)
  BY <1>0, FlattenIsSpread
<1>2. FlattenSeq(K) = Spread(u, K)
  BY <1>0, FlattenIsSpread
<1>3. Makes(G, 1..n, X)
  OBVIOUS
<1> DEFINE D == 1..n
<1>4. u \in Seq(D) /\ Makes(G, D, X) /\ EachIs(K, G, f, D)
  BY <1>1, <1>3
<1> HIDE DEF D, u
<1>5. Spread(Spread(u, G), f) = Spread(u, K)
  BY <1>4, SpreadTwice
<1> QED
  BY <1>1, <1>2, <1>5

\* The elements of what is joined are those of its parts.
LEMMA FlattenHas ==
  ASSUME NEW n \in Nat, NEW X, NEW G \in [1..n -> Seq(X)]
  PROVE  \A x : x \in ToSet(FlattenSeq(G)) <=> \E j \in 1..n : x \in ToSet(G[j])
<1>1. /\ Numbers(n) \in Seq(1..n) /\ FlattenSeq(G) = Spread(Numbers(n), G)
  BY FlattenIsSpread
<1>2. Len(Numbers(n)) = n /\ \A i \in 1..n : Numbers(n)[i] = i
  BY DEF Numbers
<1> DEFINE D == 1..n
           u == Numbers(n)
<1>3. u \in Seq(D) /\ G \in [D -> Seq(X)]
  BY <1>1
<1> HIDE DEF u, D
<1>4. \A x : x \in ToSet(Spread(u, G)) <=> \E i \in 1..Len(u) : x \in ToSet(G[u[i]])
  BY <1>3, SpreadHas
<1> QED
  BY <1>1, <1>2, <1>4 DEF u
===============================================================================
