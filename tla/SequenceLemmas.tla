---------------------------- MODULE SequenceLemmas ----------------------------
(***************************************************************************)
(* Facts that the proofs of several modules need: induction over the       *)
(* natural numbers as a fact about sets, which is the form that an SMT     *)
(* solver can use, and what the operators of the library on sequences do   *)
(* that are defined by recursion.                                          *)
(***************************************************************************)
EXTENDS SequencesExt, SequenceTheorems, FiniteSetTheorems, WellFoundedInduction, TLAPS

\* A set of numbers has a least one.
LEMMA Smallest ==
  ASSUME NEW T, T \subseteq Nat, T # {}
  PROVE  \E k \in T : \A n \in T : k <= n
<1>1. PICK k \in T : \A n \in T : <<n, k>> \notin OpToRel(<, Nat)
  BY WFMin, NatLessThanWellFounded, Zenon
<1>2. \A n \in T : ~(n < k)
  BY <1>1, Zenon DEF OpToRel
<1>3. QED
  BY <1>2

\* A set that has zero and the successor of each of its numbers has them all.
LEMMA Induction ==
  ASSUME NEW T, T \subseteq Nat, 0 \in T, \A n \in T : n + 1 \in T
  PROVE  T = Nat
<1>1. SUFFICES ASSUME Nat \ T # {}
               PROVE  FALSE
  OBVIOUS
<1>2. PICK k \in Nat \ T : \A n \in Nat \ T : k <= n
  BY <1>1, Smallest
<1>3. k - 1 \in T
  BY <1>2
<1>4. QED
  BY <1>2, <1>3

\* Induction over sequences that grow at the end.
LEMMA Growing ==
  ASSUME NEW S, NEW G, <<>> \in G, \A t \in Seq(S), x \in S : t \in G => Append(t, x) \in G
  PROVE  Seq(S) \subseteq G
<1> DEFINE T == {size \in Nat : \A t \in Seq(S) : Len(t) = size => t \in G}
<1>1. 0 \in T
  OBVIOUS
<1>2. ASSUME NEW size \in T, NEW t \in Seq(S), Len(t) = size + 1
      PROVE  t \in G
  <2>1. size \in Nat /\ t # <<>>
    BY <1>2
  <2>2. PICK p \in Seq(S), x \in S : t = Append(p, x)
    BY <2>1, SequenceEmptyOrAppend
  <2>3. Len(p) = size
    BY <1>2, <2>1, <2>2
  <2> QED
    BY <2>2, <2>3
<1>3. \A size \in T : size + 1 \in T
  BY <1>2
<1> HIDE DEF T
<1>4. T \subseteq Nat
  BY DEF T
<1>5. T = Nat
  BY <1>1, <1>3, <1>4, Induction
<1> QED
  BY <1>5 DEF T

-----------------------------------------------------------------------------
(***************************************************************************)
(* Flattening a sequence of sequences, one step at a time.                 *)
(***************************************************************************)
\* f[i] is the concatenation of the first i elements of ss, for the first n.
IsFlat(f, ss, n) == f = [i \in 1 .. n |-> IF i = 1 THEN ss[i] ELSE f[i - 1] \o ss[i]]

\* Its elements.
LEMMA FlatStep ==
  ASSUME NEW f, NEW ss, NEW n \in Nat, IsFlat(f, ss, n), NEW k \in Nat, k + 1 <= n
  PROVE  (k = 0 => f[k + 1] = ss[k + 1]) /\ (k # 0 => f[k + 1] = f[k] \o ss[k + 1])
<1>1. \A i \in 1 .. n : f[i] = IF i = 1 THEN ss[i] ELSE f[i - 1] \o ss[i]
  BY Zenon DEF IsFlat
<1>2. PICK i \in 1 .. n : i = k + 1
  OBVIOUS
<1>3. i - 1 = k /\ (i = 1 <=> k = 0)
  BY <1>2
<1>4. f[i] = IF i = 1 THEN ss[i] ELSE f[i - 1] \o ss[i]
  BY <1>1
<1>5. f[i] = IF k = 0 THEN ss[i] ELSE f[k] \o ss[i]
  BY <1>3, <1>4, Zenon
<1>6. QED
  BY <1>2, <1>5, Zenon

\* There is such a function for every n.
LEMMA FlatExists ==
  ASSUME NEW ss, NEW n \in Nat
  PROVE  \E f : IsFlat(f, ss, n)
<1> DEFINE T == {k \in Nat : \E f : IsFlat(f, ss, k)}
<1>1. 0 \in T
  <2>1. IsFlat([i \in 1 .. 0 |-> 0], ss, 0)
    BY DEF IsFlat
  <2>2. QED
    BY <2>1
<1>2. ASSUME NEW k \in T
      PROVE  k + 1 \in T
  <2>1. PICK f : IsFlat(f, ss, k)
    OBVIOUS
  <2> DEFINE At(i) == IF i = 1 THEN ss[i] ELSE f[i - 1] \o ss[i]
             g == [i \in 1 .. k + 1 |-> At(i)]
  <2>2. \A i \in 1 .. k : i \in 1 .. k + 1 /\ f[i] = At(i)
    <3>1. 1 .. k \subseteq 1 .. k + 1
      OBVIOUS
    <3>2. QED
      BY <2>1, <3>1, Zenon DEF IsFlat
  <2>3. \A i \in 1 .. k : g[i] = f[i]
    <3> HIDE DEF At
    <3>1. QED
      BY <2>2, Zenon
  <2>4. \A i \in 1 .. k + 1 : i # 1 => i - 1 \in 1 .. k
    OBVIOUS
  <2>5. \A i \in 1 .. k + 1 : At(i) = IF i = 1 THEN ss[i] ELSE g[i - 1] \o ss[i]
    <3> HIDE DEF g
    <3>1. QED
      BY <2>3, <2>4, Zenon
  <2>6. g = [i \in 1 .. k + 1 |-> IF i = 1 THEN ss[i] ELSE g[i - 1] \o ss[i]]
    <3> DEFINE h == g
    <3> HIDE DEF h, At
    <3>1. h = [i \in 1 .. k + 1 |-> IF i = 1 THEN ss[i] ELSE h[i - 1] \o ss[i]]
      BY <2>5, Zenon DEF h
    <3>2. QED
      BY <3>1 DEF h
  <2>7. IsFlat(g, ss, k + 1)
    BY <2>6, Zenon DEF IsFlat
  <2>8. QED
    <3> HIDE DEF g
    <3>1. QED
      BY <2>7
<1>3. T = Nat
  <2> HIDE DEF T
  <2>1. T \subseteq Nat
    BY DEF T
  <2>2. QED
    BY <1>1, <1>2, <2>1, Induction
<1>4. QED
  BY <1>3

\* One more element does not change it on the others.
LEMMA FlatUnique ==
  ASSUME NEW ss, NEW tt, NEW f, NEW g, NEW m \in Nat, m # 0,
         IsFlat(f, ss, m), IsFlat(g, tt, m + 1), \A i \in 1 .. m : ss[i] = tt[i]
  PROVE  f[m] = g[m]
<1> DEFINE T == {k \in Nat : k \in 1 .. m => f[k] = g[k]}
<1>1. 0 \in T
  OBVIOUS
<1>2. ASSUME NEW k \in T
      PROVE  k + 1 \in T
  <2>1. SUFFICES ASSUME k + 1 \in 1 .. m
                 PROVE  f[k + 1] = g[k + 1]
    OBVIOUS
  <2>2. k \in Nat /\ k + 1 <= m /\ k + 1 <= m + 1 /\ ss[k + 1] = tt[k + 1]
    BY <2>1
  <2>3. /\ k = 0 => f[k + 1] = ss[k + 1] /\ g[k + 1] = tt[k + 1]
        /\ k # 0 => f[k + 1] = f[k] \o ss[k + 1] /\ g[k + 1] = g[k] \o tt[k + 1]
    <3> HIDE DEF T
    <3>1. (k = 0 => f[k + 1] = ss[k + 1]) /\ (k # 0 => f[k + 1] = f[k] \o ss[k + 1])
      <4>1. m \in Nat
        OBVIOUS
      <4>2. k \in Nat /\ k + 1 <= m
        BY <2>2
      <4>3. QED
        BY <4>1, <4>2, FlatStep
    <3>2. (k = 0 => g[k + 1] = tt[k + 1]) /\ (k # 0 => g[k + 1] = g[k] \o tt[k + 1])
      <4>1. m + 1 \in Nat
        OBVIOUS
      <4>2. k \in Nat /\ k + 1 <= m + 1
        BY <2>2
      <4>3. QED
        BY <4>1, <4>2, FlatStep
    <3>3. QED
      BY <3>1, <3>2, Zenon
  <2>4. k # 0 => f[k] = g[k]
    BY <2>1
  <2>5. QED
    <3>1. CASE k = 0
      BY <2>2, <2>3, <3>1
    <3>2. CASE k # 0
      BY <2>2, <2>3, <2>4, <3>2
    <3>3. QED
      BY <3>1, <3>2
<1>3. T = Nat
  <2> HIDE DEF T
  <2>1. T \subseteq Nat
    BY DEF T
  <2>2. QED
    BY <1>1, <1>2, <2>1, Induction
<1>4. QED
  BY <1>3

\* What FlattenSeq computes.
LEMMA FlattenIs ==
  ASSUME NEW ss, Len(ss) \in Nat \ {0}
  PROVE  \E f : IsFlat(f, ss, Len(ss)) /\ FlattenSeq(ss) = f[Len(ss)]
<1> DEFINE h == CHOOSE f : IsFlat(f, ss, Len(ss))
<1>1. IsFlat(h, ss, Len(ss))
  BY FlatExists
<1>2. FlattenSeq(ss) = h[Len(ss)]
  BY DEF FlattenSeq, IsFlat
<1>3. QED
  BY <1>1, <1>2

\* Flattening gives a sequence of what the elements hold.
LEMMA FlattenType ==
  ASSUME NEW T, NEW ss \in Seq(Seq(T))
  PROVE  FlattenSeq(ss) \in Seq(T)
<1>1. CASE Len(ss) = 0
  BY <1>1 DEF FlattenSeq
<1>2. CASE Len(ss) # 0
  <2>1. PICK f : IsFlat(f, ss, Len(ss)) /\ FlattenSeq(ss) = f[Len(ss)]
    BY <1>2, FlattenIs
  <2> DEFINE K == {k \in Nat : k \in 1 .. Len(ss) => f[k] \in Seq(T)}
  <2>2. 0 \in K
    OBVIOUS
  <2>3. ASSUME NEW k \in K
        PROVE  k + 1 \in K
    <3>1. SUFFICES ASSUME k + 1 \in 1 .. Len(ss)
                   PROVE  f[k + 1] \in Seq(T)
      OBVIOUS
    <3>2. k \in Nat /\ k + 1 <= Len(ss) /\ ss[k + 1] \in Seq(T) /\ Len(ss) \in Nat
      BY <3>1
    <3>3. (k = 0 => f[k + 1] = ss[k + 1]) /\ (k # 0 => f[k + 1] = f[k] \o ss[k + 1])
      <4> HIDE DEF K
      <4>1. QED
        BY <2>1, <3>2, FlatStep, Zenon
    <3>4. k # 0 => f[k] \in Seq(T)
      BY <3>1
    <3>5. k # 0 => f[k] \o ss[k + 1] \in Seq(T)
      BY <3>2, <3>4, ConcatProperties
    <3>6. QED
      BY <3>2, <3>3, <3>5, Zenon
  <2>4. K = Nat
    <3> HIDE DEF K
    <3>1. K \subseteq Nat
      BY DEF K
    <3>2. QED
      BY <2>2, <2>3, <3>1, Induction
  <2>5. f[Len(ss)] \in Seq(T)
    <3>1. Len(ss) \in Nat /\ Len(ss) \in 1 .. Len(ss)
      BY <1>2
    <3>2. Len(ss) \in K
      BY <2>4, <3>1, Zenon
    <3>3. QED
      BY <3>1, <3>2
  <2>6. QED
    BY <2>1, <2>5
<1>3. QED
  BY <1>1, <1>2

\* One more sequence comes after the others.
LEMMA FlattenAppend ==
  ASSUME NEW T, NEW ss \in Seq(Seq(T)), NEW s \in Seq(T)
  PROVE  FlattenSeq(Append(ss, s)) = FlattenSeq(ss) \o s
<1> DEFINE tt == Append(ss, s)
           n == Len(ss)
<1>1. /\ tt \in Seq(Seq(T)) /\ Len(tt) = n + 1 /\ n \in Nat /\ tt[n + 1] = s
      /\ \A i \in 1 .. n : ss[i] = tt[i]
  OBVIOUS
<1> HIDE DEF tt
<1>2. PICK g : IsFlat(g, tt, n + 1) /\ FlattenSeq(tt) = g[n + 1]
  BY <1>1, FlattenIs
<1>3. (n = 0 => g[n + 1] = tt[n + 1]) /\ (n # 0 => g[n + 1] = g[n] \o tt[n + 1])
  <2> HIDE DEF n
  <2>1. n + 1 \in Nat /\ n + 1 <= n + 1
    BY <1>1
  <2>2. QED
    BY <1>1, <1>2, <2>1, FlatStep, Zenon
<1>4. CASE n = 0
  <2>1. FlattenSeq(ss) = <<>>
    BY <1>4 DEF FlattenSeq
  <2>2. g[n + 1] = s
    BY <1>1, <1>3, <1>4
  <2>3. <<>> \o s = s
    BY ConcatEmptySeq
  <2>4. QED
    BY <1>2, <2>1, <2>2, <2>3 DEF tt
<1>5. CASE n # 0
  <2>1. PICK f : IsFlat(f, ss, n) /\ FlattenSeq(ss) = f[n]
    BY <1>1, <1>5, FlattenIs
  <2>2. f[n] = g[n]
    <3> HIDE DEF n
    <3>1. n \in Nat /\ n # 0
      BY <1>1, <1>5
    <3>2. QED
      BY <1>1, <1>2, <2>1, <3>1, FlatUnique
  <2>3. QED
    BY <1>1, <1>2, <1>3, <1>5, <2>1, <2>2 DEF tt
<1>6. QED
  BY <1>4, <1>5

\* Nothing flattened is nothing.
LEMMA FlattenNothing ==
  FlattenSeq(<<>>) = <<>>
  BY DEF FlattenSeq

\* Applying a function to every element of a sequence, one element at a time.
Each(f, xs) == [k \in DOMAIN xs |-> f[xs[k]]]
Maps(f, S, T) == f \in [S -> T]

\* Applying it to one more element puts one more at the end.
LEMMA EachAppend ==
  ASSUME NEW S, NEW T, NEW f, Maps(f, S, T), NEW xs \in Seq(S), NEW x \in S
  PROVE  Each(f, xs) \in Seq(T) /\ Each(f, Append(xs, x)) = Append(Each(f, xs), f[x])
<1> DEFINE n  == Len(xs)
           ms == [k \in DOMAIN xs |-> f[xs[k]]]
           ns == [k \in DOMAIN Append(xs, x) |-> f[Append(xs, x)[k]]]
<1>1. /\ n \in Nat /\ DOMAIN xs = 1 .. n /\ DOMAIN Append(xs, x) = 1 .. n + 1
      /\ \A k \in 1 .. n : xs[k] \in S /\ Append(xs, x)[k] = xs[k]
      /\ Append(xs, x)[n + 1] = x
  OBVIOUS
<1>2. f \in [S -> T] /\ ms \in [1 .. n -> T]
  BY <1>1 DEF Maps
<1>3. ms \in Seq(T) /\ Len(ms) = n
  <2> HIDE DEF n, ms
  <2>1. ms \in Seq(T)
    BY <1>1, <1>2 DEF Seq
  <2>2. DOMAIN ms = 1 .. n
    BY <1>2
  <2>3. QED
    BY <1>1, <2>1, <2>2
<1>4. DOMAIN ns = 1 .. n + 1 /\ \A k \in 1 .. n + 1 : ns[k] = f[Append(xs, x)[k]]
  BY <1>1
<1>5. f[x] \in T /\ \A k \in 1 .. n : ms[k] = f[xs[k]]
  BY <1>1, <1>2
<1>6. /\ Append(ms, f[x]) \in Seq(T) /\ DOMAIN Append(ms, f[x]) = 1 .. n + 1
      /\ \A k \in 1 .. n : Append(ms, f[x])[k] = ms[k]
      /\ Append(ms, f[x])[n + 1] = f[x]
  <2> HIDE DEF n, ms
  <2>1. QED
    BY <1>1, <1>3, <1>5
<1>7. ns = Append(ms, f[x])
  <2> HIDE DEF n, ms, ns
  <2>1. \A k \in 1 .. n + 1 : k \in 1 .. n \/ k = n + 1
    BY <1>1
  <2>2. \A k \in 1 .. n + 1 : ns[k] = Append(ms, f[x])[k]
    BY <1>1, <1>4, <1>5, <1>6, <2>1
  <2>3. ns = [k \in 1 .. n + 1 |-> ns[k]]
    BY <1>4 DEF ns
  <2> DEFINE as == Append(ms, f[x])
  <2>4. as \in Seq(T) /\ DOMAIN as = 1 .. n + 1 /\ \A k \in 1 .. n + 1 : ns[k] = as[k]
    BY <1>6, <2>2
  <2> HIDE DEF as
  <2>5. as \in [1 .. n + 1 -> T]
    <3>1. as \in [1 .. Len(as) -> T] /\ DOMAIN as = 1 .. Len(as)
      BY <2>4, LenProperties
    <3>2. QED
      BY <2>4, <3>1
  <2>6. ns = as
    BY <2>3, <2>4, <2>5
  <2>7. QED
    BY <2>6 DEF as
<1>8. QED
  BY <1>3, <1>7 DEF Each

-----------------------------------------------------------------------------
(***************************************************************************)
(* What is in a sequence.                                                  *)
(***************************************************************************)
LEMMA InRange ==
  ASSUME NEW S, NEW s \in Seq(S)
  PROVE  /\ Range(s) \subseteq S
         /\ \A x : x \in Range(s) <=> \E k \in 1 .. Len(s) : s[k] = x
         /\ \A x : Contains(s, x) <=> x \in Range(s)
         /\ \A x : Range(Append(s, x)) = Range(s) \cup {x}
<1>1. DOMAIN s = 1 .. Len(s) /\ Len(s) \in Nat /\ \A k \in 1 .. Len(s) : s[k] \in S
  OBVIOUS
<1>2. \A x : x \in Range(s) <=> \E k \in 1 .. Len(s) : s[k] = x
  BY <1>1 DEF Range
<1>3. ASSUME NEW x
      PROVE  Range(Append(s, x)) = Range(s) \cup {x}
  <2> DEFINE t == Append(s, x)
  <2>1. /\ DOMAIN t = 1 .. Len(s) + 1 /\ t[Len(s) + 1] = x
        /\ \A k \in 1 .. Len(s) : t[k] = s[k]
    BY <1>1
  <2> HIDE DEF t
  <2>2. \A y : y \in Range(t) <=> y \in Range(s) \cup {x}
    BY <1>1, <2>1 DEF Range
  <2>3. QED
    BY <2>2 DEF t
<1>4. QED
  BY <1>1, <1>2, <1>3 DEF Contains

\* What is in one sequence after another.
LEMMA RangeOfConcat ==
  ASSUME NEW S, NEW s \in Seq(S), NEW t \in Seq(S)
  PROVE  Range(s \o t) = Range(s) \cup Range(t)
<1> DEFINE u == s \o t
<1>1. /\ Len(s) \in Nat /\ Len(t) \in Nat /\ u \in Seq(S) /\ Len(u) = Len(s) + Len(t)
      /\ \A k \in 1 .. Len(s) + Len(t) : u[k] = IF k <= Len(s) THEN s[k] ELSE t[k - Len(s)]
  BY ConcatProperties
<1> HIDE DEF u
<1>2. ASSUME NEW x \in Range(s)
      PROVE  x \in Range(u)
  <2>1. PICK k \in 1 .. Len(s) : s[k] = x
    BY InRange
  <2>2. k \in 1 .. Len(u) /\ u[k] = x
    BY <1>1, <2>1
  <2>3. QED
    BY <1>1, <2>2, InRange
<1>3. ASSUME NEW x \in Range(t)
      PROVE  x \in Range(u)
  <2>1. PICK k \in 1 .. Len(t) : t[k] = x
    BY InRange
  <2>2. /\ k + Len(s) \in 1 .. Len(u) /\ ~(k + Len(s) <= Len(s)) /\ (k + Len(s)) - Len(s) = k
    BY <1>1, <2>1
  <2>3. u[k + Len(s)] = x
    BY <1>1, <2>1, <2>2
  <2>4. QED
    BY <1>1, <2>2, <2>3, InRange
<1>4. ASSUME NEW x \in Range(u)
      PROVE  x \in Range(s) \cup Range(t)
  <2>1. PICK k \in 1 .. Len(u) : u[k] = x
    BY <1>1, InRange
  <2>2. CASE k <= Len(s)
    BY <1>1, <2>1, <2>2, InRange
  <2>3. CASE ~(k <= Len(s))
    <3>1. k - Len(s) \in 1 .. Len(t) /\ t[k - Len(s)] = x
      BY <1>1, <2>1, <2>3
    <3>2. QED
      BY <3>1, InRange
  <2>4. QED
    BY <2>2, <2>3
<1>5. QED
  BY <1>2, <1>3, <1>4 DEF u

\* What is in the sequence of a set.
LEMMA SetToSeqRange ==
  ASSUME NEW S, IsFiniteSet(S)
  PROVE  SetToSeq(S) \in Seq(S) /\ Range(SetToSeq(S)) = S
<1> DEFINE n == Cardinality(S)
           f == SetToSeq(S)
<1>1. n \in Nat
  BY FS_CardinalityType
<1>2. ExistsBijection(1 .. n, S)
  BY FS_NatBijection, FS_CountingElements
<1>3. \E g \in [1 .. n -> S] : IsInjective(g)
  BY <1>2 DEF ExistsBijection, Bijection, Injection
<1>4. f \in [1 .. n -> S] /\ IsInjective(f)
  BY <1>3 DEF SetToSeq
<1> HIDE DEF f
<1>5. f \in Surjection(1 .. n, S)
  <2>1. f \in Injection(1 .. n, S)
    BY <1>4 DEF Injection
  <2>2. IsFiniteSet(1 .. n) /\ Cardinality(1 .. n) = n
    BY <1>1, FS_Interval
  <2>3. QED
    BY <2>1, <2>2, FS_Injection
<1>6. \A x \in S : \E k \in 1 .. n : f[k] = x
  BY <1>5 DEF Surjection
<1>7. f \in Seq(S) /\ DOMAIN f = 1 .. n
  BY <1>1, <1>4 DEF Seq
<1>8. Range(f) = S
  BY <1>4, <1>6, <1>7 DEF Range
<1>9. QED
  BY <1>7, <1>8 DEF f

\* What is in the sequences that are flattened.
LEMMA FlattenRange ==
  ASSUME NEW S, NEW ss \in Seq(Seq(S))
  PROVE  \A x : x \in Range(FlattenSeq(ss)) <=> \E k \in 1 .. Len(ss) : x \in Range(ss[k])
<1> DEFINE Right(n) ==
             \A qs \in Seq(Seq(S)) : Len(qs) = n =>
               \A x : x \in Range(FlattenSeq(qs)) <=> \E k \in 1 .. n : x \in Range(qs[k])
           T == {n \in Nat : Right(n)}
<1>1. 0 \in T
  <2>1. ASSUME NEW qs \in Seq(Seq(S)), Len(qs) = 0
        PROVE  Range(FlattenSeq(qs)) = {}
    <3>1. qs = <<>>
      BY <2>1
    <3>2. Range(<<>>) = {}
      BY DEF Range
    <3>3. QED
      BY <3>1, <3>2, FlattenNothing
  <2>2. QED
    BY <2>1
<1>2. ASSUME NEW n \in T
      PROVE  n + 1 \in T
  <2>1. n \in Nat /\ Right(n)
    OBVIOUS
  <2> HIDE DEF T
  <2>2. ASSUME NEW qs \in Seq(Seq(S)), Len(qs) = n + 1, NEW x
        PROVE  x \in Range(FlattenSeq(qs)) <=> \E k \in 1 .. n + 1 : x \in Range(qs[k])
    <3>1. qs # <<>>
      BY <2>1, <2>2
    <3>2. PICK ps \in Seq(Seq(S)), s \in Seq(S) : qs = Append(ps, s)
      BY <3>1, SequenceEmptyOrAppend
    <3>3. Len(ps) = n /\ qs[n + 1] = s /\ \A k \in 1 .. n : qs[k] = ps[k]
      BY <2>1, <2>2, <3>2
    <3>4. Range(FlattenSeq(qs)) = Range(FlattenSeq(ps)) \cup Range(s)
      <4>1. FlattenSeq(ps) \in Seq(S) /\ FlattenSeq(qs) = FlattenSeq(ps) \o s
        BY <3>2, FlattenType, FlattenAppend
      <4>2. QED
        BY <4>1, RangeOfConcat
    <3>5. x \in Range(FlattenSeq(ps)) <=> \E k \in 1 .. n : x \in Range(ps[k])
      BY <2>1, <3>3
    <3> HIDE DEF Right
    <3>6. \A k : k \in 1 .. n + 1 <=> k \in 1 .. n \/ k = n + 1
      <4>1. n \in Nat
        BY <2>1
      <4>2. QED
        BY <4>1
    <3>7. QED
      BY <3>3, <3>4, <3>5, <3>6
  <2>3. Right(n + 1)
    BY <2>2
  <2>4. QED
    BY <2>1, <2>3 DEF T
<1>3. T = Nat
  <2> HIDE DEF T
  <2>1. T \subseteq Nat
    BY DEF T
  <2>2. QED
    BY <1>1, <1>2, <2>1, Induction
<1>4. Len(ss) \in T
  BY <1>3
<1>5. QED
  BY <1>4

-----------------------------------------------------------------------------
(***************************************************************************)
(* FoldLeft takes the elements of a sequence one by one, the last one      *)
(* outermost, by recursion over sets of indices.                           *)
(***************************************************************************)
\* A set of indices has a largest one.
LEMMA Largest ==
  ASSUME NEW n \in Nat, NEW T, T \subseteq 1 .. n, T # {}
  PROVE  Max(T) \in T /\ \A k \in T : Max(T) >= k
<1> DEFINE U == {m \in Nat : \E k \in T : m = n - k}
<1>1. U \subseteq Nat /\ U # {}
  <2>1. PICK k \in T : TRUE
    OBVIOUS
  <2>2. n - k \in Nat
    OBVIOUS
  <2>3. QED
    BY <2>2
<1>2. PICK m \in U : \A u \in U : m <= u
  <2> HIDE DEF U
  <2>1. QED
    BY <1>1, Smallest
<1>3. PICK k \in T : m = n - k
  OBVIOUS
<1>4. ASSUME NEW j \in T
      PROVE  k >= j
  <2>1. n - j \in U
    OBVIOUS
  <2>2. QED
    BY <1>2, <1>3, <2>1
<1>5. QED
  BY <1>3, <1>4 DEF Max

\* h[s] is what folding with f over the elements with indices in s gives.
IsFold(h, f, base, xs, D) ==
  h = [s \in SUBSET D |->
         IF s = {} THEN base ELSE f[<<h[s \ {Max(s)}], xs[Max(s)]>>]]

\* There is such an h with the values that f gives.
LEMMA FoldExists ==
  ASSUME NEW V, NEW E, NEW f \in [V \X E -> V], NEW base \in V, NEW xs \in Seq(E)
  PROVE  \E h \in [SUBSET DOMAIN xs -> V] : IsFold(h, f, base, xs, DOMAIN xs)
<1> DEFINE Has(n) == \E h \in [SUBSET (1 .. n) -> V] : IsFold(h, f, base, xs, 1 .. n)
           T == {n \in Nat : n <= Len(xs) => Has(n)}
<1>1. 0 \in T
  <2> DEFINE h == [s \in SUBSET (1 .. 0) |-> base]
  <2>1. \A s \in SUBSET (1 .. 0) : s = {}
    OBVIOUS
  <2>2. h \in [SUBSET (1 .. 0) -> V] /\ IsFold(h, f, base, xs, 1 .. 0)
    BY <2>1 DEF IsFold
  <2>3. Has(0)
    BY <2>2
  <2>4. QED
    BY <2>3
<1>2. ASSUME NEW n \in T, n + 1 <= Len(xs)
      PROVE  Has(n + 1)
  <2>1. n \in Nat /\ Has(n)
    <3>1. n \in Nat /\ n <= Len(xs)
      BY <1>2
    <3> HIDE DEF Has
    <3>2. QED
      BY <3>1
  <2>2. PICK g \in [SUBSET (1 .. n) -> V] : IsFold(g, f, base, xs, 1 .. n)
    BY <2>1
  <2> DEFINE Value(s) == IF n + 1 \in s THEN f[<<g[s \ {n + 1}], xs[n + 1]>>] ELSE g[s]
             h == [s \in SUBSET (1 .. n + 1) |-> Value(s)]
  <2>3. xs[n + 1] \in E /\ \A k \in 1 .. n : xs[k] \in E
    BY <1>2, <2>1
  <2>4. ASSUME NEW s \in SUBSET (1 .. n + 1)
        PROVE  /\ n + 1 \notin s => s \in SUBSET (1 .. n)
               /\ s \ {n + 1} \in SUBSET (1 .. n)
               /\ n + 1 \in s => Max(s) = n + 1
    <3>1. \A k \in s : k \in 1 .. n \/ k = n + 1
      BY <2>1
    <3>2. ASSUME n + 1 \in s
          PROVE  Max(s) = n + 1
      <4>1. n + 1 \in Nat /\ s # {}
        BY <2>1, <3>2
      <4>2. Max(s) \in s /\ Max(s) >= n + 1
        BY <3>2, <4>1, Largest
      <4>3. Max(s) \in 1 .. n \/ Max(s) = n + 1
        BY <3>1, <4>2
      <4> HIDE DEF Has
      <4>4. QED
        BY <2>1, <4>2, <4>3
    <3>3. QED
      BY <3>1, <3>2
  <2>5. \A s \in SUBSET (1 .. n + 1) : Value(s) \in V
    BY <2>2, <2>3, <2>4
  <2>6. h \in [SUBSET (1 .. n + 1) -> V]
    <3> HIDE DEF Value
    <3>1. QED
      BY <2>5
  <2>7. \A s \in SUBSET (1 .. n) : s \in SUBSET (1 .. n + 1) /\ n + 1 \notin s /\ h[s] = g[s]
    <3>1. 1 .. n \subseteq 1 .. n + 1 /\ n + 1 \notin 1 .. n
      BY <2>1
    <3>2. QED
      BY <3>1
  <2>8. ASSUME NEW s \in SUBSET (1 .. n + 1)
        PROVE  h[s] = IF s = {} THEN base ELSE f[<<h[s \ {Max(s)}], xs[Max(s)]>>]
    <3>1. CASE n + 1 \in s
      <4>1. h[s] = f[<<g[s \ {n + 1}], xs[n + 1]>>]
        BY <3>1
      <4>2. h[s \ {n + 1}] = g[s \ {n + 1}]
        BY <2>4, <2>7
      <4> HIDE DEF h
      <4>3. QED
        BY <2>4, <3>1, <4>1, <4>2
    <3>2. CASE n + 1 \notin s
      <4>1. s \in SUBSET (1 .. n) /\ h[s] = g[s]
        BY <2>4, <2>7, <3>2
      <4>2. g[s] = IF s = {} THEN base ELSE f[<<g[s \ {Max(s)}], xs[Max(s)]>>]
        BY <2>2, <4>1, Zenon DEF IsFold
      <4>3. h[s \ {Max(s)}] = g[s \ {Max(s)}]
        BY <2>7, <4>1
      <4> HIDE DEF h
      <4>4. QED
        BY <4>1, <4>2, <4>3, Zenon
    <3>3. QED
      BY <3>1, <3>2
  <2>9. IsFold(h, f, base, xs, 1 .. n + 1)
    <3> DEFINE i == h
    <3>1. i = [s \in SUBSET (1 .. n + 1) |-> i[s]]
      OBVIOUS
    <3>2. \A s \in SUBSET (1 .. n + 1) :
            i[s] = IF s = {} THEN base ELSE f[<<i[s \ {Max(s)}], xs[Max(s)]>>]
      BY <2>8
    <3> HIDE DEF h, i
    <3>3. i = [s \in SUBSET (1 .. n + 1) |->
                 IF s = {} THEN base ELSE f[<<i[s \ {Max(s)}], xs[Max(s)]>>]]
      BY <3>1, <3>2, Zenon
    <3>4. QED
      BY <3>3, Zenon DEF IsFold, i
  <2>10. QED
    <3> HIDE DEF h
    <3>1. QED
      BY <2>6, <2>9
<1>3. T = Nat
  <2>1. \A n \in T : n + 1 \in T
    <3> HIDE DEF Has
    <3>1. QED
      BY <1>2
  <2> HIDE DEF T
  <2>2. T \subseteq Nat
    BY DEF T
  <2>3. QED
    BY <1>1, <2>1, <2>2, Induction
<1>4. Has(Len(xs))
  <2> HIDE DEF Has
  <2>1. QED
    BY <1>3
<1>5. DOMAIN xs = 1 .. Len(xs)
  OBVIOUS
<1>6. QED
  BY <1>4, <1>5

\* The largest of the first numbers.
LEMMA Prefix ==
  ASSUME NEW k \in Nat
  PROVE  1 .. k + 1 # {} /\ Max(1 .. k + 1) = k + 1 /\ (1 .. k + 1) \ {k + 1} = 1 .. k
<1> DEFINE T == 1 .. k + 1
<1>1. k + 1 \in Nat /\ k + 1 \in T /\ T \ {k + 1} = 1 .. k /\ T \subseteq 1 .. k + 1
  OBVIOUS
<1>2. Max(T) \in T /\ \A j \in T : Max(T) >= j
  <2> HIDE DEF T
  <2> QED
    BY <1>1, Largest
<1>3. Max(T) = k + 1
  BY <1>1, <1>2
<1> QED
  BY <1>1, <1>3

\* What folding over the initial segments gives, one element at a time.
LEMMA FoldSegments ==
  ASSUME NEW S, NEW f, NEW base, NEW xs, NEW h, xs \in Seq(S), IsFold(h, f, base, xs, DOMAIN xs)
  PROVE  /\ h[1 .. 0] = base
         /\ \A k \in Nat : k + 1 <= Len(xs) => h[1 .. k + 1] = f[<<h[1 .. k], xs[k + 1]>>]
<1>1. DOMAIN xs = 1 .. Len(xs)
  OBVIOUS
<1>2. \A s \in SUBSET DOMAIN xs :
        h[s] = IF s = {} THEN base ELSE f[<<h[s \ {Max(s)}], xs[Max(s)]>>]
  BY Zenon DEF IsFold
<1>3. h[1 .. 0] = base
  <2>1. 1 .. 0 = {}
    OBVIOUS
  <2> QED
    BY <1>2, <2>1
<1>4. ASSUME NEW k \in Nat, k + 1 <= Len(xs)
      PROVE  h[1 .. k + 1] = f[<<h[1 .. k], xs[k + 1]>>]
  <2> DEFINE s == 1 .. k + 1
  <2>1. s # {} /\ Max(s) = k + 1 /\ s \ {k + 1} = 1 .. k
    BY Prefix
  <2>2. s \in SUBSET DOMAIN xs
    BY <1>1, <1>4
  <2> HIDE DEF s
  <2>3. h[s] = f[<<h[s \ {Max(s)}], xs[Max(s)]>>]
    BY <1>2, <2>1, <2>2
  <2> QED
    BY <2>1, <2>3 DEF s
<1> QED
  BY <1>3, <1>4

\* What folding over the whole sequence gives.
FoldOf(f, base, xs) == (CHOOSE h : IsFold(h, f, base, xs, DOMAIN xs))[DOMAIN xs]

\* f folds elements of E into values of V.
IsFolder(f, base, V, E) == f \in [V \X E -> V] /\ base \in V

\* c[k] is what the first k elements give.
IsChain(c, f, base, xs) ==
  c[0] = base /\ \A k \in Nat : k + 1 <= Len(xs) => c[k + 1] = f[<<c[k], xs[k + 1]>>]

\* It is what is reached step by step.
LEMMA FoldedIs ==
  ASSUME NEW V, NEW E, NEW f, NEW base, NEW xs, NEW c,
         IsFolder(f, base, V, E), xs \in Seq(E), IsChain(c, f, base, xs)
  PROVE  FoldOf(f, base, xs) = c[Len(xs)] /\ c[Len(xs)] \in V
<1> DEFINE h == CHOOSE h : IsFold(h, f, base, xs, DOMAIN xs)
<1>1. IsFold(h, f, base, xs, DOMAIN xs)
  BY FoldExists DEF IsFolder
<1>2. FoldOf(f, base, xs) = h[DOMAIN xs] /\ DOMAIN xs = 1 .. Len(xs)
  BY DEF FoldOf
<1> HIDE DEF h
<1>3. /\ h[1 .. 0] = base
      /\ \A k \in Nat : k + 1 <= Len(xs) => h[1 .. k + 1] = f[<<h[1 .. k], xs[k + 1]>>]
  BY <1>1, FoldSegments
<1> DEFINE T == {k \in Nat : k <= Len(xs) => c[k] \in V /\ h[1 .. k] = c[k]}
<1>4. ASSUME NEW k \in T
      PROVE  k + 1 \in T
  <2>1. k \in Nat
    OBVIOUS
  <2>2. SUFFICES ASSUME k + 1 <= Len(xs)
                 PROVE  c[k + 1] \in V /\ h[1 .. k + 1] = c[k + 1]
    BY <2>1
  <2>3. c[k] \in V /\ h[1 .. k] = c[k] /\ xs[k + 1] \in E
    BY <2>1, <2>2
  <2> QED
    BY <1>3, <2>1, <2>2, <2>3 DEF IsChain, IsFolder
<1>5. 0 \in T
  BY <1>3 DEF IsChain, IsFolder
<1> HIDE DEF T
<1>6. T = Nat
  <2>1. T \subseteq Nat
    BY DEF T
  <2> QED
    BY <1>4, <1>5, <2>1, Induction
<1>7. Len(xs) \in Nat
  OBVIOUS
<1> QED
  BY <1>2, <1>6, <1>7 DEF T

\* The first elements give something step by step.
LEMMA ChainExists ==
  ASSUME NEW V, NEW E, NEW f, NEW base, NEW xs, IsFolder(f, base, V, E), xs \in Seq(E)
  PROVE  \E c : IsChain(c, f, base, xs)
<1>1. PICK h : IsFold(h, f, base, xs, DOMAIN xs)
  BY FoldExists DEF IsFolder
<1>2. /\ h[1 .. 0] = base
      /\ \A k \in Nat : k + 1 <= Len(xs) => h[1 .. k + 1] = f[<<h[1 .. k], xs[k + 1]>>]
  BY <1>1, FoldSegments
<1> DEFINE c == [k \in Nat |-> h[1 .. k]]
<1>3. c[0] = base
  BY <1>2
<1>4. ASSUME NEW k \in Nat, k + 1 <= Len(xs)
      PROVE  c[k + 1] = f[<<c[k], xs[k + 1]>>]
  <2>1. c[k] = h[1 .. k] /\ k + 1 \in Nat
    OBVIOUS
  <2>2. c[k + 1] = h[1 .. k + 1]
    BY <2>1
  <2> HIDE DEF c
  <2> QED
    BY <1>2, <1>4, <2>1, <2>2
<1> HIDE DEF c
<1> QED
  BY <1>3, <1>4 DEF IsChain

\* A fold has a value.
LEMMA FoldedType ==
  ASSUME NEW V, NEW E, NEW f, NEW base, NEW xs, IsFolder(f, base, V, E), xs \in Seq(E)
  PROVE  FoldOf(f, base, <<>>) = base /\ FoldOf(f, base, xs) \in V
<1>1. FoldOf(f, base, xs) \in V
  <2>1. PICK c : IsChain(c, f, base, xs)
    BY ChainExists
  <2> QED
    BY <2>1, FoldedIs
<1>2. FoldOf(f, base, <<>>) = base
  <2>1. <<>> \in Seq(E) /\ Len(<<>>) = 0
    OBVIOUS
  <2>2. PICK c : IsChain(c, f, base, <<>>)
    BY <2>1, ChainExists
  <2> DEFINE e == <<>>
  <2>3. e \in Seq(E) /\ IsChain(c, f, base, e)
    BY <2>1, <2>2
  <2> HIDE DEF e
  <2>4. FoldOf(f, base, e) = c[Len(e)]
    BY <2>3, FoldedIs
  <2> QED
    BY <2>1, <2>2, <2>4 DEF IsChain, e
<1> QED
  BY <1>1, <1>2

\* One element more is one step more.
LEMMA FoldedAppend ==
  ASSUME NEW V, NEW E, NEW f, NEW base, NEW xs, NEW x,
         IsFolder(f, base, V, E), xs \in Seq(E), x \in E
  PROVE  FoldOf(f, base, Append(xs, x)) = f[<<FoldOf(f, base, xs), x>>]
<1> DEFINE ys == Append(xs, x)
<1>1. ys \in Seq(E) /\ Len(ys) = Len(xs) + 1 /\ ys[Len(xs) + 1] = x
      /\ \A k \in 1 .. Len(xs) : ys[k] = xs[k]
  OBVIOUS
<1> HIDE DEF ys
<1>2. PICK c : IsChain(c, f, base, ys)
  BY <1>1, ChainExists
<1>3. FoldOf(f, base, ys) = c[Len(ys)]
  BY <1>1, <1>2, FoldedIs
<1>4. IsChain(c, f, base, xs)
  BY <1>1, <1>2 DEF IsChain
<1>5. FoldOf(f, base, xs) = c[Len(xs)]
  BY <1>2, <1>4, FoldedIs
<1>6. Len(xs) \in Nat
  OBVIOUS
<1> QED
  BY <1>1, <1>2, <1>3, <1>5, <1>6 DEF ys, IsChain

\* h has the steps of f, as long as it has values in V.
HasSteps(h, f, base, xs, V, E) ==
  /\ h[{}] = base
  /\ \A s \in SUBSET DOMAIN xs :
       s # {} /\ h[s \ {Max(s)}] \in V /\ xs[Max(s)] \in E =>
         h[s] = f[<<h[s \ {Max(s)}], xs[Max(s)]>>]

\* Two folds with the same steps give the same.
LEMMA SameFold ==
  ASSUME NEW V, NEW E, NEW f, NEW base, NEW xs, NEW g,
         IsFolder(f, base, V, E), xs \in Seq(E), HasSteps(g, f, base, xs, V, E)
  PROVE  g[DOMAIN xs] = FoldOf(f, base, xs)
<1>1. DOMAIN xs = 1 .. Len(xs) /\ Len(xs) \in Nat /\ \A k \in 1 .. Len(xs) : xs[k] \in E
  OBVIOUS
<1>2. ASSUME NEW k \in Nat, k + 1 <= Len(xs), g[1 .. k] \in V
      PROVE  g[1 .. k + 1] = f[<<g[1 .. k], xs[k + 1]>>] /\ g[1 .. k + 1] \in V
  <2> DEFINE s == 1 .. k + 1
  <2>1. s # {} /\ Max(s) = k + 1 /\ s \ {k + 1} = 1 .. k
    BY Prefix
  <2>2. s \in SUBSET DOMAIN xs /\ xs[k + 1] \in E
    BY <1>1, <1>2
  <2> HIDE DEF s
  <2>3. g[s] = f[<<g[1 .. k], xs[k + 1]>>]
    BY <1>2, <2>1, <2>2 DEF HasSteps
  <2> QED
    BY <1>2, <2>2, <2>3 DEF s, IsFolder
<1> DEFINE T == {k \in Nat : k <= Len(xs) => g[1 .. k] \in V}
<1>3. 0 \in T
  <2>1. 1 .. 0 = {}
    OBVIOUS
  <2> QED
    BY <2>1 DEF IsFolder, HasSteps
<1>4. ASSUME NEW k \in T
      PROVE  k + 1 \in T
  <2>1. k \in Nat
    OBVIOUS
  <2> QED
    <3>1. SUFFICES ASSUME k + 1 <= Len(xs)
                   PROVE  g[1 .. k + 1] \in V
      BY <2>1
    <3>2. g[1 .. k] \in V
      BY <1>1, <2>1, <3>1
    <3> QED
      BY <1>2, <2>1, <3>1, <3>2
<1> HIDE DEF T
<1>5. T = Nat
  <2>1. T \subseteq Nat
    BY DEF T
  <2> QED
    BY <1>3, <1>4, <2>1, Induction
<1> DEFINE c == [k \in Nat |-> g[1 .. k]]
<1>6. IsChain(c, f, base, xs)
  <2>1. c[0] = base
    <3>1. 1 .. 0 = {}
      OBVIOUS
    <3> QED
      BY <3>1 DEF HasSteps
  <2>2. ASSUME NEW k \in Nat, k + 1 <= Len(xs)
        PROVE  c[k + 1] = f[<<c[k], xs[k + 1]>>]
    <3>1. k + 1 \in Nat /\ k <= Len(xs)
      BY <1>1, <2>2
    <3>2. g[1 .. k] \in V
      BY <1>5, <3>1 DEF T
    <3>3. g[1 .. k + 1] = f[<<g[1 .. k], xs[k + 1]>>]
      BY <1>2, <2>2, <3>2
    <3>4. c[k + 1] = g[1 .. k + 1] /\ c[k] = g[1 .. k]
      BY <3>1
    <3> HIDE DEF c
    <3> QED
      BY <3>3, <3>4
  <2> HIDE DEF c
  <2> QED
    BY <2>1, <2>2 DEF IsChain
<1>7. c[Len(xs)] = g[DOMAIN xs]
  BY <1>1
<1> HIDE DEF c
<1> QED
  BY <1>6, <1>7, FoldedIs

\* A fold with values in V.
FoldsIn(h, f, base, xs, V, E) ==
  /\ IsFold(h, f, base, xs, DOMAIN xs)
  /\ \A s \in SUBSET DOMAIN xs : s # {} => h[s \ {Max(s)}] \in V /\ xs[Max(s)] \in E

\* There is one.
LEMMA FoldInV ==
  ASSUME NEW V, NEW E, NEW f, NEW base, NEW xs, IsFolder(f, base, V, E), xs \in Seq(E)
  PROVE  \E h : FoldsIn(h, f, base, xs, V, E)
<1>1. PICK h \in [SUBSET DOMAIN xs -> V] : IsFold(h, f, base, xs, DOMAIN xs)
  BY FoldExists DEF IsFolder
<1>2. DOMAIN xs = 1 .. Len(xs) /\ Len(xs) \in Nat /\ \A k \in DOMAIN xs : xs[k] \in E
  OBVIOUS
<1>3. ASSUME NEW s \in SUBSET DOMAIN xs, s # {}
      PROVE  h[s \ {Max(s)}] \in V /\ xs[Max(s)] \in E
  <2>1. Max(s) \in s
    BY <1>2, <1>3, Largest
  <2>2. s \ {Max(s)} \in SUBSET DOMAIN xs
    OBVIOUS
  <2> QED
    BY <1>2, <2>1, <2>2
<1> QED
  BY <1>1, <1>3 DEF FoldsIn
===============================================================================
