----------------------------- MODULE Output_proofs -----------------------------
(***************************************************************************)
(* Proofs about Output: what is sent is what the hits say, the text of an  *)
(* override does not depend on the order of Vars.Replace, and the scanner  *)
(* of shlex gives back the words of a command as they are written.         *)
(***************************************************************************)
EXTENDS Output, SequenceLemmas

-----------------------------------------------------------------------------
(***************************************************************************)
(* Putting a sequence in the place of every element.                       *)
(***************************************************************************)
Put(f, text) == FlattenSeq(Each(f, text))

\* A step of it.
LEMMA PutAppend ==
  ASSUME NEW S, NEW f, Maps(f, S, Seq(S)), NEW t \in Seq(S), NEW x \in S
  PROVE  /\ Put(f, t) \in Seq(S)
         /\ Put(f, Append(t, x)) = Put(f, t) \o f[x]
<1> DEFINE T == Seq(S)
<1>1. f[x] \in T
  BY DEF Maps
<1>2. Maps(f, S, T)
  OBVIOUS
<1> HIDE DEF T
<1>3. Each(f, t) \in Seq(T) /\ Each(f, Append(t, x)) = Append(Each(f, t), f[x])
  BY <1>2, EachAppend
<1>4. FlattenSeq(Each(f, t)) \in Seq(S)
  BY <1>3, FlattenType DEF T
<1>5. FlattenSeq(Append(Each(f, t), f[x])) = FlattenSeq(Each(f, t)) \o f[x]
  BY <1>1, <1>3, FlattenAppend DEF T
<1> QED
  BY <1>3, <1>4, <1>5 DEF Put

\* In nothing there is nothing to replace.
LEMMA PutNothing ==
  ASSUME NEW f
  PROVE  Put(f, <<>>) = <<>>
<1>1. Each(f, <<>>) = <<>>
  BY DEF Each
<1> QED
  BY <1>1, FlattenNothing DEF Put

\* What comes out is a sequence.
LEMMA PutType ==
  ASSUME NEW S, NEW f, Maps(f, S, Seq(S)), NEW t \in Seq(S)
  PROVE  Put(f, t) \in Seq(S)
<1>1. CASE t = <<>>
  BY <1>1, PutNothing
<1>2. CASE t # <<>>
  <2>1. PICK x \in S : TRUE
    BY <1>2, SequenceEmptyOrAppend
  <2> QED
    BY PutAppend
<1> QED
  BY <1>1, <1>2

\* In the place of a single element.
LEMMA PutOne ==
  ASSUME NEW S, NEW f, Maps(f, S, Seq(S)), NEW x \in S
  PROVE  Put(f, <<x>>) = f[x]
<1>1. <<>> \in Seq(S) /\ Append(<<>>, x) = <<x>> /\ f[x] \in Seq(S)
  BY DEF Maps
<1>2. Put(f, Append(<<>>, x)) = Put(f, <<>>) \o f[x]
  BY <1>1, PutAppend
<1>3. <<>> \o f[x] = f[x]
  BY <1>1, ConcatEmptySeq
<1> QED
  BY <1>1, <1>2, <1>3, PutNothing, Zenon

\* The pieces come one after another.
LEMMA PutConcat ==
  ASSUME NEW S, NEW f, Maps(f, S, Seq(S)), NEW s \in Seq(S), NEW t \in Seq(S)
  PROVE  Put(f, s \o t) = Put(f, s) \o Put(f, t)
<1> DEFINE G == {u \in Seq(S) : Put(f, s \o u) = Put(f, s) \o Put(f, u)}
<1>1. <<>> \in G
  <2>1. Put(f, s) \in Seq(S) /\ s \o <<>> = s
    BY PutType, ConcatEmptySeq
  <2>2. Put(f, s) \o <<>> = Put(f, s)
    BY <2>1, ConcatEmptySeq
  <2> QED
    BY <2>1, <2>2, PutNothing
<1>2. ASSUME NEW u \in Seq(S), NEW x \in S, u \in G
      PROVE  Append(u, x) \in G
  <2>1. s \o u \in Seq(S) /\ s \o Append(u, x) = Append(s \o u, x)
    OBVIOUS
  <2>2. Put(f, s \o Append(u, x)) = Put(f, s \o u) \o f[x]
    <3> DEFINE v == s \o u
    <3> HIDE DEF v
    <3>1. v \in Seq(S) /\ s \o Append(u, x) = Append(v, x)
      BY <2>1 DEF v
    <3>2. Put(f, Append(v, x)) = Put(f, v) \o f[x]
      BY <3>1, PutAppend
    <3> QED
      BY <3>1, <3>2, Zenon DEF v
  <2>3. Put(f, Append(u, x)) = Put(f, u) \o f[x]
    BY PutAppend
  <2>4. Put(f, s) \in Seq(S) /\ Put(f, u) \in Seq(S) /\ f[x] \in Seq(S)
    BY PutType DEF Maps
  <2>5. (Put(f, s) \o Put(f, u)) \o f[x] = Put(f, s) \o (Put(f, u) \o f[x])
    <3> DEFINE a == Put(f, s)
               b == Put(f, u)
               c == f[x]
    <3>1. a \in Seq(S) /\ b \in Seq(S) /\ c \in Seq(S)
      BY <2>4
    <3> HIDE DEF a, b, c
    <3>2. (a \o b) \o c = a \o (b \o c)
      BY <3>1, ConcatAssociative
    <3> QED
      BY <3>2, Zenon DEF a, b, c
  <2>6. Append(u, x) \in Seq(S) /\ Put(f, s \o u) = Put(f, s) \o Put(f, u)
    BY <1>2
  <2>7. Put(f, s \o Append(u, x)) = Put(f, s) \o Put(f, Append(u, x))
    BY <2>2, <2>3, <2>5, <2>6, Zenon
  <2> QED
    BY <2>6, <2>7
<1> HIDE DEF G
<1>3. t \in G
  BY <1>1, <1>2, Growing
<1> QED
  BY <1>3 DEF G

\* What is left alone is as it was.
LEMMA PutSame ==
  ASSUME NEW S, NEW f, Maps(f, S, Seq(S)), NEW t \in Seq(S), \A x \in Range(t) : f[x] = <<x>>
  PROVE  Put(f, t) = t
<1> DEFINE G == {u \in Seq(S) : (\A x \in Range(u) : f[x] = <<x>>) => Put(f, u) = u}
<1>1. <<>> \in G
  BY PutNothing
<1>2. ASSUME NEW u \in Seq(S), NEW x \in S, u \in G, \A y \in Range(Append(u, x)) : f[y] = <<y>>
      PROVE  Put(f, Append(u, x)) = Append(u, x)
  <2>1. Range(Append(u, x)) = Range(u) \cup {x}
    BY InRange
  <2>2. Put(f, u) = u /\ f[x] = <<x>>
    BY <1>2, <2>1
  <2>3. u \o <<x>> = Append(u, x)
    OBVIOUS
  <2>4. Put(f, Append(u, x)) = Put(f, u) \o f[x]
    BY PutAppend
  <2> QED
    BY <2>2, <2>3, <2>4, Zenon
<1>3. \A u \in Seq(S), x \in S : u \in G => Append(u, x) \in G
  BY <1>2
<1> HIDE DEF G
<1>4. t \in G
  BY <1>1, <1>3, Growing
<1> QED
  BY <1>4 DEF G

\* h puts in what f does with g's replacements made in it.
AtOnce(f, g, h, S) ==
  Maps(f, S, Seq(S)) /\ Maps(g, S, Seq(S)) /\ Maps(h, S, Seq(S)) /\ \A x \in S : h[x] = Put(g, f[x])

\* Replacing in what has been put in is replacing at once.
LEMMA PutTwice ==
  ASSUME NEW S, NEW f, NEW g, NEW h, AtOnce(f, g, h, S), NEW t \in Seq(S)
  PROVE  Put(g, Put(f, t)) = Put(h, t)
<1> DEFINE G == {u \in Seq(S) : Put(g, Put(f, u)) = Put(h, u)}
<1>1. <<>> \in G
  BY PutNothing
<1>2. ASSUME NEW u \in Seq(S), NEW x \in S, u \in G
      PROVE  Append(u, x) \in G
  <2>1. /\ Put(f, Append(u, x)) = Put(f, u) \o f[x]
        /\ Put(f, u) \in Seq(S) /\ f[x] \in Seq(S)
    <3>1. Maps(f, S, Seq(S))
      BY DEF AtOnce
    <3> QED
      BY <3>1, PutAppend DEF Maps
  <2>2. Put(h, Append(u, x)) = Put(h, u) \o h[x]
    <3>1. Maps(h, S, Seq(S))
      BY DEF AtOnce
    <3> QED
      BY <3>1, PutAppend
  <2>3. \A p, q \in Seq(S) : Put(g, p \o q) = Put(g, p) \o Put(g, q)
    <3>1. Maps(g, S, Seq(S))
      BY DEF AtOnce
    <3> QED
      BY <3>1, PutConcat
  <2>4. Append(u, x) \in Seq(S) /\ Put(g, Put(f, u)) = Put(h, u) /\ h[x] = Put(g, f[x])
    BY <1>2 DEF AtOnce
  <2>5. Put(g, Put(f, Append(u, x))) = Put(h, Append(u, x))
    BY <2>1, <2>2, <2>3, <2>4, Zenon
  <2> QED
    BY <2>4, <2>5
<1> HIDE DEF G
<1>3. t \in G
  BY <1>1, <1>2, Growing
<1> QED
  BY <1>3 DEF G

-----------------------------------------------------------------------------
(***************************************************************************)
(* Replace and Expanded, rune by rune.  S is what texts are made of.       *)
(***************************************************************************)
AreTexts(S, vs) ==
  /\ \A p \in DOMAIN Forms : Forms[p].text \in Seq(S) /\ Range(Forms[p].text) \cap DOMAIN Forms = {}
  /\ \A x \in DOMAIN vs : vs[x] \in Seq(S) /\ Range(vs[x]) \cap DOMAIN Forms = {}

\* What becomes of a rune in ReplaceOne and in Expanded.
One(S, name, value) ==
  [r \in S |->
     CASE r \notin DOMAIN Forms -> <<r>>
       [] r \in DOMAIN Forms /\ Forms[r].name # name -> <<r>>
       [] OTHER -> IF Forms[r].text = <<>> THEN value
                   ELSE IF value # <<>> THEN Forms[r].text ELSE <<>>]
All(S, names, vs) ==
  [r \in S |->
     IF r \notin DOMAIN Forms THEN <<r>>
     ELSE LET p == Forms[r]
          IN  CASE p.name \notin names -> <<r>>
                [] p.name \in names /\ p.text = <<>> -> vs[p.name]
                [] OTHER -> IF vs[p.name] # <<>> THEN p.text ELSE <<>>]

\* Both put a text in the place of each rune.
LEMMA RuneByRune ==
  ASSUME NEW S, NEW text \in Seq(S)
  PROVE  /\ \A name, value : ReplaceOne(text, name, value) = Put(One(S, name, value), text)
         /\ \A names, vs : Expanded(text, names, vs) = Put(All(S, names, vs), text)
<1>1. \A k \in DOMAIN text : text[k] \in S
  OBVIOUS
<1>2. ASSUME NEW name, NEW value
      PROVE  ReplaceOne(text, name, value) = Put(One(S, name, value), text)
  BY <1>1, Zenon DEF ReplaceOne, Put, Each, One
<1>3. ASSUME NEW names, NEW vs
      PROVE  Expanded(text, names, vs) = Put(All(S, names, vs), text)
  BY <1>1, Zenon DEF Expanded, Put, Each, All
<1> QED
  BY <1>2, <1>3

\* Each rune becomes a text.
LEMMA RuneTypes ==
  ASSUME NEW S, NEW vs, AreTexts(S, vs), NEW T, T \subseteq DOMAIN vs
  PROVE  /\ \A x \in DOMAIN vs : Maps(One(S, x, vs[x]), S, Seq(S))
         /\ Maps(All(S, T, vs), S, Seq(S))
<1> DEFINE Q == Seq(S)
<1>1. \A r \in S : <<r>> \in Q
  OBVIOUS
<1>2. <<>> \in Q
  OBVIOUS
<1>3. /\ \A p \in DOMAIN Forms : Forms[p].text \in Q
      /\ \A x \in DOMAIN vs : vs[x] \in Q
  BY DEF AreTexts
<1> HIDE DEF Q
<1>4. ASSUME NEW x \in DOMAIN vs
      PROVE  Maps(One(S, x, vs[x]), S, Q)
  BY <1>1, <1>2, <1>3 DEF Maps, One
<1>5. Maps(All(S, T, vs), S, Q)
  BY <1>1, <1>2, <1>3 DEF Maps, All
<1> QED
  BY <1>4, <1>5 DEF Q

\* A variable more is replaced after the others or with them alike, because what the
\* others have put in has no placeholders.
LEMMA OneMore ==
  ASSUME NEW S, NEW vs, AreTexts(S, vs), NEW T, T \subseteq DOMAIN vs, NEW x \in DOMAIN vs,
         NEW text \in Seq(S)
  PROVE  ReplaceOne(Expanded(text, T, vs), x, vs[x]) = Expanded(text, T \cup {x}, vs)
<1> DEFINE f == All(S, T, vs)
           g == One(S, x, vs[x])
           h == All(S, T \cup {x}, vs)
<1>1. Maps(f, S, Seq(S)) /\ Maps(g, S, Seq(S)) /\ Maps(h, S, Seq(S))
  <2>1. T \cup {x} \subseteq DOMAIN vs
    OBVIOUS
  <2> QED
    BY <2>1, RuneTypes
<1>2. ASSUME NEW r \in S
      PROVE  h[r] = Put(g, f[r])
  <2>1. f[r] = <<r>> => Put(g, f[r]) = g[r]
    <3>1. Put(g, <<r>>) = g[r]
      <4> HIDE DEF f, g, h
      <4> QED
        BY <1>1, PutOne
    <3> QED
      BY <3>1, Zenon
  <2>2. CASE r \notin DOMAIN Forms
    <3>1. f[r] = <<r>> /\ g[r] = <<r>> /\ h[r] = <<r>>
      BY <2>2 DEF All, One
    <3> QED
      BY <2>1, <3>1, Zenon
  <2>3. CASE r \in DOMAIN Forms /\ Forms[r].name \notin T
    <3>1. f[r] = <<r>>
      BY <2>3 DEF All
    <3>2. g[r] = h[r]
      BY <2>3 DEF All, One
    <3> QED
      BY <2>1, <3>1, <3>2, Zenon
  <2>4. CASE r \in DOMAIN Forms /\ Forms[r].name \in T
    <3>1. f[r] = h[r]
      BY <2>4 DEF All
    <3>2. f[r] \in Seq(S) /\ Range(f[r]) \cap DOMAIN Forms = {}
      <4>1. Range(<<>>) = {}
        BY DEF Range
      <4> QED
        BY <1>1, <2>4, <4>1 DEF All, AreTexts, Maps
    <3>3. \A y \in Range(f[r]) : y \in S /\ g[y] = <<y>>
      <4>1. Range(f[r]) \subseteq S
        BY <3>2, InRange
      <4> HIDE DEF f
      <4> QED
        BY <3>2, <4>1 DEF One
    <3>4. Put(g, f[r]) = f[r]
      <4> DEFINE t == f[r]
      <4>1. t \in Seq(S) /\ \A y \in Range(t) : g[y] = <<y>>
        BY <3>2, <3>3
      <4> HIDE DEF f, g, h, t
      <4>2. Put(g, t) = t
        BY <1>1, <4>1, PutSame
      <4> QED
        BY <4>2 DEF t
    <3> QED
      BY <3>1, <3>4, Zenon
  <2> QED
    BY <2>2, <2>3, <2>4
<1>3. AtOnce(f, g, h, S)
  <2> HIDE DEF f, g, h
  <2> QED
    BY <1>1, <1>2 DEF AtOnce
<1>4. Put(g, Put(f, text)) = Put(h, text)
  <2> HIDE DEF f, g, h
  <2> QED
    BY <1>3, PutTwice
<1>5. Expanded(text, T, vs) = Put(f, text) /\ Expanded(text, T \cup {x}, vs) = Put(h, text)
  BY RuneByRune
<1>6. Put(f, text) \in Seq(S)
  <2> HIDE DEF f, g, h
  <2> QED
    BY <1>1, PutType
<1>7. ReplaceOne(Put(f, text), x, vs[x]) = Put(g, Put(f, text))
  <2> DEFINE t == Put(f, text)
  <2> HIDE DEF t
  <2>1. t \in Seq(S)
    BY <1>6 DEF t
  <2> QED
    BY <2>1, RuneByRune DEF t
<1> QED
  BY <1>4, <1>5, <1>7, Zenon

\* Replacing one variable after another is replacing them at once.
LEMMA ReplacedInTurn ==
  ASSUME NEW S, NEW vs, AreTexts(S, vs), NEW text \in Seq(S), NEW o \in Seq(DOMAIN vs)
  PROVE  Replace(text, o, vs) = Expanded(text, Range(o), vs)
<1> DEFINE V == Seq(S)
           E == DOMAIN vs
           f == [p \in V \X E |-> ReplaceOne(p[1], p[2], vs[p[2]])]
           InTurn(h) == h = [s \in SUBSET DOMAIN o |->
             IF s = {} THEN text ELSE ReplaceOne(h[s \ {Max(s)}], o[Max(s)], vs[o[Max(s)]])]
<1>1. ASSUME NEW p \in V \X E
      PROVE  ReplaceOne(p[1], p[2], vs[p[2]]) \in V
  <2>1. p[1] \in Seq(S) /\ p[2] \in DOMAIN vs
    OBVIOUS
  <2> DEFINE t == p[1]
             x == p[2]
             g == One(S, x, vs[x])
  <2>2. t \in Seq(S) /\ Maps(g, S, Seq(S)) /\ ReplaceOne(t, x, vs[x]) = Put(g, t)
    <3>1. {} \subseteq DOMAIN vs
      OBVIOUS
    <3> QED
      BY <2>1, <3>1, RuneTypes, RuneByRune
  <2> HIDE DEF g, t
  <2>3. Put(g, t) \in Seq(S)
    BY <2>2, PutType
  <2> QED
    BY <2>2, <2>3 DEF t
<1>2. f \in [V \X E -> V]
  BY <1>1
<1>3. text \in V /\ o \in Seq(E)
  OBVIOUS
<1> HIDE DEF V, E
<1>4. PICK h \in [SUBSET DOMAIN o -> V] : IsFold(h, f, text, o, DOMAIN o)
  BY <1>2, <1>3, FoldExists
<1>5. \A s \in SUBSET DOMAIN o : s # {} => Max(s) \in s /\ o[Max(s)] \in E
  <2>1. DOMAIN o = 1 .. Len(o) /\ Len(o) \in Nat /\ \A k \in DOMAIN o : o[k] \in E
    BY <1>3
  <2> QED
    BY <2>1, Largest
<1>6. InTurn(h)
  <2>1. \A s \in SUBSET DOMAIN o : s # {} =>
          f[<<h[s \ {Max(s)}], o[Max(s)]>>] =
          ReplaceOne(h[s \ {Max(s)}], o[Max(s)], vs[o[Max(s)]])
    BY <1>4, <1>5
  <2> QED
    BY <1>4, <2>1 DEF IsFold
<1> DEFINE g == CHOOSE i : InTurn(i)
<1>7. InTurn(g) /\ Replace(text, o, vs) = g[DOMAIN o]
  BY <1>6 DEF Replace, FoldLeft, MapThenFoldSet
<1> HIDE DEF f, g
<1> DEFINE Names(k) == {o[i] : i \in 1 .. k}
           Good(k) == g[1 .. k] = Expanded(text, Names(k), vs)
<1>8. Good(0)
  <2>1. 1 .. 0 = {} /\ Names(0) = {}
    OBVIOUS
  <2>2. g[{}] = text
    BY <1>7
  <2>3. Expanded(text, {}, vs) = text
    <3> DEFINE e == All(S, {}, vs)
    <3>1. Maps(e, S, Seq(S)) /\ \A r \in S : e[r] = <<r>>
      <4>1. {} \subseteq DOMAIN vs
        OBVIOUS
      <4>2. Maps(All(S, {}, vs), S, Seq(S))
        BY <4>1, RuneTypes
      <4>3. \A r \in S : e[r] = <<r>>
        BY DEF All
      <4> QED
        BY <4>2, <4>3
    <3>2. Range(text) \subseteq S
      BY InRange
    <3> HIDE DEF e
    <3>3. Put(e, text) = text
      BY <3>1, <3>2, PutSame
    <3> QED
      BY <3>3, RuneByRune DEF e
  <2> QED
    BY <2>1, <2>2, <2>3
<1>9. ASSUME NEW k \in Nat, k + 1 <= Len(o), Good(k)
      PROVE  Good(k + 1)
  <2>1. g[1 .. k + 1] = ReplaceOne(g[1 .. k], o[k + 1], vs[o[k + 1]]) /\ o[k + 1] \in DOMAIN vs
    <3>1. DOMAIN o = 1 .. Len(o) /\ 1 .. k + 1 \in SUBSET DOMAIN o /\ o[k + 1] \in DOMAIN vs
      BY <1>9
    <3> DEFINE s == 1 .. k + 1
    <3>2. s # {} /\ Max(s) = k + 1 /\ s \ {k + 1} = 1 .. k
      BY Prefix
    <3>3. s \in SUBSET DOMAIN o
      BY <3>1
    <3> HIDE DEF s
    <3>4. g[s] = ReplaceOne(g[s \ {Max(s)}], o[Max(s)], vs[o[Max(s)]])
      BY <1>7, <3>2, <3>3
    <3> QED
      BY <3>1, <3>2, <3>4 DEF s
  <2>2. Names(k) \subseteq DOMAIN vs /\ Names(k + 1) = Names(k) \cup {o[k + 1]}
    <3>1. DOMAIN o = 1 .. Len(o) /\ Len(o) \in Nat /\ \A i \in 1 .. Len(o) : o[i] \in DOMAIN vs
      OBVIOUS
    <3>2. /\ \A i \in 1 .. k : i \in 1 .. Len(o) /\ i \in 1 .. k + 1
          /\ \A i \in 1 .. k + 1 : i \in 1 .. k \/ i = k + 1
          /\ k + 1 \in 1 .. k + 1
      BY <1>9, <3>1
    <3> QED
      BY <3>1, <3>2
  <2> DEFINE x == o[k + 1]
             T == Names(k)
  <2>3. T \subseteq DOMAIN vs /\ x \in DOMAIN vs
    BY <2>1, <2>2
  <2> HIDE DEF Names, x, T
  <2>4. ReplaceOne(Expanded(text, T, vs), x, vs[x]) = Expanded(text, T \cup {x}, vs)
    BY <2>3, OneMore
  <2> QED
    BY <1>9, <2>1, <2>2, <2>4 DEF x, T
<1> DEFINE K == {k \in Nat : k <= Len(o) => Good(k)}
<1>10. K = Nat
  <2>1. 0 \in K
    BY <1>8
  <2>2. ASSUME NEW k \in K
        PROVE  k + 1 \in K
    <3>1. SUFFICES ASSUME k + 1 <= Len(o)
                   PROVE  Good(k + 1)
      OBVIOUS
    <3>2. k \in Nat /\ k <= Len(o) /\ Len(o) \in Nat
      BY <3>1
    <3>3. Good(k)
      BY <2>2, <3>2
    <3> HIDE DEF Good
    <3> QED
      BY <1>9, <3>1, <3>2, <3>3
  <2> HIDE DEF K
  <2>3. K \subseteq Nat
    BY DEF K
  <2> QED
    BY <2>1, <2>2, <2>3, Induction
<1>11. Good(Len(o))
  <2> HIDE DEF Good
  <2>1. Len(o) \in Nat /\ Len(o) <= Len(o)
    OBVIOUS
  <2>2. Len(o) \in K
    BY <1>10, <2>1, Zenon
  <2> QED
    BY <2>1, <2>2
<1>12. DOMAIN o = 1 .. Len(o) /\ Names(Len(o)) = Range(o)
  BY DEF Range
<1> QED
  BY <1>7, <1>11, <1>12

\* The names that a text mentions are finitely many.
LEMMA FewNames ==
  ASSUME NEW S, NEW text \in Seq(S), NEW T
  PROVE  IsFiniteSet(T \cap Mentioned(text))
<1> DEFINE D == {k \in DOMAIN text : text[k] \in DOMAIN Forms /\ Forms[text[k]].name \in T}
           f == [k \in D |-> Forms[text[k]].name]
           N == T \cap Mentioned(text)
<1>1. IsFiniteSet(DOMAIN text)
  <2>1. DOMAIN text = 1 .. Len(text) /\ Len(text) \in Int /\ 1 \in Int
    OBVIOUS
  <2> QED
    BY <2>1, FS_Interval
<1>2. IsFiniteSet(D)
  <2>1. D \in SUBSET DOMAIN text
    OBVIOUS
  <2> QED
    BY <1>1, <2>1, FS_Subset
<1>3. f \in Surjection(D, N)
  <2>1. \A x \in N : \E k \in D : f[k] = x
    BY DEF Mentioned, Range
  <2>2. f \in [D -> N]
    BY DEF Mentioned, Range
  <2> HIDE DEF f, D, N
  <2> QED
    BY <2>1, <2>2 DEF Surjection
<1> HIDE DEF D, f, N
<1>4. IsFiniteSet(N)
  BY <1>2, <1>3, FS_Surjection
<1> QED
  BY <1>4 DEF N

\* In which order the map is ranged over does not matter when no value has the form of a
\* placeholder: each variable that the text mentions is replaced.
LEMMA AnyOrder ==
  ASSUME NEW S, NEW vs, AreTexts(S, vs), NEW text \in Seq(S), NEW o \in Orders(text, vs)
  PROVE  Replace(text, o, vs) = Expanded(text, DOMAIN vs, vs)
<1> DEFINE N == DOMAIN vs \cap Mentioned(text)
           size == Cardinality(N)
<1>1. IsFiniteSet(N)
  BY FewNames
<1>2. o \in SetToSeqs(N)
  <2>1. \A x \in DOMAIN vs : Mentioned(vs[x]) = {}
    BY DEF AreTexts, Mentioned
  <2>2. DOMAIN vs \cap (Mentioned(text) \cup UNION {Mentioned(vs[x]) : x \in DOMAIN vs}) = N
    BY <2>1
  <2> QED
    BY <2>2 DEF Orders
<1> HIDE DEF N
<1>3. size \in Nat
  BY <1>1, FS_CardinalityType
<1>4. o \in [1 .. size -> N] /\ IsInjective(o)
  <2>1. o \in [1 .. size -> N] /\ \A i, j \in 1 .. size : i # j => o[i] # o[j]
    BY <1>2 DEF SetToSeqs
  <2> QED
    BY <2>1 DEF IsInjective
<1>5. o \in Surjection(1 .. size, N)
  <2>1. o \in Injection(1 .. size, N)
    BY <1>4 DEF Injection
  <2>2. IsFiniteSet(1 .. size) /\ Cardinality(1 .. size) = size
    BY <1>3, FS_Interval
  <2>3. QED
    BY <1>1, <2>1, <2>2, FS_Injection
<1>6. o \in Seq(N) /\ Range(o) = N
  <2>1. \A x \in N : \E k \in 1 .. size : o[k] = x
    BY <1>5 DEF Surjection
  <2>2. o \in Seq(N) /\ DOMAIN o = 1 .. size
    BY <1>3, <1>4 DEF Seq
  <2> QED
    BY <1>4, <2>1, <2>2 DEF Range
<1>7. o \in Seq(DOMAIN vs)
  BY <1>6 DEF N
<1>8. Replace(text, o, vs) = Expanded(text, N, vs)
  BY <1>6, <1>7, ReplacedInTurn
<1>9. Expanded(text, N, vs) = Expanded(text, DOMAIN vs, vs)
  <2>1. \A k \in DOMAIN text : text[k] \in DOMAIN Forms =>
          (Forms[text[k]].name \in N <=> Forms[text[k]].name \in DOMAIN vs)
    BY DEF N, Mentioned, Range
  <2> DEFINE e(T) == [k \in DOMAIN text |->
               IF text[k] \notin DOMAIN Forms THEN <<text[k]>>
               ELSE LET p == Forms[text[k]]
                    IN  CASE p.name \notin T -> <<text[k]>>
                          [] p.name \in T /\ p.text = <<>> -> vs[p.name]
                          [] OTHER -> IF vs[p.name] # <<>> THEN p.text ELSE <<>>]
  <2>2. e(N) = e(DOMAIN vs)
    BY <2>1
  <2>3. \A T : Expanded(text, T, vs) = FlattenSeq(e(T))
    BY Zenon DEF Expanded
  <2> HIDE DEF e
  <2> QED
    BY <2>2, <2>3
<1> QED
  BY <1>8, <1>9

-----------------------------------------------------------------------------
(***************************************************************************)
(* The local variables are those of the last hits that matched.            *)
(***************************************************************************)
\* What the assumption says of the linter.
LEMMA LinterIs ==
  ASSUME linter \in Cases
  PROVE  /\ Len(linter.hits) \in Nat /\ DOMAIN linter.hits = 1 .. Len(linter.hits)
         /\ \A k \in 1 .. Len(linter.hits) :
              /\ DOMAIN linter.hits[k] \subseteq 1 .. Len(linter.groups)
              /\ \A i \in DOMAIN linter.hits[k] : linter.hits[k][i] \in Seq(STRING)
         /\ Len(linter.groups) \in Nat
<1>1. linter.hits \in Seq(Range(linter.hits)) /\ linter.groups \in Seq(STRING)
  BY OutputAssumption
<1>2. DOMAIN linter.hits = 1 .. Len(linter.hits) /\ Len(linter.hits) \in Nat
  BY <1>1
<1>3. DOMAIN linter.groups = 1 .. Len(linter.groups) /\ Len(linter.groups) \in Nat
  BY <1>1
<1> QED
  BY <1>2, <1>3, OutputAssumption

\* A name has a last group that matched if it has any.
LEMMA LastMatch ==
  ASSUME linter \in Cases, NEW k \in 1 .. Len(linter.hits), NEW x
  PROVE  /\ Matching(linter.hits[k], x) \subseteq DOMAIN linter.hits[k]
         /\ Matching(linter.hits[k], x) = {} <=>
              x \notin {linter.groups[i] : i \in DOMAIN linter.hits[k]}
<1> DEFINE gs == {i \in DOMAIN linter.hits[k] : linter.groups[i] = x}
           size == Len(linter.groups)
<1>1. size \in Nat /\ gs \subseteq 1 .. size
  BY LinterIs
<1>2. Matching(linter.hits[k], x) = {i \in gs : \A j \in gs : j <= i}
  BY DEF Matching
<1>3. gs # {} => Max(gs) \in gs /\ \A j \in gs : Max(gs) >= j
  <2> HIDE DEF gs, size
  <2> QED
    BY <1>1, Largest
<1>4. \A i, j \in gs : i \in Int /\ j \in Int
  BY <1>1
<1>5. gs # {} => Matching(linter.hits[k], x) # {}
  <2> HIDE DEF gs, size
  <2> QED
    BY <1>2, <1>3, <1>4
<1> QED
  BY <1>2, <1>5

\* One number more.
LEMMA OneNumberMore ==
  ASSUME NEW k \in Nat
  PROVE  /\ \A l : l \in 1 .. k + 1 <=> l \in 1 .. k \/ l = k + 1
         /\ \A l \in 1 .. k + 1 : l <= k + 1 /\ (k + 1 <= l => l = k + 1)
<1>1. \A l : l \in 1 .. k + 1 <=> l \in 1 .. k \/ l = k + 1
  OBVIOUS
<1>2. \A l \in 1 .. k + 1 : l <= k + 1 /\ (k + 1 <= l => l = k + 1)
  OBVIOUS
<1> QED
  BY <1>1, <1>2, Zenon

\* A hit more sets the variables whose groups match in it.
LEMMA HitFills ==
  ASSUME linter \in Cases, NEW k \in Nat, k + 1 <= Len(linter.hits)
  PROVE  Filled(ValueAt(k), linter.hits[k + 1]) = ValueAt(k + 1)
<1> DEFINE H(m) == linter.hits[m]
           Text(m, x) == H(m)[CHOOSE i \in Matching(H(m), x) : TRUE]
           Named(m) == {linter.groups[i] : i \in DOMAIN H(m)}
           Names(m) == (DOMAIN Vars \cup UNION {Named(l) : l \in 1 .. m}) \ {""}
           Latest(M) == CHOOSE l \in M : \A j \in M : j <= l
           Of(M, x) == IF M = {} THEN Vars[x] ELSE Text(Latest(M), x)
           Value(m, x) == Of(Since(x, m), x)
<1>1. k + 1 \in 1 .. Len(linter.hits)
  BY LinterIs
<1>2. \A m : ValueAt(m) = [x \in Names(m) |-> Value(m, x)]
  BY Zenon DEF ValueAt
<1>3. \A vs : Filled(vs, H(k + 1)) =
        [x \in (DOMAIN vs \cup Named(k + 1)) \ {""} |->
           IF Matching(H(k + 1), x) = {} THEN vs[x] ELSE Text(k + 1, x)]
  BY Zenon DEF Filled
<1>4. (Names(k) \cup Named(k + 1)) \ {""} = Names(k + 1)
  <2>1. \A l : l \in 1 .. k + 1 <=> l \in 1 .. k \/ l = k + 1
    BY OneNumberMore
  <2> HIDE DEF Named
  <2> QED
    BY <2>1
<1>5. \A x : Matching(H(k + 1), x) = {} <=> x \notin Named(k + 1)
  BY <1>1, LastMatch
<1>6. ASSUME NEW x \in Names(k + 1)
      PROVE  (IF Matching(H(k + 1), x) = {} THEN ValueAt(k)[x] ELSE Text(k + 1, x)) = Value(k + 1, x)
  <2>1. \A m : Since(x, m) = {l \in 1 .. m : Matching(H(l), x) # {}}
    BY DEF Since
  <2>2. /\ \A l : l \in 1 .. k + 1 <=> l \in 1 .. k \/ l = k + 1
        /\ \A l \in 1 .. k + 1 : l <= k + 1 /\ (k + 1 <= l => l = k + 1)
    <3>1. \A l : l \in 1 .. k + 1 <=> l \in 1 .. k \/ l = k + 1
      BY OneNumberMore, Zenon
    <3>2. \A l \in 1 .. k + 1 : l <= k + 1 /\ (k + 1 <= l => l = k + 1)
      BY OneNumberMore, Zenon
    <3> QED
      BY <3>1, <3>2, Zenon
  <2>3. CASE Matching(H(k + 1), x) = {}
    <3>1. Since(x, k + 1) = Since(x, k)
      BY <2>1, <2>2, <2>3
    <3>2. x \in Names(k)
      <4> HIDE DEF Names, Named
      <4> QED
        BY <1>4, <1>5, <2>3
    <3>3. ValueAt(k)[x] = Value(k, x)
      <4> HIDE DEF Names, Value
      <4> QED
        BY <1>2, <3>2
    <3>4. Value(k, x) = Value(k + 1, x)
      <4> HIDE DEF Of
      <4> QED
        BY <3>1, Zenon
    <3> QED
      BY <2>3, <3>3, <3>4, Zenon
  <2>4. CASE Matching(H(k + 1), x) # {}
    <3> DEFINE M == Since(x, k + 1)
    <3>1. k + 1 \in M /\ \A j \in M : j <= k + 1 /\ (k + 1 <= j => j = k + 1)
      BY <2>1, <2>2, <2>4
    <3> HIDE DEF M
    <3>2. (CHOOSE l \in M : \A j \in M : j <= l) = k + 1
      BY <3>1
    <3>3. Of(M, x) = Text(k + 1, x)
      <4> HIDE DEF Text
      <4> QED
        BY <3>1, <3>2, Zenon
    <3>4. Value(k + 1, x) = Text(k + 1, x)
      BY <3>3, Zenon DEF M
    <3> QED
      BY <2>4, <3>4, Zenon
  <2> QED
    BY <2>3, <2>4
<1> DEFINE hit == H(k + 1)
           V(x) == IF Matching(hit, x) = {} THEN ValueAt(k)[x] ELSE Text(k + 1, x)
<1>7. Filled(ValueAt(k), hit) = [x \in Names(k + 1) |-> V(x)]
  <2>1. DOMAIN ValueAt(k) = Names(k)
    <3> HIDE DEF Names, Value
    <3> QED
      BY <1>2
  <2>2. Filled(ValueAt(k), hit) = [x \in (DOMAIN ValueAt(k) \cup Named(k + 1)) \ {""} |-> V(x)]
    BY <1>3, Zenon
  <2> HIDE DEF Names, V, Named
  <2> QED
    BY <1>4, <2>1, <2>2
<1>8. \A x \in Names(k + 1) : V(x) = Value(k + 1, x)
  BY <1>6
<1> HIDE DEF Names, V, Value
<1> QED
  BY <1>2, <1>7, <1>8

\* Before the first hit they are those of the configuration.
LEMMA NoHit ==
  ValueAt(0) = Vars
<1>1. 1 .. 0 = {}
  OBVIOUS
<1>2. \A x : Since(x, 0) = {}
  BY <1>1 DEF Since
<1>3. ValueAt(0) = [x \in DOMAIN Vars |-> Vars[x]]
  BY <1>1, <1>2, OutputAssumption DEF ValueAt
<1> QED
  BY <1>3, OutputAssumption

\* The values are texts, and plain where those of the hits and of the configuration are.
LEMMA ValuesAreTexts ==
  ASSUME linter \in Cases, NEW k \in 0 .. Len(linter.hits), PlainValues
  PROVE  AreTexts(STRING, ValueAt(k))
<1> DEFINE Good(v) == v \in Seq(STRING) /\ Range(v) \cap DOMAIN Forms = {}
<1>1. \A x \in DOMAIN Vars : Good(Vars[x])
  BY OutputAssumption DEF PlainValues, PlainVars
<1>2. \A m \in 1 .. Len(linter.hits) : \A i \in DOMAIN linter.hits[m] : Good(linter.hits[m][i])
  BY LinterIs DEF PlainValues, PlainVars
<1>3. \A p \in DOMAIN Forms : Good(Forms[p].text)
  BY OutputAssumption
<1> HIDE DEF Good
<1>4. ASSUME NEW x \in DOMAIN ValueAt(k)
      PROVE  Good(ValueAt(k)[x])
  <2>0. Len(linter.hits) \in Nat /\ k \in Nat /\ \A l \in 1 .. k : l \in 1 .. Len(linter.hits)
    BY LinterIs
  <2>1. CASE Since(x, k) = {}
    <3>1. ValueAt(k)[x] = Vars[x]
      BY <2>1 DEF ValueAt
    <3>2. \A l \in 1 .. k : x \notin {linter.groups[i] : i \in DOMAIN linter.hits[l]}
      BY <2>0, <2>1, LastMatch DEF Since
    <3>3. x \in DOMAIN Vars
      BY <3>2 DEF ValueAt
    <3> QED
      BY <1>1, <3>1, <3>3
  <2>2. CASE Since(x, k) # {}
    <3> DEFINE m == CHOOSE m \in Since(x, k) : \A l \in Since(x, k) : l <= m
    <3>1. m \in Since(x, k)
      <4>1. Since(x, k) \subseteq 1 .. k
        BY DEF Since
      <4>2. Max(Since(x, k)) \in Since(x, k) /\ \A l \in Since(x, k) : Max(Since(x, k)) >= l
        BY <2>0, <2>2, <4>1, Largest
      <4>3. \E j \in Since(x, k) : \A l \in Since(x, k) : l <= j
        BY <2>0, <4>1, <4>2
      <4> QED
        BY <4>3
    <3>2. ValueAt(k)[x] = linter.hits[m][CHOOSE i \in Matching(linter.hits[m], x) : TRUE]
      BY <2>2, Zenon DEF ValueAt
    <3> HIDE DEF m
    <3>3. m \in 1 .. Len(linter.hits) /\ Matching(linter.hits[m], x) # {}
      BY <2>0, <3>1 DEF Since
    <3>4. \A i \in Matching(linter.hits[m], x) : i \in DOMAIN linter.hits[m]
      BY <3>3, LastMatch
    <3> QED
      BY <1>2, <3>2, <3>3, <3>4
  <2> QED
    BY <2>1, <2>2
<1> QED
  BY <1>3, <1>4 DEF AreTexts, Good

-----------------------------------------------------------------------------
(***************************************************************************)
(* What is sent.                                                           *)
(***************************************************************************)
\* The issue of one hit more comes after the others.
LEMMA ReportStep ==
  ASSUME NEW k \in Nat
  PROVE  Reported(k + 1) =
           IF Passes(k + 1) THEN Append(Reported(k), [hit |-> k + 1, issue |-> IssueAt(k + 1)])
           ELSE Reported(k)
<1> DEFINE i(j) == [hit |-> j, issue |-> IssueAt(j)]
           w(j) == IF Passes(j) THEN <<i(j)>> ELSE <<>>
           ss == [j \in 1 .. k |-> w(j)]
           ts == [j \in 1 .. k + 1 |-> w(j)]
           T == {i(j) : j \in 1 .. k + 1}
           S == Seq(T)
<1>1. /\ i(k + 1) \in T
      /\ \A j \in 1 .. k + 1 : i(j) \in T
  OBVIOUS
<1> HIDE DEF i, T
<1>2. \A x \in T : <<x>> \in S /\ \A s \in S : s \o <<x>> = Append(s, x)
  OBVIOUS
<1>3. <<>> \in S /\ \A s \in S : s \o <<>> = s
  OBVIOUS
<1>4. \A j \in 1 .. k + 1 : w(j) \in S
  <2> HIDE DEF S
  <2> QED
    BY <1>1, <1>2, <1>3
<1> HIDE DEF w
<1>5. ss \in Seq(S) /\ Len(ss) = k /\ (\A j \in 1 .. k : ss[j] = w(j)) /\ w(k + 1) \in S
  <2> HIDE DEF S
  <2>1. ss \in [1 .. k -> S]
    BY <1>4
  <2>2. w(k + 1) \in S
    BY <1>4
  <2> QED
    BY <2>1, <2>2
<1>6. ts = Append(ss, w(k + 1))
  <2> HIDE DEF S
  <2> DEFINE as == Append(ss, w(k + 1))
  <2>1. as \in Seq(S) /\ Len(as) = k + 1 /\ as[k + 1] = w(k + 1)
        /\ \A j \in 1 .. k : as[j] = w(j)
    BY <1>5
  <2>2. as = [j \in 1 .. k + 1 |-> as[j]]
    <3> HIDE DEF as
    <3> QED
      BY <2>1, LenProperties
  <2>3. \A j \in 1 .. k + 1 : as[j] = w(j)
    BY <2>1
  <2> HIDE DEF as
  <2>4. as = ts
    BY <2>2, <2>3
  <2> QED
    BY <2>4 DEF as
<1> HIDE DEF ss, ts
<1>7. FlattenSeq(ts) = FlattenSeq(ss) \o w(k + 1) /\ FlattenSeq(ss) \in S
  BY <1>5, <1>6, FlattenAppend, FlattenType
<1>8. Reported(k) = FlattenSeq(ss) /\ Reported(k + 1) = FlattenSeq(ts)
  BY Zenon DEF Reported, ss, ts, w, i
<1> HIDE DEF S
<1>9. CASE Passes(k + 1)
  <2>1. w(k + 1) = <<i(k + 1)>>
    BY <1>9 DEF w
  <2>2. Reported(k + 1) = Append(Reported(k), i(k + 1))
    BY <1>1, <1>2, <1>7, <1>8, <2>1
  <2> QED
    BY <1>9, <2>2 DEF i
<1>10. CASE ~Passes(k + 1)
  <2>1. w(k + 1) = <<>>
    BY <1>10 DEF w
  <2> QED
    BY <1>3, <1>7, <1>8, <1>10, <2>1
<1> QED
  BY <1>9, <1>10

\* Before the first hit nothing is sent.
LEMMA NothingReported ==
  Reported(0) = <<>>
<1>1. [k \in 1 .. 0 |-> IF Passes(k) THEN <<[hit |-> k, issue |-> IssueAt(k)]>> ELSE <<>>] = <<>>
  OBVIOUS
<1> QED
  BY <1>1, FlattenNothing DEF Reported

\* Each issue that is sent is the issue of its hit.
LEMMA ReportedOnes ==
  ASSUME NEW m \in Nat
  PROVE  /\ Reported(m) \in Seq({[hit |-> k, issue |-> IssueAt(k)] : k \in 1 .. m})
<1> DEFINE i(j) == [hit |-> j, issue |-> IssueAt(j)]
           T == {i(j) : j \in 1 .. m}
           S == Seq(T)
           ss == [j \in 1 .. m |-> IF Passes(j) THEN <<i(j)>> ELSE <<>>]
<1>1. \A j \in 1 .. m : i(j) \in T
  OBVIOUS
<1> HIDE DEF i, T
<1>2. \A x \in T : <<x>> \in S
  OBVIOUS
<1>3. <<>> \in S
  OBVIOUS
<1> HIDE DEF S
<1>4. ss \in [1 .. m -> S]
  BY <1>1, <1>2, <1>3
<1>5. ss \in Seq(S)
  BY <1>4 DEF Seq
<1>6. FlattenSeq(ss) \in Seq(T)
  <2> HIDE DEF ss
  <2> QED
    BY <1>5, FlattenType DEF S
<1>7. Reported(m) = FlattenSeq(ss)
  BY Zenon DEF Reported, i
<1> QED
  BY <1>6, <1>7, Zenon DEF T, i

\* The message is the one that is defined, in whatever order the variables are replaced.
LEMMA MessageIs ==
  ASSUME linter \in Cases, NEW k \in 1 .. Len(linter.hits), PlainValues,
         NEW m \in Messages(linter.hits[k], ValueAt(k))
  PROVE  m = MessageAsDefined(k)
<1>1. CASE linter.override = {}
  BY <1>1 DEF Messages, MessageAsDefined
<1>2. CASE linter.override # {}
  <2>1. linter.override \subseteq Seq(STRING) /\ \A t, u \in linter.override : t = u
    BY OutputAssumption
  <2> DEFINE Texts == STRING
             vs == ValueAt(k)
  <2>2. PICK t \in linter.override, o \in UNION {Orders(u, vs) : u \in linter.override} :
          m = Replace(t, o, vs)
    BY <1>2 DEF Messages
  <2>3. o \in Orders(t, vs) /\ t = (CHOOSE u \in linter.override : TRUE)
    BY <2>1, <2>2
  <2>4. AreTexts(Texts, vs)
    <3>1. k \in 0 .. Len(linter.hits)
      BY LinterIs
    <3> QED
      BY <3>1, ValuesAreTexts
  <2>5. t \in Seq(Texts)
    BY <2>1
  <2> HIDE DEF Texts, vs
  <2>6. Replace(t, o, vs) = Expanded(t, DOMAIN vs, vs)
    BY <2>3, <2>4, <2>5, AnyOrder
  <2> QED
    BY <1>2, <2>2, <2>3, <2>6, Zenon DEF MessageAsDefined, vs
<1> QED
  BY <1>1, <1>2

\* The definitions speak of the linter only.
LEMMA SameLinter ==
  ASSUME linter' = linter
  PROVE  /\ PlainValues' <=> PlainValues
         /\ ValueAt(n - 1)' = ValueAt(n' - 1)
         /\ Reported(n - 1)' = Reported(n' - 1)
<1>1. PlainValues' <=> PlainValues
  BY DEF PlainValues, PlainVars
<1>2. \A h, x : Matching(h, x)' = Matching(h, x)
  BY DEF Matching
<1>3. \A k : ValueAt(k)' = ValueAt(k)
  BY DEF ValueAt, Since, Matching
<1>4. \A h, x, f, d : Field(h, x, f, d)' = Field(h, x, f, d)
  BY DEF Field, Matching
<1>5. \A k : MessageAsDefined(k)' = MessageAsDefined(k)
  BY <1>3, <1>4 DEF MessageAsDefined
<1>6. \A k : IssueAt(k)' = IssueAt(k)
  BY DEF IssueAt, IssueOf, Field, Matching, MessageAsDefined, ValueAt, Since
<1>7. \A k : Passes(k)' <=> Passes(k)
  BY <1>6 DEF Passes
<1>8. Reported(n - 1)' = Reported(n' - 1)
  BY <1>6, <1>7 DEF Reported
<1>9. ValueAt(n - 1)' = ValueAt(n' - 1)
  BY DEF ValueAt, Since, Matching
<1> QED
  BY <1>1, <1>8, <1>9

-----------------------------------------------------------------------------
(***************************************************************************)
(* The invariant: besides what is sent, the local variables, on which the  *)
(* next issue depends.                                                     *)
(***************************************************************************)
LinterInv == linter \in Cases /\ n \in Nat /\ 1 <= n /\ n <= Len(linter.hits) + 1
VarsInv == vars = ValueAt(n - 1)
Inv == LinterInv /\ VarsInv /\ ReportsItsHits

\* The step of a hit: its values and its issue come to those before it.
LEMMA HitStep ==
  ASSUME Inv, NEW message, ProcessHit(message)
  PROVE  Inv'
<1>1. /\ linter' = linter /\ n' = n + 1 /\ at' = at /\ at = "output"
      /\ n <= Len(linter.hits) /\ ~Malformed(linter.hits[n])
      /\ message \in Messages(linter.hits[n], Filled(vars, linter.hits[n]))
      /\ vars' = Filled(vars, linter.hits[n])
      /\ sent' = IF Hidden(IssueOf(linter.hits[n], message)) THEN sent
                 ELSE Append(sent, [hit |-> n, issue |-> IssueOf(linter.hits[n], message)])
  BY Zenon DEF ProcessHit
<1>2. /\ linter \in Cases /\ n \in Nat /\ 1 <= n /\ Len(linter.hits) \in Nat
      /\ n \in 1 .. Len(linter.hits) /\ n - 1 \in Nat /\ (n - 1) + 1 = n /\ n' - 1 = n
      /\ \A k : k \in 1 .. n <=> k \in 1 .. n - 1 \/ k = n
  <2>1. linter \in Cases /\ n \in Nat /\ 1 <= n
    BY DEF Inv, LinterInv
  <2>2. Len(linter.hits) \in Nat
    BY <2>1, LinterIs
  <2>3. n - 1 \in Nat /\ (n - 1) + 1 = n /\ n' - 1 = n
    BY <1>1, <2>1
  <2>4. \A k : k \in 1 .. n <=> k \in 1 .. n - 1 \/ k = n
    BY <2>1
  <2>5. n \in 1 .. Len(linter.hits)
    BY <1>1, <2>1, <2>2
  <2> QED
    BY <2>1, <2>2, <2>3, <2>4, <2>5
<1>3. vars' = ValueAt(n)
  <2>1. vars = ValueAt(n - 1)
    BY DEF Inv, VarsInv
  <2> DEFINE k == n - 1
  <2>2. k \in Nat /\ k + 1 <= Len(linter.hits) /\ k + 1 = n
    BY <1>1, <1>2
  <2> HIDE DEF k
  <2>3. Filled(ValueAt(k), linter.hits[k + 1]) = ValueAt(k + 1)
    BY <1>2, <2>2, HitFills
  <2> QED
    BY <1>1, <2>1, <2>2, <2>3 DEF k
<1>4. VarsInv'
  BY <1>1, <1>2, <1>3, SameLinter DEF VarsInv
<1>5. LinterInv'
  BY <1>1, <1>2 DEF LinterInv
<1>6. ASSUME PlainValues
      PROVE  sent' = Reported(n)
  <2>1. sent = Reported(n - 1)
    BY <1>6 DEF Inv, ReportsItsHits
  <2>2. message = MessageAsDefined(n)
    BY <1>1, <1>2, <1>3, <1>6, MessageIs
  <2>3. IssueOf(linter.hits[n], message) = IssueAt(n)
    BY <2>2, Zenon DEF IssueAt
  <2>4. Passes(n) <=> ~Hidden(IssueAt(n))
    BY Zenon DEF Passes, Hidden
  <2>5. Reported(n) = IF Passes(n) THEN Append(Reported(n - 1), [hit |-> n, issue |-> IssueAt(n)])
                      ELSE Reported(n - 1)
    <3> DEFINE k == n - 1
    <3>1. k \in Nat /\ k + 1 = n
      BY <1>2
    <3> HIDE DEF k
    <3>2. Reported(k + 1) =
            IF Passes(k + 1) THEN Append(Reported(k), [hit |-> k + 1, issue |-> IssueAt(k + 1)])
            ELSE Reported(k)
      BY <3>1, ReportStep
    <3> QED
      BY <3>1, <3>2, Zenon DEF k
  <2> QED
    BY <1>1, <2>1, <2>3, <2>4, <2>5, Zenon
<1>7. \A k \in 1 .. n : ~Malformed(linter.hits[k])
  BY <1>1, <1>2 DEF Inv, ReportsItsHits
<1>8. ReportsItsHits'
  <2>1. PlainValues' => sent' = Reported(n - 1)'
    BY <1>1, <1>2, <1>6, SameLinter
  <2>2. \A k \in 1 .. (n' - 1) : ~Malformed(linter.hits[k])'
    BY <1>1, <1>2, <1>7 DEF Malformed
  <2> QED
    BY <1>1, <2>1, <2>2 DEF ReportsItsHits
<1> QED
  BY <1>4, <1>5, <1>8 DEF Inv

\* The other steps leave what is sent, the variables and the hit alone.
LEMMA OtherSteps ==
  ASSUME Inv, linter' = linter, n' = n, vars' = vars, sent' = sent,
         at' = "done" => n > Len(linter.hits)
  PROVE  Inv'
<1>1. LinterInv'
  BY DEF Inv, LinterInv
<1>2. VarsInv'
  BY SameLinter DEF Inv, VarsInv
<1>3. PlainValues' => sent' = Reported(n - 1)'
  BY SameLinter DEF Inv, ReportsItsHits
<1>4. \A k \in 1 .. n' - 1 : ~Malformed(linter.hits[k])'
  BY DEF Inv, ReportsItsHits, Malformed
<1> QED
  BY <1>1, <1>2, <1>3, <1>4 DEF Inv, ReportsItsHits

\* The values of a linter's variables and the issues it has sent, at every step.
THEOREM InvCorrect == Spec => []Inv
<1>1. Init => Inv
  <2> SUFFICES ASSUME Init
               PROVE  Inv
    OBVIOUS
  <2>1. linter \in Cases /\ n = 1 /\ vars = Vars /\ sent = <<>> /\ at = "command"
    BY DEF Init
  <2>2. Len(linter.hits) \in Nat
    BY <2>1, LinterIs
  <2>3. n - 1 = 0 /\ 1 .. n - 1 = {}
    BY <2>1
  <2>4. Reported(n - 1) = <<>> /\ ValueAt(n - 1) = Vars
    BY <2>3, NothingReported, NoHit
  <2> QED
    BY <2>1, <2>2, <2>3, <2>4 DEF Inv, LinterInv, VarsInv, ReportsItsHits
<1>2. Inv /\ [Next]_state => Inv'
  <2> SUFFICES ASSUME Inv, [Next]_state
               PROVE  Inv'
    OBVIOUS
  <2>0. at = "done" => n > Len(linter.hits)
    BY DEF Inv, ReportsItsHits
  <2>1. ASSUME NEW order, ParseCommand(order)
        PROVE  Inv'
    <3>1. linter' = linter /\ n' = n /\ vars' = vars /\ sent' = sent /\ at' \in {"failed", "output"}
      BY <2>1 DEF ParseCommand
    <3> QED
      BY <3>1, OtherSteps
  <2>2. CASE FatalHit
    <3>1. linter' = linter /\ n' = n /\ vars' = vars /\ sent' = sent /\ at' = "fatal"
      BY <2>2 DEF FatalHit
    <3> QED
      BY <3>1, OtherSteps
  <2>3. ASSUME NEW m, ProcessHit(m)
        PROVE  Inv'
    BY <2>3, HitStep
  <2>4. CASE OutputEnds
    <3>1. linter' = linter /\ n' = n /\ vars' = vars /\ sent' = sent /\ n > Len(linter.hits)
      BY <2>4 DEF OutputEnds
    <3> QED
      BY <3>1, OtherSteps
  <2>5. CASE Over \/ UNCHANGED state
    <3>1. linter' = linter /\ n' = n /\ vars' = vars /\ sent' = sent /\ at' = at
      BY <2>5 DEF Over, state
    <3> QED
      BY <2>0, <3>1, OtherSteps
  <2> QED
    BY <2>1, <2>2, <2>3, <2>4, <2>5, Zenon DEF Next
<1> QED
  BY <1>1, <1>2, PTL DEF Spec

\* Every hit before the first with a number out of range becomes an issue, in order, with
\* what its own groups say, unless the filters hide it (execute.go:216-274).
THEOREM EveryHitReported == Spec => []ReportsItsHits
<1>1. Inv => ReportsItsHits
  BY DEF Inv
<1> QED
  BY <1>1, InvCorrect, PTL

\* The message of an issue is its hit's, or the override with the last values that its
\* variables had, whatever the order in which Go ranges over the map
\* (execute.go:213-214, 229-236, 261-263).
THEOREM LastMatchShown == Spec => []OverrideShowsLastMatch
<1>1. Inv => OverrideShowsLastMatch
  <2> SUFFICES ASSUME Inv, PlainValues, NEW j \in DOMAIN sent
               PROVE  sent[j].issue.message = MessageAsDefined(sent[j].hit)
    BY DEF OverrideShowsLastMatch
  <2> DEFINE T == {[hit |-> k, issue |-> IssueAt(k)] : k \in 1 .. n - 1}
  <2>1. n - 1 \in Nat /\ sent = Reported(n - 1)
    BY DEF Inv, LinterInv, ReportsItsHits
  <2>2. sent \in Seq(T)
    <3> DEFINE m == n - 1
    <3>1. m \in Nat
      BY <2>1
    <3> HIDE DEF m
    <3>2. Reported(m) \in Seq({[hit |-> k, issue |-> IssueAt(k)] : k \in 1 .. m})
      BY <3>1, ReportedOnes
    <3> QED
      BY <2>1, <3>2, Zenon DEF m
  <2>3. sent[j] \in T
    <3> HIDE DEF T
    <3> QED
      BY <2>2
  <2>4. PICK k \in 1 .. n - 1 : sent[j] = [hit |-> k, issue |-> IssueAt(k)]
    BY <2>3
  <2>5. IssueAt(k).message = MessageAsDefined(k)
    BY DEF IssueAt, IssueOf
  <2> QED
    BY <2>4, <2>5
<1> QED
  BY <1>1, InvCorrect, PTL

-----------------------------------------------------------------------------
(***************************************************************************)
(* The scanner, rune by rune.                                              *)
(***************************************************************************)
AnyText == Seq(STRING)
States == {"start", "word", "escaping", "escaping in double", "double", "single", "comment"}
Scanners == [state : States, word : AnyText, words : Seq(AnyText)]
ScanF == [x \in Scanners \X STRING |-> Scan(x[1], x[2])]

\* The runes that the scanner tells apart.
LEMMA Runes ==
  /\ ClassOf(" ") = "space" /\ ClassOf("\"") = "double"
  /\ ClassOf("'") = "single" /\ ClassOf("\\") = "escape"
  /\ \A r \in {" ", "\"", "'", "\\"} : r \in DOMAIN Class
  /\ \A r \in DOMAIN Class : r \in STRING /\ r \notin DOMAIN Forms /\ Class[r] \in Classes
  /\ \A r : Special(r, AllClasses) <=> r \in DOMAIN Class
  /\ \A r : ClassOf(r) # "rune" <=> r \in DOMAIN Class
<1>1. /\ Class \in [DOMAIN Class -> Classes] /\ {" ", "\"", "'", "\\"} \subseteq DOMAIN Class
      /\ Class[" "] = "space" /\ Class["\""] = "double" /\ Class["'"] = "single" /\ Class["\\"] = "escape"
      /\ DOMAIN Class \subseteq STRING \ DOMAIN Forms
  BY OutputAssumption
<1>2. \A r \in DOMAIN Class : Class[r] \in Classes /\ Class[r] \in AllClasses /\ Class[r] # "rune"
  BY <1>1 DEF Classes, AllClasses, Range
<1>3. "rune" \notin AllClasses
  BY <1>2 DEF AllClasses, Range
<1> QED
  BY <1>1, <1>2, <1>3 DEF ClassOf, Special

\* Texts and their words, with one more.
LEMMA TextAppend ==
  /\ <<>> \in AnyText
  /\ \A t, r : t \in AnyText /\ r \in STRING => Append(t, r) \in AnyText /\ <<r>> \in AnyText
  /\ \A ws, t : ws \in Seq(AnyText) /\ t \in AnyText => Append(ws, t) \in Seq(AnyText)
<1> DEFINE S == STRING
           Q == Seq(S)
<1> HIDE DEF S
<1>1. <<>> \in Q /\ \A t, r : t \in Q /\ r \in S => Append(t, r) \in Q /\ <<r>> \in Q
  OBVIOUS
<1> HIDE DEF Q
<1>2. \A ws, t : ws \in Seq(Q) /\ t \in Q => Append(ws, t) \in Seq(Q)
  OBVIOUS
<1> QED
  BY <1>1, <1>2, Zenon DEF AnyText, Q, S

\* A step gives a scanner.
LEMMA ScanType ==
  ASSUME NEW sc, NEW r, sc \in Scanners, r \in STRING
  PROVE  Scan(sc, r) \in Scanners
<1>1. /\ sc.state \in States /\ sc.word \in AnyText /\ sc.words \in Seq(AnyText)
      /\ sc = [state |-> sc.state, word |-> sc.word, words |-> sc.words]
  BY DEF Scanners
<1>2. /\ <<>> \in AnyText /\ Append(sc.word, r) \in AnyText
      /\ Append(sc.words, sc.word) \in Seq(AnyText)
  BY <1>1, TextAppend
<1>3. \A s \in States : Into(sc, s) \in Scanners /\ Taken(sc, s, r) \in Scanners
  BY <1>1, <1>2 DEF Into, Taken, Scanners
<1>4. Ended(sc) \in Scanners
  BY <1>1, <1>2 DEF Ended, Scanners, States
<1>5. /\ "start" \in States /\ "word" \in States /\ "double" \in States /\ "single" \in States
      /\ "escaping" \in States /\ "escaping in double" \in States /\ "comment" \in States
  BY DEF States
<1>6. Begin(sc, r) \in Scanners
  BY <1>3, <1>5 DEF Begin, Opened
<1> HIDE DEF Scanners
<1>7. CASE sc.state = "start"
  BY <1>3, <1>5, <1>6, <1>7 DEF Scan
<1>8. CASE sc.state \in {"word", "escaping", "escaping in double"}
  BY <1>3, <1>4, <1>5, <1>6, <1>8 DEF Scan
<1>9. CASE sc.state \in {"double", "single", "comment"}
  BY <1>3, <1>5, <1>9 DEF Scan
<1> QED
  BY <1>1, <1>7, <1>8, <1>9 DEF States

\* The library's fold is this.
LEMMA ScanFolds ==
  ASSUME NEW t \in AnyText
  PROVE  IsFolder(ScanF, Scanner, Scanners, STRING) /\ Scanned(t) = FoldOf(ScanF, Scanner, t)
<1>1. Scanner \in Scanners /\ t \in Seq(STRING)
  <2>1. <<>> \in AnyText /\ <<>> \in Seq(AnyText)
    BY TextAppend
  <2> QED
    BY <2>1 DEF Scanner, Scanners, States, AnyText
<1>2. IsFolder(ScanF, Scanner, Scanners, STRING)
  BY <1>1, ScanType DEF IsFolder, ScanF
<1>3. Scanned(t) = FoldOf(ScanF, Scanner, t)
  <2> DEFINE Steps(h) == h = [s \in SUBSET DOMAIN t |->
                IF s = {} THEN Scanner ELSE Scan(h[s \ {Max(s)}], t[Max(s)])]
             g == CHOOSE h : Steps(h)
  <2>1. PICK h : FoldsIn(h, ScanF, Scanner, t, Scanners, STRING)
    BY <1>1, <1>2, FoldInV
  <2>2. Steps(h)
    <3>1. \A s \in SUBSET DOMAIN t : s # {} =>
            ScanF[<<h[s \ {Max(s)}], t[Max(s)]>>] = Scan(h[s \ {Max(s)}], t[Max(s)])
      BY <2>1 DEF FoldsIn, ScanF
    <3> QED
      BY <2>1, <3>1 DEF FoldsIn, IsFold
  <2>3. Steps(g) /\ Scanned(t) = g[DOMAIN t]
    BY <2>2 DEF Scanned, FoldLeft, MapThenFoldSet
  <2> HIDE DEF g
  <2>4. g[{}] = Scanner
    BY <2>3
  <2>5. ASSUME NEW s \in SUBSET DOMAIN t, s # {}, g[s \ {Max(s)}] \in Scanners, t[Max(s)] \in STRING
        PROVE  g[s] = ScanF[<<g[s \ {Max(s)}], t[Max(s)]>>]
    <3>1. g[s] = Scan(g[s \ {Max(s)}], t[Max(s)])
      BY <2>3, <2>5
    <3> QED
      BY <2>5, <3>1 DEF ScanF
  <2>6. HasSteps(g, ScanF, Scanner, t, Scanners, STRING)
    BY <2>4, <2>5 DEF HasSteps
  <2> QED
    BY <1>1, <1>2, <2>3, <2>6, SameFold
<1> QED
  BY <1>2, <1>3

\* A step of the fold, for whatever runes there are.
LEMMA ScanAppend ==
  ASSUME NEW S, NEW t, NEW r, IsFolder(ScanF, Scanner, Scanners, S), t \in Seq(S), r \in S
  PROVE  /\ FoldOf(ScanF, Scanner, <<>>) = Scanner /\ FoldOf(ScanF, Scanner, t) \in Scanners
         /\ FoldOf(ScanF, Scanner, Append(t, r)) = ScanF[<<FoldOf(ScanF, Scanner, t), r>>]
<1>1. FoldOf(ScanF, Scanner, <<>>) = Scanner /\ FoldOf(ScanF, Scanner, t) \in Scanners
  BY FoldedType
<1>2. FoldOf(ScanF, Scanner, Append(t, r)) = ScanF[<<FoldOf(ScanF, Scanner, t), r>>]
  BY FoldedAppend
<1> QED
  BY <1>1, <1>2

\* One rune more.
LEMMA OneRune ==
  ASSUME NEW t, t \in AnyText
  PROVE  /\ Scanned(<<>>) = Scanner /\ Scanned(t) \in Scanners
         /\ \A r : r \in STRING => Scanned(Append(t, r)) = Scan(Scanned(t), r)
<1>1. IsFolder(ScanF, Scanner, Scanners, STRING) /\ t \in Seq(STRING) /\ <<>> \in AnyText
  BY ScanFolds, TextAppend DEF AnyText
<1>2. ASSUME NEW r, r \in STRING
      PROVE  /\ FoldOf(ScanF, Scanner, <<>>) = Scanner /\ FoldOf(ScanF, Scanner, t) \in Scanners
             /\ FoldOf(ScanF, Scanner, Append(t, r)) = ScanF[<<FoldOf(ScanF, Scanner, t), r>>]
  BY <1>1, <1>2, ScanAppend, Zenon
<1>3. \A q \in AnyText : Scanned(q) = FoldOf(ScanF, Scanner, q)
  BY ScanFolds
<1>4. \A r \in STRING : ScanF[<<Scanned(t), r>>] = Scan(Scanned(t), r)
  BY <1>2, <1>3 DEF ScanF
<1>5. " " \in STRING
  BY Runes, Zenon
<1>6. \A r \in STRING : Append(t, r) \in AnyText
  BY TextAppend, Zenon
<1> QED
  BY <1>1, <1>2, <1>3, <1>4, <1>5, <1>6, Zenon

-----------------------------------------------------------------------------
(***************************************************************************)
(* Reading inside a word.  Took is where the scanner is when u has become  *)
(* part of the word; within a bare word it is in the state "word", or at   *)
(* its start while there is nothing in it.                                 *)
(***************************************************************************)
Inside(st, sc) == IF st = "word" THEN sc.state \in {"start", "word"} ELSE sc.state = st
Took(sc, st, u) == IF u = <<>> THEN sc ELSE [sc EXCEPT !.state = st, !.word = @ \o u]
Insides == {"word", "double", "single"}

\* The classes that are not just taken there.
Ending(st) ==
  CASE st = "word" -> AllClasses [] st = "double" -> {"double", "escape"} [] st = "single" -> {"single"}

\* Reading c there takes u.
Reads(st, c, u) ==
  /\ c \in AnyText /\ u \in AnyText
  /\ \A s \in AnyText : Inside(st, Scanned(s)) => Scanned(s \o c) = Took(Scanned(s), st, u)

\* A scanner by its fields.
Sc(s, w, ws) == [state |-> s, word |-> w, words |-> ws]

LEMMA FieldsOf ==
  ASSUME NEW s, NEW w, NEW ws
  PROVE  Sc(s, w, ws).state = s /\ Sc(s, w, ws).word = w /\ Sc(s, w, ws).words = ws
BY DEF Sc

LEMMA ByFields ==
  ASSUME NEW sc, sc \in Scanners
  PROVE  /\ sc = Sc(sc.state, sc.word, sc.words)
         /\ sc.state \in States /\ sc.word \in AnyText /\ sc.words \in Seq(AnyText)
<1> DEFINE Q == AnyText
           R == Seq(AnyText)
<1>1. sc \in [state : States, word : Q, words : R]
  BY DEF Scanners
<1> HIDE DEF Q, R
<1>2. sc = [state |-> sc.state, word |-> sc.word, words |-> sc.words]
      /\ sc.state \in States /\ sc.word \in Q /\ sc.words \in R
  BY <1>1
<1> QED
  BY <1>2, Zenon DEF Sc, Q, R

\* A record of these fields.
LEMMA RecordIs ==
  ASSUME NEW s, NEW w, NEW ws, NEW a, a \in [state : {s}, word : {w}, words : {ws}]
  PROVE  a = Sc(s, w, ws)
BY DEF Sc

\* What is taken comes to the word.
LEMMA TookIs ==
  ASSUME NEW s, NEW w, NEW ws, NEW st, NEW u, u # <<>>
  PROVE  Took(Sc(s, w, ws), st, u) = Sc(st, w \o u, ws)
<1> DEFINE y == w \o u
<1>1. Took(Sc(s, w, ws), st, u) \in [state : {st}, word : {y}, words : {ws}]
  BY DEF Took, Sc
<1> QED
  BY <1>1, RecordIs

\* The steps of the scanner.
LEMMA StepsOf ==
  ASSUME NEW s, NEW w, NEW ws, NEW t, NEW r
  PROVE  /\ Into(Sc(s, w, ws), t) = Sc(t, w, ws) /\ Taken(Sc(s, w, ws), t, r) = Sc(t, Append(w, r), ws)
         /\ Ended(Sc(s, w, ws)) = Sc("start", <<>>, Append(ws, w))
<1>1. Into(Sc(s, w, ws), t) \in [state : {t}, word : {w}, words : {ws}]
  BY DEF Into, Sc
<1>2. Taken(Sc(s, w, ws), t, r) \in [state : {t}, word : {Append(w, r)}, words : {ws}]
  BY DEF Taken, Sc
<1>3. Ended(Sc(s, w, ws)) \in [state : {"start"}, word : {<<>>}, words : {Append(ws, w)}]
  BY DEF Ended, Sc
<1>4. Into(Sc(s, w, ws), t) = Sc(t, w, ws)
  BY <1>1, RecordIs
<1>5. Taken(Sc(s, w, ws), t, r) = Sc(t, Append(w, r), ws)
  BY <1>2, RecordIs
<1>6. Ended(Sc(s, w, ws)) = Sc("start", <<>>, Append(ws, w))
  <2> DEFINE x == "start"
             y == <<>>
             z == Append(ws, w)
  <2>1. Ended(Sc(s, w, ws)) \in [state : {x}, word : {y}, words : {z}]
    BY <1>3
  <2> HIDE DEF x, y, z
  <2>2. Ended(Sc(s, w, ws)) = Sc(x, y, z)
    BY <2>1, RecordIs
  <2> QED
    BY <2>2 DEF x, y, z
<1> QED
  BY <1>4, <1>5, <1>6

\* From the start, or in a bare word.
LEMMA ScanBare ==
  ASSUME NEW s, NEW w, NEW ws, NEW r, s \in {"start", "word"}
  PROVE  /\ ClassOf(r) \in {"space", "newline"} =>
              Scan(Sc(s, w, ws), r) = IF s = "start" THEN Sc(s, w, ws) ELSE Sc("start", <<>>, Append(ws, w))
         /\ ClassOf(r) = "double" => Scan(Sc(s, w, ws), r) = Sc("double", w, ws)
         /\ ClassOf(r) = "single" => Scan(Sc(s, w, ws), r) = Sc("single", w, ws)
         /\ ClassOf(r) = "escape" => Scan(Sc(s, w, ws), r) = Sc("escaping", w, ws)
         /\ ClassOf(r) = "rune"   => Scan(Sc(s, w, ws), r) = Sc("word", Append(w, r), ws)
<1> DEFINE a == Sc(s, w, ws)
<1>1. a.state = s
  BY FieldsOf
<1>2. /\ \A t : Into(a, t) = Sc(t, w, ws) /\ Taken(a, t, r) = Sc(t, Append(w, r), ws)
      /\ Ended(a) = Sc("start", <<>>, Append(ws, w))
  BY StepsOf
<1> HIDE DEF a
<1>3. ClassOf(r) \in {"space", "newline"} => Scan(a, r) = IF s = "start" THEN a ELSE Ended(a)
  BY <1>1 DEF Scan
<1>4. ClassOf(r) \notin {"space", "newline", "comment"} => Scan(a, r) = Begin(a, r)
  BY <1>1 DEF Scan
<1>5. /\ ClassOf(r) = "double" => Begin(a, r) = Into(a, "double")
      /\ ClassOf(r) = "single" => Begin(a, r) = Into(a, "single")
      /\ ClassOf(r) = "escape" => Begin(a, r) = Into(a, "escaping")
      /\ ClassOf(r) = "rune"   => Begin(a, r) = Taken(a, "word", r)
  BY DEF Begin, Opened
<1>6. ClassOf(r) \in {"space", "newline"} =>
        Scan(a, r) = IF s = "start" THEN a ELSE Sc("start", <<>>, Append(ws, w))
  BY <1>2, <1>3
<1>7. /\ ClassOf(r) = "double" => Scan(a, r) = Sc("double", w, ws)
      /\ ClassOf(r) = "single" => Scan(a, r) = Sc("single", w, ws)
      /\ ClassOf(r) = "escape" => Scan(a, r) = Sc("escaping", w, ws)
      /\ ClassOf(r) = "rune"   => Scan(a, r) = Sc("word", Append(w, r), ws)
  BY <1>2, <1>4, <1>5
<1> QED
  BY <1>6, <1>7 DEF a

\* Behind an escape.
LEMMA ScanEscaped ==
  ASSUME NEW w, NEW ws, NEW r
  PROVE  /\ Scan(Sc("escaping", w, ws), r) = Sc("word", Append(w, r), ws)
         /\ Scan(Sc("escaping in double", w, ws), r) = Sc("double", Append(w, r), ws)
<1> DEFINE a == Sc("escaping", w, ws)
           b == Sc("escaping in double", w, ws)
<1>1. a.state = "escaping" /\ b.state = "escaping in double"
  BY DEF Sc
<1>2. \A s, t : Taken(Sc(s, w, ws), t, r) = Sc(t, Append(w, r), ws)
  BY StepsOf
<1>3. \A t : Taken(a, t, r) = Sc(t, Append(w, r), ws) /\ Taken(b, t, r) = Sc(t, Append(w, r), ws)
  BY <1>2
<1> HIDE DEF a, b
<1>4. Scan(a, r) = Taken(a, "word", r) /\ Scan(b, r) = Taken(b, "double", r)
  BY <1>1 DEF Scan
<1> QED
  BY <1>3, <1>4 DEF a, b

\* In quotes.
LEMMA ScanQuoted ==
  ASSUME NEW w, NEW ws, NEW r
  PROVE  /\ ClassOf(r) = "double" => Scan(Sc("double", w, ws), r) = Sc("word", w, ws)
         /\ ClassOf(r) = "escape" => Scan(Sc("double", w, ws), r) = Sc("escaping in double", w, ws)
         /\ ClassOf(r) \notin {"double", "escape"} => Scan(Sc("double", w, ws), r) = Sc("double", Append(w, r), ws)
         /\ ClassOf(r) = "single" => Scan(Sc("single", w, ws), r) = Sc("word", w, ws)
         /\ ClassOf(r) # "single" => Scan(Sc("single", w, ws), r) = Sc("single", Append(w, r), ws)
<1> DEFINE a == Sc("double", w, ws)
           b == Sc("single", w, ws)
<1>1. a.state = "double" /\ b.state = "single"
  BY DEF Sc
<1>2. \A s, t : Taken(Sc(s, w, ws), t, r) = Sc(t, Append(w, r), ws) /\ Into(Sc(s, w, ws), t) = Sc(t, w, ws)
  BY StepsOf
<1>3. \A t : /\ Taken(a, t, r) = Sc(t, Append(w, r), ws) /\ Into(a, t) = Sc(t, w, ws)
            /\ Taken(b, t, r) = Sc(t, Append(w, r), ws) /\ Into(b, t) = Sc(t, w, ws)
  BY <1>2
<1> HIDE DEF a, b
<1>4. /\ ClassOf(r) = "double" => Scan(a, r) = Into(a, "word")
      /\ ClassOf(r) = "escape" => Scan(a, r) = Into(a, "escaping in double")
      /\ ClassOf(r) \notin {"double", "escape"} => Scan(a, r) = Taken(a, "double", r)
      /\ ClassOf(r) = "single" => Scan(b, r) = Into(b, "word")
      /\ ClassOf(r) # "single" => Scan(b, r) = Taken(b, "single", r)
  BY <1>1 DEF Scan
<1> QED
  BY <1>3, <1>4 DEF a, b

\* Texts put together.
LEMMA TextConcat ==
  /\ \A s, t : s \in AnyText /\ t \in AnyText =>
       s \o t \in AnyText /\ s \o <<>> = s /\ <<>> \o t = t /\ (s \o t = <<>> <=> s = <<>> /\ t = <<>>)
  /\ \A s, t, u : s \in AnyText /\ t \in AnyText /\ u \in AnyText => (s \o t) \o u = s \o (t \o u)
  /\ \A s, r : s \in AnyText /\ r \in STRING => s \o <<r>> = Append(s, r)
  /\ \A s, q, r : s \in AnyText /\ q \in STRING /\ r \in STRING =>
       <<q, r>> \in AnyText /\ s \o <<q, r>> = Append(Append(s, q), r)
<1> DEFINE S == STRING
<1> HIDE DEF S
<1>1. /\ \A s, t : s \in Seq(S) /\ t \in Seq(S) =>
           s \o t \in Seq(S) /\ s \o <<>> = s /\ <<>> \o t = t /\ (s \o t = <<>> <=> s = <<>> /\ t = <<>>)
      /\ \A s, t, u : s \in Seq(S) /\ t \in Seq(S) /\ u \in Seq(S) => (s \o t) \o u = s \o (t \o u)
      /\ \A s, r : s \in Seq(S) /\ r \in S => s \o <<r>> = Append(s, r)
      /\ \A s, q, r : s \in Seq(S) /\ q \in S /\ r \in S =>
           <<q, r>> \in Seq(S) /\ s \o <<q, r>> = Append(Append(s, q), r)
  OBVIOUS
<1> QED
  BY <1>1, Zenon DEF AnyText, S

LEMMA TextAssoc ==
  ASSUME NEW s, NEW t, NEW u, s \in AnyText, t \in AnyText, u \in AnyText
  PROVE  s \o (t \o u) = (s \o t) \o u
BY TextConcat

\* One text after another.
LEMMA ReadsMore ==
  ASSUME NEW st, NEW c, NEW u, NEW d, NEW v, st \in Insides, Reads(st, c, u), Reads(st, d, v)
  PROVE  Reads(st, c \o d, u \o v)
<1>1. c \in AnyText /\ d \in AnyText /\ u \in AnyText /\ v \in AnyText
  BY DEF Reads
<1>2. c \o d \in AnyText /\ u \o v \in AnyText
  BY <1>1, TextConcat
<1>3. ASSUME NEW s, s \in AnyText, Inside(st, Scanned(s))
      PROVE  Scanned(s \o (c \o d)) = Took(Scanned(s), st, u \o v)
  <2> DEFINE a == Scanned(s)
  <2>1. a \in Scanners
    BY <1>3, OneRune
  <2>2. s \o c \in AnyText /\ (s \o c) \o d = s \o (c \o d)
    BY <1>1, <1>3, TextConcat
  <2>3. Scanned(s \o c) = Took(a, st, u)
    BY <1>3 DEF Reads
  <2> HIDE DEF a
  <2>4. a.word \in AnyText
    BY <2>1 DEF Scanners
  <2>5. /\ a.word \o (u \o v) = (a.word \o u) \o v
        /\ (u \o v = <<>> <=> u = <<>> /\ v = <<>>) /\ u \o <<>> = u /\ <<>> \o v = v
    <3>1. a.word \o (u \o v) = (a.word \o u) \o v
      <4> DEFINE w == a.word
      <4>1. w \in AnyText
        BY <2>4
      <4> HIDE DEF w
      <4>2. w \o (u \o v) = (w \o u) \o v
        BY <1>1, <4>1, TextConcat
      <4> QED
        BY <4>2 DEF w
    <3>2. u \o v = <<>> <=> u = <<>> /\ v = <<>>
      BY <1>1, TextConcat, Zenon
    <3>3. u \o <<>> = u /\ <<>> \o v = v
      BY <1>1, TextConcat, Zenon
    <3> QED
      BY <3>1, <3>2, <3>3, Zenon
  <2>6. Inside(st, Took(a, st, u))
    <3>1. Inside(st, a)
      BY <1>3 DEF a
    <3> QED
      BY <2>1, <3>1 DEF Inside, Took, Scanners, Insides
  <2>7. Took(Took(a, st, u), st, v) = Took(a, st, u \o v)
    <3> DEFINE b == a.state
               w == a.word
               x == a.words
    <3>1. a = Sc(b, w, x) /\ w \o (u \o v) = (w \o u) \o v
      BY <2>1, <2>5, ByFields
    <3> HIDE DEF b, w, x
    <3>2. CASE u = <<>>
      <4>1. u \o v = v /\ Took(a, st, u) = a
        BY <2>5, <3>2, Zenon DEF Took
      <4> QED
        BY <4>1, Zenon
    <3>3. CASE u # <<>> /\ v = <<>>
      <4>1. u \o v = u
        BY <2>5, <3>3, Zenon
      <4>2. Took(Took(a, st, u), st, v) = Took(a, st, u)
        BY <3>3, Zenon DEF Took
      <4> QED
        BY <4>1, <4>2, Zenon
    <3>4. CASE u # <<>> /\ v # <<>>
      <4>1. Took(a, st, u) = Sc(st, w \o u, x)
        BY <3>1, <3>4, TookIs
      <4>2. Took(Sc(st, w \o u, x), st, v) = Sc(st, (w \o u) \o v, x)
        BY <3>4, TookIs
      <4> DEFINE uv == u \o v
      <4>3. uv # <<>>
        BY <2>5, <3>4, Zenon
      <4> HIDE DEF uv
      <4>4. Took(a, st, uv) = Sc(st, w \o uv, x)
        BY <3>1, <4>3, TookIs
      <4> QED
        BY <3>1, <4>1, <4>2, <4>4, Zenon DEF uv
    <3> QED
      BY <3>2, <3>3, <3>4
  <2>8. Scanned((s \o c) \o d) = Took(Scanned(s \o c), st, v)
    BY <2>2, <2>3, <2>6 DEF Reads
  <2> QED
    BY <2>2, <2>3, <2>7, <2>8 DEF a
<1> QED
  BY <1>2, <1>3 DEF Reads

\* One rune that is just taken, and one behind an escape.
LEMMA ReadsOne ==
  ASSUME NEW st, NEW r, st \in Insides, r \in STRING
  PROVE  /\ ~Special(r, Ending(st)) => Reads(st, <<r>>, <<r>>)
         /\ st # "single" => Reads(st, <<"\\", r>>, <<r>>)
<1> DEFINE e == "\\"
<1>1. e \in STRING /\ ClassOf(e) = "escape"
  BY Runes, Zenon
<1> HIDE DEF e
<1>2. <<r>> \in AnyText /\ <<e, r>> \in AnyText /\ <<r>> # <<>>
  <2>1. <<r>> \in AnyText
    BY TextAppend, Zenon
  <2>2. <<e, r>> \in AnyText
    BY <1>1, TextAppend, TextConcat, Zenon
  <2> QED
    BY <2>1, <2>2
<1>3. ASSUME NEW s, s \in AnyText, Inside(st, Scanned(s))
      PROVE  /\ ~Special(r, Ending(st)) => Scanned(s \o <<r>>) = Took(Scanned(s), st, <<r>>)
             /\ st # "single" => Scanned(s \o <<e, r>>) = Took(Scanned(s), st, <<r>>)
  <2>1. PICK at0, w, ws : Scanned(s) = Sc(at0, w, ws) /\ w \in AnyText
    BY <1>3, OneRune, ByFields
  <2>2. IF st = "word" THEN at0 \in {"start", "word"} ELSE at0 = st
    BY <1>3, <2>1, FieldsOf DEF Inside
  <2>3. Took(Scanned(s), st, <<r>>) = Sc(st, Append(w, r), ws)
    <3>1. w \o <<r>> = Append(w, r)
      BY <2>1, TextConcat
    <3> QED
      <4> DEFINE x == <<r>>
      <4>1. x # <<>>
        BY <1>2
      <4> HIDE DEF x
      <4>2. Took(Sc(at0, w, ws), st, x) = Sc(st, w \o x, ws)
        BY <4>1, TookIs
      <4> QED
        BY <2>1, <3>1, <4>2, Zenon DEF x
  <2>4. Scanned(s \o <<r>>) = Scan(Sc(at0, w, ws), r)
    <3>1. s \o <<r>> = Append(s, r)
      BY <1>3, TextConcat, Zenon
    <3>2. Scanned(Append(s, r)) = Scan(Scanned(s), r)
      BY <1>3, OneRune, Zenon
    <3> QED
      BY <2>1, <3>1, <3>2
  <2>5. Scanned(s \o <<e, r>>) = Scan(Scan(Sc(at0, w, ws), e), r)
    <3> DEFINE t == Append(s, e)
    <3>1. t \in AnyText /\ Scanned(t) = Scan(Scanned(s), e)
      BY <1>1, <1>3, OneRune, TextAppend, Zenon
    <3>2. s \o <<e, r>> = Append(t, r)
      BY <1>1, <1>3, TextConcat
    <3> HIDE DEF t
    <3>3. Scanned(Append(t, r)) = Scan(Scanned(t), r)
      BY <3>1, OneRune, Zenon
    <3> QED
      BY <2>1, <3>1, <3>2, <3>3
  <2>6. ~Special(r, Ending(st)) => Scan(Sc(at0, w, ws), r) = Sc(st, Append(w, r), ws)
    <3>1. st = "word" /\ ~Special(r, Ending(st)) => ClassOf(r) = "rune"
      BY Runes DEF Ending
    <3>2. st = "double" /\ ~Special(r, Ending(st)) => ClassOf(r) \notin {"double", "escape"}
      BY DEF Ending, Special
    <3>3. st = "single" /\ ~Special(r, Ending(st)) => ClassOf(r) # "single"
      BY DEF Ending, Special
    <3>4. CASE st = "word"
      <4>1. at0 \in {"start", "word"}
        BY <2>2, <3>4
      <4>2. ClassOf(r) = "rune" => Scan(Sc(at0, w, ws), r) = Sc("word", Append(w, r), ws)
        BY <4>1, ScanBare
      <4> QED
        BY <3>1, <3>4, <4>2, Zenon
    <3>5. CASE st = "double"
      <4>1. at0 = "double"
        BY <2>2, <3>5
      <4>2. ClassOf(r) \notin {"double", "escape"} => Scan(Sc("double", w, ws), r) = Sc("double", Append(w, r), ws)
        BY ScanQuoted
      <4> QED
        BY <3>2, <3>5, <4>1, <4>2, Zenon
    <3>6. CASE st = "single"
      <4>1. at0 = "single"
        BY <2>2, <3>6
      <4>2. ClassOf(r) # "single" => Scan(Sc("single", w, ws), r) = Sc("single", Append(w, r), ws)
        BY ScanQuoted
      <4> QED
        BY <3>3, <3>6, <4>1, <4>2, Zenon
    <3> QED
      BY <3>4, <3>5, <3>6 DEF Insides
  <2>7. st # "single" => Scan(Scan(Sc(at0, w, ws), e), r) = Sc(st, Append(w, r), ws)
    <3>1. CASE st = "word"
      <4>1. at0 \in {"start", "word"}
        BY <2>2, <3>1
      <4>2. Scan(Sc(at0, w, ws), e) = Sc("escaping", w, ws)
        BY <1>1, <4>1, ScanBare
      <4>3. Scan(Sc("escaping", w, ws), r) = Sc("word", Append(w, r), ws)
        BY ScanEscaped
      <4> QED
        BY <3>1, <4>2, <4>3, Zenon
    <3>2. CASE st = "double"
      <4>1. at0 = "double"
        BY <2>2, <3>2
      <4>2. Scan(Sc("double", w, ws), e) = Sc("escaping in double", w, ws)
        BY <1>1, ScanQuoted
      <4>3. Scan(Sc("escaping in double", w, ws), r) = Sc("double", Append(w, r), ws)
        BY ScanEscaped
      <4> QED
        BY <3>2, <4>1, <4>2, <4>3, Zenon
    <3> QED
      BY <3>1, <3>2 DEF Insides
  <2> QED
    BY <2>3, <2>4, <2>5, <2>6, <2>7
<1> QED
  BY <1>2, <1>3 DEF Reads, e

\* Nothing, and a text put in the place of each rune, if so for each of them.
LEMMA ReadsPut ==
  ASSUME NEW st, NEW f, NEW g, NEW t, st \in Insides, t \in AnyText,
         Maps(f, STRING, AnyText), Maps(g, STRING, AnyText), \A r \in Range(t) : Reads(st, f[r], g[r])
  PROVE  Reads(st, Put(f, t), Put(g, t))
<1> DEFINE S == STRING
           G == {u \in Seq(S) : (\A r \in Range(u) : Reads(st, f[r], g[r])) => Reads(st, Put(f, u), Put(g, u))}
<1>1. t \in Seq(S) /\ Maps(f, S, Seq(S)) /\ Maps(g, S, Seq(S))
  BY DEF AnyText
<1>2. Reads(st, <<>>, <<>>)
  <2>1. <<>> \in AnyText /\ \A s \in AnyText : s \o <<>> = s
    BY TextAppend, TextConcat
  <2>2. \A sc : Took(sc, st, <<>>) = sc
    BY DEF Took
  <2> QED
    BY <2>1, <2>2 DEF Reads
<1> HIDE DEF S
<1>3. <<>> \in G
  BY <1>2, PutNothing
<1>4. ASSUME NEW u \in Seq(S), NEW x \in S, u \in G
      PROVE  Append(u, x) \in G
  <2>1. Append(u, x) \in Seq(S) /\ Range(Append(u, x)) = Range(u) \cup {x}
    BY InRange
  <2>2. Put(f, Append(u, x)) = Put(f, u) \o f[x] /\ Put(g, Append(u, x)) = Put(g, u) \o g[x]
    BY <1>1, PutAppend
  <2>3. ASSUME \A r \in Range(Append(u, x)) : Reads(st, f[r], g[r])
        PROVE  Reads(st, Put(f, u) \o f[x], Put(g, u) \o g[x])
    <3>1. Reads(st, f[x], g[x]) /\ Reads(st, Put(f, u), Put(g, u))
      BY <1>4, <2>1, <2>3
    <3> QED
      BY <3>1, ReadsMore
  <2> QED
    BY <2>1, <2>2, <2>3
<1> HIDE DEF G
<1>5. t \in G
  BY <1>1, <1>3, <1>4, Growing
<1> QED
  BY <1>5 DEF G

\* A text without runes that end the word or that escape.
LEMMA ReadsText ==
  ASSUME NEW st, NEW u, st \in Insides, u \in AnyText, \A r \in Range(u) : ~Special(r, Ending(st))
  PROVE  Reads(st, u, u)
<1> DEFINE S == STRING
           f == [r \in S |-> <<r>>]
<1>1. u \in Seq(S) /\ Range(u) \subseteq S
  <2>1. u \in Seq(S)
    BY DEF AnyText
  <2> HIDE DEF S
  <2> QED
    BY <2>1, InRange
<1>2. Maps(f, S, Seq(S)) /\ \A r \in Range(u) : f[r] = <<r>>
  <2> HIDE DEF S
  <2>1. \A r \in S : <<r>> \in Seq(S)
    OBVIOUS
  <2> QED
    BY <1>1, <2>1 DEF Maps
<1>3. \A r \in Range(u) : Reads(st, f[r], f[r])
  BY <1>1, <1>2, ReadsOne
<1> HIDE DEF f, S
<1>4. Put(f, u) = u
  BY <1>1, <1>2, PutSame
<1>5. Maps(f, STRING, AnyText)
  BY <1>2 DEF AnyText, S
<1>6. Reads(st, Put(f, u), Put(f, u))
  BY <1>3, <1>5, ReadsPut
<1> QED
  BY <1>4, <1>6

-----------------------------------------------------------------------------
(***************************************************************************)
(* A word of the command.  Esc is what becomes of a rune when it is        *)
(* written down, Exp when the variables are replaced.                      *)
(***************************************************************************)
Esc(classes) == [r \in STRING |-> IF Special(r, classes) THEN <<"\\", r>> ELSE <<r>>]
Exp == All(STRING, DOMAIN Vars, Vars)

\* Both give texts.
LEMMA EscExp ==
  ASSUME PlainVars
  PROVE  /\ AreTexts(STRING, Vars) /\ Maps(Exp, STRING, AnyText)
         /\ \A classes : Maps(Esc(classes), STRING, AnyText)
         /\ \A t, classes : t \in AnyText =>
              /\ Expanded(t, DOMAIN Vars, Vars) = Put(Exp, t) /\ Put(Exp, t) \in AnyText
              /\ Escaped(t, classes) = Put(Esc(classes), t) /\ Put(Esc(classes), t) \in AnyText
<1>1. AreTexts(STRING, Vars)
  BY OutputAssumption DEF AreTexts, PlainVars
<1>2. Maps(Exp, STRING, AnyText)
  BY <1>1, RuneTypes DEF Exp, AnyText
<1>3. ASSUME NEW classes
      PROVE  Maps(Esc(classes), STRING, AnyText)
  <2>1. "\\" \in STRING
    BY Runes, Zenon
  <2>2. \A r \in STRING : <<"\\", r>> \in AnyText /\ <<r>> \in AnyText
    BY <2>1, TextAppend, TextConcat, Zenon
  <2> QED
    BY <2>2 DEF Maps, Esc
<1>4. ASSUME NEW t, NEW classes, t \in AnyText
      PROVE  /\ Expanded(t, DOMAIN Vars, Vars) = Put(Exp, t) /\ Put(Exp, t) \in AnyText
             /\ Escaped(t, classes) = Put(Esc(classes), t) /\ Put(Esc(classes), t) \in AnyText
  <2> DEFINE S == STRING
             f == Exp
             g == Esc(classes)
  <2>1. t \in Seq(S) /\ Maps(f, S, Seq(S)) /\ Maps(g, S, Seq(S))
    BY <1>2, <1>3, <1>4 DEF AnyText
  <2>2. Expanded(t, DOMAIN Vars, Vars) = Put(Exp, t)
    BY <1>4, RuneByRune DEF Exp, AnyText
  <2>3. Escaped(t, classes) = Put(Esc(classes), t)
    <3>1. \A k \in DOMAIN t : t[k] \in STRING
      BY <2>1
    <3>2. [k \in DOMAIN t |-> IF Special(t[k], classes) THEN <<"\\", t[k]>> ELSE <<t[k]>>] = Each(Esc(classes), t)
      BY <3>1, Zenon DEF Each, Esc
    <3> QED
      BY <3>2, Zenon DEF Escaped, Put
  <2> HIDE DEF S, f, g
  <2>4. Put(f, t) \in Seq(S) /\ Put(g, t) \in Seq(S)
    BY <2>1, PutType
  <2> QED
    BY <2>2, <2>3, <2>4 DEF S, f, g, AnyText
<1> QED
  BY <1>1, <1>2, <1>3, <1>4, Zenon

\* What comes in the place of the placeholders is just taken.
Harmless(t, classes) ==
  \A r \in Range(t) \cap DOMAIN Forms :
    Forms[r].name \in DOMAIN Vars => \A q \in Range(Exp[r]) : ~Special(q, classes)

LEMMA InsertedAre ==
  ASSUME PlainVars, NEW t, NEW classes, t \in AnyText, \A q \in Inserted(t) : ~Special(q, classes)
  PROVE  Harmless(t, classes)
<1> SUFFICES ASSUME NEW r \in Range(t) \cap DOMAIN Forms, Forms[r].name \in DOMAIN Vars, NEW q \in Range(Exp[r])
             PROVE  q \in Inserted(t)
  BY DEF Harmless
<1>1. Range(t) \subseteq STRING
  BY InRange DEF AnyText
<1>2. Exp[r] = IF Forms[r].text = <<>> THEN Vars[Forms[r].name]
               ELSE IF Vars[Forms[r].name] # <<>> THEN Forms[r].text ELSE <<>>
  BY <1>1 DEF Exp, All
<1>3. Range(<<>>) = {}
  BY DEF Range
<1>4. q \in Range(IF Forms[r].text = <<>> THEN Vars[Forms[r].name] ELSE Forms[r].text)
  BY <1>2, <1>3
<1>5. r \in {p \in Range(t) \cap DOMAIN Forms : Forms[p].name \in DOMAIN Vars}
  OBVIOUS
<1> QED
  BY <1>4, <1>5, Zenon DEF Inserted

\* The special runes are no placeholders.
LEMMA SpecialIs ==
  ASSUME NEW r, NEW st, st \in Insides, Special(r, Ending(st))
  PROVE  r \in DOMAIN Class /\ r \in STRING /\ r \notin DOMAIN Forms
<1>1. ClassOf(r) \in Ending(st)
  BY DEF Special
<1>2. st = "word" => r \in DOMAIN Class
  BY Runes DEF Ending
<1>3. st \in {"double", "single"} => ClassOf(r) # "rune"
  BY <1>1 DEF Ending
<1> QED
  BY <1>2, <1>3, Runes DEF Insides

\* What a rune that is just taken becomes is taken.
LEMMA ReadsExp ==
  ASSUME PlainVars, NEW st, NEW t, NEW r, st \in Insides, t \in AnyText, r \in Range(t),
         Harmless(t, Ending(st)), ~Special(r, Ending(st))
  PROVE  r \in STRING /\ Exp[r] \in AnyText /\ Reads(st, Exp[r], Exp[r])
<1>1. r \in STRING /\ <<r>> \in AnyText
  <2>1. Range(t) \subseteq STRING
    BY InRange DEF AnyText
  <2> QED
    BY <2>1, TextAppend
<1>2. Exp[r] \in AnyText
  BY <1>1, EscExp DEF Maps
<1>3. CASE r \in DOMAIN Forms /\ Forms[r].name \in DOMAIN Vars
  BY <1>1, <1>2, <1>3, ReadsText DEF Harmless
<1>4. CASE ~(r \in DOMAIN Forms /\ Forms[r].name \in DOMAIN Vars)
  <2>1. Exp[r] = <<r>>
    BY <1>1, <1>4 DEF Exp, All
  <2>2. Reads(st, <<r>>, <<r>>)
    BY <1>1, ReadsOne
  <2> QED
    BY <1>1, <1>2, <2>1, <2>2
<1> QED
  BY <1>1, <1>2, <1>3, <1>4

\* An escaped text is read as what it was before.
LEMMA ReadsEscaped ==
  ASSUME PlainVars, NEW st, NEW t, st \in {"word", "double"}, t \in AnyText, Harmless(t, Ending(st))
  PROVE  Reads(st, Put(Exp, Put(Esc(Ending(st)), t)), Put(Exp, t))
<1> DEFINE S == STRING
           E == Ending(st)
           f == Esc(E)
           h == [r \in S |-> Put(Exp, f[r])]
           e == "\\"
<1>1. st \in Insides /\ st # "single"
  BY DEF Insides
<1>2. Maps(Exp, S, Seq(S)) /\ Maps(f, S, Seq(S)) /\ t \in Seq(S)
  BY EscExp DEF AnyText
<1>3. e \in S /\ e \notin DOMAIN Forms
  BY Runes, Zenon
<1>4. \A r \in S : f[r] = IF Special(r, E) THEN <<e, r>> ELSE <<r>>
  BY DEF Esc
<1>5. \A r \in S : r \notin DOMAIN Forms => Exp[r] = <<r>>
  BY DEF Exp, All
<1>6. \A r : Special(r, E) => r \in S /\ r \notin DOMAIN Forms
  BY <1>1, SpecialIs
<1>7. \A r : r \in Range(t) /\ ~Special(r, E) => Reads(st, Exp[r], Exp[r])
  BY <1>1, ReadsExp
<1>8. \A r \in S : Reads(st, <<e, r>>, <<r>>)
  BY <1>1, ReadsOne
<1> HIDE DEF S, E, f, e
<1>9. AtOnce(f, Exp, h, S)
  <2>1. \A r \in S : Put(Exp, f[r]) \in Seq(S)
    BY <1>2, PutType DEF Maps
  <2> QED
    BY <1>2, <2>1 DEF AtOnce, Maps
<1>10. Put(Exp, Put(f, t)) = Put(h, t)
  <2> HIDE DEF h
  <2> QED
    BY <1>2, <1>9, PutTwice
<1>11. Range(t) \subseteq S
  BY <1>2, InRange
<1>12. ASSUME NEW r \in Range(t)
       PROVE  Reads(st, h[r], Exp[r])
  <2>1. r \in S /\ h[r] = Put(Exp, f[r])
    BY <1>11
  <2> HIDE DEF h
  <2>2. CASE Special(r, E)
    <3>1. r \notin DOMAIN Forms /\ f[r] = <<e, r>> /\ Exp[r] = <<r>> /\ Exp[e] = <<e>>
      BY <1>3, <1>4, <1>5, <1>6, <2>1, <2>2
    <3>2. Put(Exp, <<e, r>>) = <<e, r>>
      <4> DEFINE u == <<e, r>>
      <4>1. u \in Seq(S) /\ \A x \in Range(u) : x = e \/ x = r
        BY <1>3, <2>1 DEF Range
      <4> HIDE DEF u
      <4>2. Put(Exp, u) = u
        BY <1>2, <3>1, <4>1, PutSame
      <4> QED
        BY <4>2 DEF u
    <3>3. h[r] = <<e, r>>
      BY <2>1, <3>1, <3>2
    <3> QED
      BY <1>8, <2>1, <3>1, <3>3
  <2>3. CASE ~Special(r, E)
    <3>1. f[r] = <<r>>
      BY <1>4, <2>1, <2>3
    <3>2. Put(Exp, <<r>>) = Exp[r]
      BY <1>2, <2>1, PutOne
    <3>3. h[r] = Exp[r]
      BY <2>1, <3>1, <3>2
    <3> QED
      BY <1>7, <2>3, <3>3
  <2> QED
    BY <2>2, <2>3
<1>13. Maps(h, STRING, AnyText) /\ Maps(Exp, STRING, AnyText)
  <2> HIDE DEF h
  <2> QED
    BY <1>9 DEF AtOnce, S, AnyText
<1> HIDE DEF h
<1>14. Reads(st, Put(h, t), Put(Exp, t))
  BY <1>1, <1>12, <1>13, ReadsPut
<1> QED
  BY <1>10, <1>14 DEF f, E

\* A text in single quotes is not escaped.
LEMMA ReadsSingle ==
  ASSUME PlainVars, NEW t, t \in AnyText, Harmless(t, {"single"}), \A r \in Range(t) : ClassOf(r) # "single"
  PROVE  Reads("single", Put(Exp, t), Put(Exp, t))
<1> DEFINE st == "single"
<1>1. st \in Insides /\ Ending(st) = {"single"}
  BY DEF Insides, Ending
<1>2. \A r \in Range(t) : ~Special(r, Ending(st))
  BY <1>1 DEF Special
<1> HIDE DEF st
<1>3. \A r \in Range(t) : Reads(st, Exp[r], Exp[r])
  BY <1>1, <1>2, ReadsExp
<1>4. Maps(Exp, STRING, AnyText)
  BY EscExp
<1>5. Reads(st, Put(Exp, t), Put(Exp, t))
  BY <1>1, <1>3, <1>4, ReadsPut
<1> QED
  BY <1>5 DEF st

\* What is quoted comes to the word.
LEMMA ReadsQuoted ==
  ASSUME NEW s, NEW a, NEW v, NEW ws, NEW st, NEW q, NEW y, NEW u,
         s \in AnyText, Scanned(s) = Sc(a, v, ws), a \in {"start", "word"}, v \in AnyText,
         q \in STRING, st \in {"double", "single"}, ClassOf(q) = st, Reads(st, y, u)
  PROVE  (<<q>> \o y) \o <<q>> \in AnyText /\ Scanned(s \o ((<<q>> \o y) \o <<q>>)) = Sc("word", v \o u, ws)
<1>1. <<q>> \in AnyText /\ y \in AnyText /\ u \in AnyText
  BY TextAppend DEF Reads
<1>2. Append(s, q) \in AnyText
  BY TextAppend
<1> DEFINE sq == Append(s, q)
           z == sq \o y
<1>3. sq \in AnyText /\ Scanned(sq) = Sc(st, v, ws)
  <2>1. Scanned(sq) = Scan(Sc(a, v, ws), q)
    BY OneRune
  <2> QED
    BY <1>2, <2>1, ScanBare
<1> HIDE DEF sq
<1>4. Scanned(z) = Took(Sc(st, v, ws), st, u)
  <2>1. Inside(st, Scanned(sq))
    BY <1>3, FieldsOf DEF Inside
  <2> QED
    BY <1>3, <2>1 DEF Reads
<1>5. Scanned(z) = Sc(st, v \o u, ws) /\ z \in AnyText
  <2>1. z \in AnyText
    BY <1>1, <1>3, TextConcat
  <2>2. CASE u = <<>>
    <3>1. v \o u = v
      BY <2>2, TextConcat
    <3>2. Took(Sc(st, v, ws), st, u) = Sc(st, v, ws)
      BY <2>2 DEF Took
    <3> QED
      BY <1>4, <2>1, <3>1, <3>2
  <2>3. CASE u # <<>>
    BY <1>4, <2>1, <2>3, TookIs
  <2> QED
    BY <2>2, <2>3
<1> HIDE DEF z
<1>6. Scanned(Append(z, q)) = Sc("word", v \o u, ws)
  <2>1. Scanned(Append(z, q)) = Scan(Sc(st, v \o u, ws), q)
    BY <1>5, OneRune
  <2> DEFINE w == v \o u
  <2> HIDE DEF w
  <2>2. Scan(Sc(st, w, ws), q) = Sc("word", w, ws)
    <3>1. ClassOf(q) = "double" => Scan(Sc("double", w, ws), q) = Sc("word", w, ws)
      BY ScanQuoted
    <3>2. ClassOf(q) = "single" => Scan(Sc("single", w, ws), q) = Sc("word", w, ws)
      BY ScanQuoted
    <3> QED
      BY <3>1, <3>2
  <2> QED
    BY <2>1, <2>2 DEF w
<1>7. (<<q>> \o y) \o <<q>> \in AnyText /\ s \o ((<<q>> \o y) \o <<q>>) = Append(z, q)
  <2>1. s \o <<q>> = sq
    BY TextConcat DEF sq
  <2>2. <<q>> \o y \in AnyText
    BY <1>1, TextConcat
  <2> DEFINE o == <<q>>
             oy == <<q>> \o y
  <2>3. o \in AnyText /\ oy \in AnyText /\ oy = o \o y /\ s \o o = sq
    BY <1>1, <2>1, <2>2
  <2>4. z \o o = Append(z, q)
    BY <1>5, TextConcat
  <2> HIDE DEF o, oy
  <2>5. oy \o o \in AnyText /\ s \o (oy \o o) = (s \o oy) \o o
    BY <2>3, TextConcat
  <2>6. s \o oy = z
    <3>1. o \in AnyText /\ y \in AnyText
      BY <1>1, <2>3, Zenon
    <3>2. s \o (o \o y) = (s \o o) \o y
      BY <3>1, TextAssoc
    <3> QED
      BY <2>3, <3>2, Zenon DEF z
  <2> QED
    BY <2>4, <2>5, <2>6 DEF o, oy
<1> QED
  BY <1>6, <1>7

\* A word of the command, as OutputAssumption has them.
IsWord(w) ==
  /\ w \in Word /\ (w.style = "mixed" => w.text # <<>>)
  /\ (w.style = "single" => \A r \in Range(w.text) \cap DOMAIN Class : Class[r] # "single")

LEMMA HeadAndTail ==
  ASSUME NEW t, t \in AnyText, t # <<>>
  PROVE  /\ <<Head(t)>> \in AnyText /\ Tail(t) \in AnyText /\ <<Head(t)>> \o Tail(t) = t
         /\ Range(<<Head(t)>>) \subseteq Range(t) /\ Range(Tail(t)) \subseteq Range(t)
<1> DEFINE S == STRING
<1>1. t \in Seq(S)
  BY DEF AnyText
<1> HIDE DEF S
<1> DEFINE h == <<Head(t)>>
           u == Tail(t)
<1>2. h \in Seq(S) /\ u \in Seq(S) /\ h \o u = t
  BY <1>1
<1> HIDE DEF h, u
<1>3. Range(h \o u) = Range(h) \cup Range(u)
  BY <1>2, RangeOfConcat
<1> QED
  BY <1>2, <1>3 DEF h, u, AnyText, S

\* Reading a word, written down and with its variables replaced, at the beginning of one.
LEMMA ReadsWord ==
  ASSUME PlainVars, NEW w, IsWord(w), SafeIn(w), NEW s, NEW ws, s \in AnyText, Scanned(s) = Sc("start", <<>>, ws)
  PROVE  /\ w.text \in AnyText /\ Written(w) \in AnyText /\ Put(Exp, Written(w)) \in AnyText
         /\ Put(Exp, w.text) \in AnyText
         /\ Scanned(s \o Put(Exp, Written(w))) =
              IF w.style = "bare" /\ Put(Exp, w.text) = <<>> THEN Sc("start", <<>>, ws)
              ELSE Sc("word", Put(Exp, w.text), ws)
<1> DEFINE t == w.text
           x == Put(Exp, t)
<1>1. t \in AnyText /\ w.style \in {"bare", "double", "single", "mixed"}
  BY DEF IsWord, Word, SafeIn, AnyText
<1>2. x \in AnyText /\ <<>> \o x = x
  BY <1>1, EscExp, TextConcat
<1>3. /\ w.style \in {"bare", "mixed"} => Harmless(t, AllClasses)
      /\ w.style = "double" => Harmless(t, {"double", "escape"})
      /\ w.style = "single" => Harmless(t, {"single"})
  BY <1>1, InsertedAre DEF SafeIn
<1>4. /\ Ending("word") = AllClasses /\ Ending("double") = {"double", "escape"}
      /\ "word" \in {"word", "double"} /\ "double" \in {"word", "double"}
  BY DEF Ending
<1>5. \A u, v : u \in AnyText /\ v \in AnyText => u \o v \in AnyText /\ Put(Exp, u \o v) = Put(Exp, u) \o Put(Exp, v)
  <2> DEFINE S == STRING
  <2>1. Maps(Exp, S, Seq(S)) /\ AnyText = Seq(S)
    BY EscExp DEF AnyText
  <2> HIDE DEF S
  <2>2. \A u, v : u \in Seq(S) /\ v \in Seq(S) => Put(Exp, u \o v) = Put(Exp, u) \o Put(Exp, v)
    BY <2>1, PutConcat
  <2> QED
    BY <2>1, <2>2, TextConcat
<1>6. \A q : q \in DOMAIN Class => q \in STRING /\ <<q>> \in AnyText /\ Put(Exp, <<q>>) = <<q>>
  <2>1. ASSUME NEW q, q \in DOMAIN Class
        PROVE  q \in STRING /\ q \notin DOMAIN Forms /\ <<q>> \in AnyText
    BY <2>1, Runes, TextAppend
  <2>2. ASSUME NEW q, q \in DOMAIN Class
        PROVE  Put(Exp, <<q>>) = Exp[q]
    <3> DEFINE S == STRING
    <3>1. Maps(Exp, S, Seq(S)) /\ q \in S
      BY <2>1, <2>2, EscExp DEF AnyText
    <3> HIDE DEF S
    <3> QED
      BY <3>1, PutOne
  <2>3. ASSUME NEW q, q \in DOMAIN Class
        PROVE  Exp[q] = <<q>>
    BY <2>1, <2>3 DEF Exp, All
  <2> QED
    BY <2>1, <2>2, <2>3
<1> DEFINE dq == "\""
           sq == "'"
           D == {"double", "escape"}
<1>7. /\ dq \in DOMAIN Class /\ ClassOf(dq) = "double" /\ sq \in DOMAIN Class /\ ClassOf(sq) = "single"
  BY Runes
<1>8. /\ w.style = "bare" => Written(w) = Escaped(t, AllClasses)
      /\ w.style = "double" => Written(w) = <<dq>> \o Escaped(t, D) \o <<dq>>
      /\ w.style = "single" => Written(w) = <<sq>> \o t \o <<sq>>
      /\ w.style = "mixed" => Written(w) = Escaped(<<Head(t)>>, AllClasses) \o <<dq>> \o Escaped(Tail(t), D) \o <<dq>>
  BY DEF Written
<1>9. \A u : u \in AnyText =>
        /\ Escaped(u, AllClasses) = Put(Esc(AllClasses), u) /\ Put(Esc(AllClasses), u) \in AnyText
        /\ Escaped(u, D) = Put(Esc(D), u) /\ Put(Esc(D), u) \in AnyText
  BY EscExp
<1>10. \A u : u \in AnyText => Put(Exp, u) \in AnyText
  BY EscExp
<1> HIDE DEF t, x, dq, sq, D
<1> DEFINE y == Put(Exp, Written(w))
<1> SUFFICES /\ Written(w) \in AnyText
             /\ Scanned(s \o y) = IF w.style = "bare" /\ x = <<>> THEN Sc("start", <<>>, ws) ELSE Sc("word", x, ws)
  BY <1>1, <1>2, <1>10 DEF t, x
<1>11. <<>> \in AnyText /\ "start" \in {"start", "word"}
  BY TextAppend
<1>12. CASE w.style = "bare"
  <2>1. Written(w) \in AnyText /\ y = Put(Exp, Put(Esc(Ending("word")), t))
    BY <1>1, <1>4, <1>8, <1>9, <1>12
  <2>2. Reads("word", y, x)
    BY <1>1, <1>3, <1>4, <1>12, <2>1, ReadsEscaped DEF x
  <2>3. Inside("word", Scanned(s))
    BY FieldsOf DEF Inside
  <2> HIDE DEF y
  <2>4. Scanned(s \o y) = Took(Scanned(s), "word", x)
    BY <2>2, <2>3 DEF Reads
  <2>5. CASE x = <<>>
    BY <1>12, <2>1, <2>4, <2>5 DEF Took
  <2>6. CASE x # <<>>
    <3> DEFINE a == "start"
               b == "word"
               v == <<>>
    <3>1. Scanned(s \o y) = Took(Sc(a, v, ws), b, x)
      BY <2>4
    <3>2. v \o x = x
      BY <1>2
    <3> HIDE DEF a, b, v
    <3>3. Scanned(s \o y) = Sc(b, v \o x, ws)
      BY <2>6, <3>1, TookIs
    <3>4. Scanned(s \o y) = Sc("word", x, ws)
      BY <3>2, <3>3 DEF b
    <3> QED
      BY <2>1, <2>6, <3>4
  <2> QED
    BY <2>5, <2>6
<1>13. CASE w.style = "double"
  <2> DEFINE z == Put(Exp, Put(Esc(D), t))
  <2>1. Reads("double", z, x)
    BY <1>1, <1>3, <1>4, <1>13, ReadsEscaped DEF x, D
  <2>2. Written(w) \in AnyText /\ y = (<<dq>> \o z) \o <<dq>>
    <3> DEFINE u == Put(Esc(D), t)
               o == <<dq>>
    <3>1. u \in AnyText /\ o \in AnyText /\ Put(Exp, o) = o /\ Written(w) = o \o u \o o
      BY <1>1, <1>6, <1>7, <1>8, <1>9, <1>13
    <3> HIDE DEF u, o
    <3>2. o \o u \in AnyText /\ Put(Exp, o \o u) = Put(Exp, o) \o Put(Exp, u)
      BY <1>5, <3>1
    <3>3. (o \o u) \o o \in AnyText /\ Put(Exp, (o \o u) \o o) = Put(Exp, o \o u) \o Put(Exp, o)
      BY <1>5, <3>1, <3>2
    <3> QED
      BY <3>1, <3>2, <3>3 DEF u, o
  <2> HIDE DEF z
  <2>3. Scanned(s \o ((<<dq>> \o z) \o <<dq>>)) = Sc("word", <<>> \o x, ws)
    <3> DEFINE a == "start"
               b == "double"
               v == <<>>
    <3>1. Scanned(s) = Sc(a, v, ws) /\ a \in {"start", "word"} /\ v \in AnyText /\ b \in {"double", "single"}
          /\ ClassOf(dq) = b /\ dq \in STRING /\ Reads(b, z, x)
      BY <1>6, <1>7, <1>11, <2>1
    <3> HIDE DEF a, b, v
    <3>2. Scanned(s \o ((<<dq>> \o z) \o <<dq>>)) = Sc("word", v \o x, ws)
      BY <3>1, ReadsQuoted
    <3> QED
      BY <3>2 DEF v
  <2> QED
    BY <1>2, <1>13, <2>2, <2>3
<1>14. CASE w.style = "single"
  <2>1. \A r \in Range(t) : ClassOf(r) # "single"
    BY <1>14 DEF IsWord, t, ClassOf
  <2>2. Reads("single", x, x)
    BY <1>1, <1>3, <1>14, <2>1, ReadsSingle DEF x
  <2>3. Written(w) \in AnyText /\ y = (<<sq>> \o x) \o <<sq>>
    <3> DEFINE o == <<sq>>
    <3>1. o \in AnyText /\ Put(Exp, o) = o /\ Written(w) = o \o t \o o
      BY <1>6, <1>7, <1>8, <1>14
    <3> HIDE DEF o
    <3>2. o \o t \in AnyText /\ Put(Exp, o \o t) = Put(Exp, o) \o Put(Exp, t)
      BY <1>1, <1>5, <3>1
    <3>3. (o \o t) \o o \in AnyText /\ Put(Exp, (o \o t) \o o) = Put(Exp, o \o t) \o Put(Exp, o)
      BY <1>5, <3>1, <3>2
    <3> QED
      BY <3>1, <3>2, <3>3 DEF o, x
  <2>4. Scanned(s \o ((<<sq>> \o x) \o <<sq>>)) = Sc("word", <<>> \o x, ws)
    <3> DEFINE a == "start"
               b == "single"
               v == <<>>
    <3>1. Scanned(s) = Sc(a, v, ws) /\ a \in {"start", "word"} /\ v \in AnyText /\ b \in {"double", "single"}
          /\ ClassOf(sq) = b /\ sq \in STRING /\ Reads(b, x, x)
      BY <1>6, <1>7, <1>11, <2>2
    <3> HIDE DEF a, b, v
    <3>2. Scanned(s \o ((<<sq>> \o x) \o <<sq>>)) = Sc("word", v \o x, ws)
      BY <3>1, ReadsQuoted
    <3> QED
      BY <3>2 DEF v
  <2> QED
    BY <1>2, <1>14, <2>3, <2>4
<1>15. CASE w.style = "mixed"
  <2> DEFINE h == <<Head(t)>>
             u == Tail(t)
             hx == Put(Exp, h)
             ux == Put(Exp, u)
             hz == Put(Exp, Put(Esc(AllClasses), h))
             uz == Put(Exp, Put(Esc(D), u))
  <2>1. h \in AnyText /\ u \in AnyText /\ h \o u = t /\ Range(h) \subseteq Range(t) /\ Range(u) \subseteq Range(t)
    <3>1. t # <<>>
      BY <1>15 DEF IsWord, t
    <3> QED
      BY <1>1, <3>1, HeadAndTail
  <2>2. Harmless(h, AllClasses) /\ Harmless(u, D)
    <3>1. Harmless(h, AllClasses) /\ Harmless(u, AllClasses)
      BY <1>3, <1>15, <2>1 DEF Harmless
    <3>2. \A r : Special(r, D) => Special(r, AllClasses)
      BY Runes DEF D, Special
    <3> QED
      BY <3>1, <3>2 DEF Harmless
  <2> DEFINE eh == Put(Esc(AllClasses), h)
             eu == Put(Esc(D), u)
             o == <<dq>>
  <2>3. eh \in AnyText /\ eu \in AnyText /\ o \in AnyText /\ Put(Exp, o) = o /\ Written(w) = eh \o o \o eu \o o
    BY <1>6, <1>7, <1>8, <1>9, <1>15, <2>1
  <2> HIDE DEF h, u
  <2>4. Reads("word", hz, hx) /\ Reads("double", uz, ux)
    <3> DEFINE a == "word"
               b == "double"
    <3>1. a \in {"word", "double"} /\ Ending(a) = AllClasses /\ b \in {"word", "double"} /\ Ending(b) = D
      BY <1>4 DEF D
    <3>2. Harmless(h, Ending(a)) /\ Harmless(u, Ending(b))
      BY <2>2, <3>1
    <3> HIDE DEF a, b
    <3>3. Reads(a, Put(Exp, Put(Esc(Ending(a)), h)), Put(Exp, h))
      BY <2>1, <3>1, <3>2, ReadsEscaped
    <3>4. Reads(b, Put(Exp, Put(Esc(Ending(b)), u)), Put(Exp, u))
      BY <2>1, <3>1, <3>2, ReadsEscaped
    <3> QED
      BY <3>1, <3>3, <3>4 DEF a, b
  <2>5. hx \in AnyText /\ ux \in AnyText /\ x = hx \o ux /\ hz \in AnyText /\ uz \in AnyText
    BY <1>5, <1>10, <2>1, <2>3 DEF x
  <2>6. Written(w) \in AnyText /\ y = ((hz \o o) \o uz) \o o
    <3> HIDE DEF eh, eu, o
    <3>1. eh \o o \in AnyText /\ Put(Exp, eh \o o) = Put(Exp, eh) \o Put(Exp, o)
      BY <1>5, <2>3
    <3>2. (eh \o o) \o eu \in AnyText /\ Put(Exp, (eh \o o) \o eu) = Put(Exp, eh \o o) \o Put(Exp, eu)
      BY <1>5, <2>3, <3>1
    <3>3. /\ ((eh \o o) \o eu) \o o \in AnyText
          /\ Put(Exp, ((eh \o o) \o eu) \o o) = Put(Exp, (eh \o o) \o eu) \o Put(Exp, o)
      BY <1>5, <2>3, <3>2
    <3> QED
      BY <2>3, <3>1, <3>2, <3>3 DEF eh, eu
  <2> HIDE DEF hx, ux, hz, uz, y, eh, eu
  <2>7. s \o y = (s \o hz) \o ((o \o uz) \o o)
    <3> HIDE DEF o
    <3> DEFINE ho == hz \o o
               q == ho \o uz
               ou == o \o uz
               sh == s \o hz
    <3>1. ho \in AnyText /\ q \in AnyText /\ ou \in AnyText /\ sh \in AnyText /\ q = hz \o ou
      BY <2>3, <2>5, TextConcat
    <3> HIDE DEF ho, q, ou, sh
    <3>2. s \o (q \o o) = (s \o q) \o o
      BY <2>3, <3>1, TextAssoc
    <3>3. s \o (hz \o ou) = (s \o hz) \o ou
      BY <2>5, <3>1, TextAssoc
    <3>4. (sh \o ou) \o o = sh \o (ou \o o)
      BY <2>3, <3>1, TextAssoc
    <3> QED
      BY <2>6, <3>1, <3>2, <3>3, <3>4 DEF ho, q, ou, sh
  <2> DEFINE sh == s \o hz
  <2>8. /\ sh \in AnyText
        /\ \E a : a \in {"start", "word"} /\ Scanned(sh) = Sc(a, hx, ws)
    <3>1. sh \in AnyText
      BY <2>5, TextConcat
    <3>2. Inside("word", Scanned(s))
      BY FieldsOf DEF Inside
    <3>3. Scanned(sh) = Took(Scanned(s), "word", hx)
      BY <2>4, <3>2 DEF Reads
    <3>4. CASE hx = <<>>
      BY <1>11, <3>1, <3>3, <3>4 DEF Took
    <3>5. CASE hx # <<>>
      <4> DEFINE a == "start"
                 b == "word"
                 v == <<>>
      <4>1. Scanned(sh) = Took(Sc(a, v, ws), b, hx) /\ b \in {"start", "word"} /\ v \o hx = hx
        BY <2>5, <3>3, TextConcat
      <4> HIDE DEF a, b, v
      <4>2. Took(Sc(a, v, ws), b, hx) = Sc(b, v \o hx, ws)
        BY <3>5, TookIs
      <4> HIDE DEF sh
      <4> QED
        BY <3>1, <4>1, <4>2
    <3> QED
      BY <3>4, <3>5
  <2> HIDE DEF sh
  <2>9. Scanned(sh \o ((o \o uz) \o o)) = Sc("word", hx \o ux, ws)
    <3> DEFINE b == "double"
    <3>1. b \in {"double", "single"} /\ ClassOf(dq) = b /\ dq \in STRING /\ Reads(b, uz, ux)
      BY <1>6, <1>7, <2>4
    <3> HIDE DEF b
    <3> QED
      BY <2>5, <2>8, <3>1, ReadsQuoted
  <2> QED
    BY <1>15, <2>5, <2>6, <2>7, <2>9 DEF sh
<1> QED
  BY <1>1, <1>12, <1>13, <1>14, <1>15
-----------------------------------------------------------------------------
(***************************************************************************)
(* The command: its words one after another.                               *)
(***************************************************************************)
CommandWords == {w \in Word : IsWord(w)}
SafeWords == {w \in CommandWords : SafeIn(w)}

\* What a word adds to the text of the command, and to its words.
Piece == [w \in CommandWords |-> <<" ">> \o Written(w)]
Given == [w \in CommandWords |->
            IF w.style = "bare" /\ Expanded(w.text, DOMAIN Vars, Vars) = <<>> THEN <<>>
            ELSE <<Expanded(w.text, DOMAIN Vars, Vars)>>]

\* A sequence for each element, one element more.
LEMMA PiecesAppend ==
  ASSUME NEW S, NEW T, NEW f, NEW xs, NEW x, Maps(f, S, Seq(T)), xs \in Seq(S), x \in S
  PROVE  /\ FlattenSeq(Each(f, xs)) \in Seq(T) /\ f[x] \in Seq(T)
         /\ FlattenSeq(Each(f, Append(xs, x))) = FlattenSeq(Each(f, xs)) \o f[x]
<1> DEFINE Q == Seq(T)
<1>1. f[x] \in Q
  BY DEF Maps
<1>2. Maps(f, S, Q)
  OBVIOUS
<1> HIDE DEF Q
<1>3. Each(f, xs) \in Seq(Q) /\ Each(f, Append(xs, x)) = Append(Each(f, xs), f[x])
  BY <1>2, EachAppend
<1>4. FlattenSeq(Each(f, xs)) \in Seq(T)
  BY <1>3, FlattenType DEF Q
<1>5. FlattenSeq(Append(Each(f, xs), f[x])) = FlattenSeq(Each(f, xs)) \o f[x]
  BY <1>1, <1>3, FlattenAppend DEF Q
<1> QED
  BY <1>1, <1>3, <1>4, <1>5 DEF Q

\* Each word is written down as a text.
LEMMA WrittenType ==
  ASSUME PlainVars, NEW w, w \in CommandWords
  PROVE  w.text \in AnyText /\ Written(w) \in AnyText
<1> DEFINE dq == "\""
           sq == "'"
           D == {"double", "escape"}
           t == w.text
<1>1. t \in AnyText /\ w.style \in {"bare", "double", "single", "mixed", "raw"} /\ (w.style = "mixed" => t # <<>>)
  BY DEF CommandWords, IsWord, Word, AnyText
<1>2. dq \in STRING /\ sq \in STRING
  BY Runes, Zenon
<1>3. <<dq>> \in AnyText /\ <<sq>> \in AnyText
  <2>1. <<>> \in AnyText
    BY TextAppend
  <2> HIDE DEF dq, sq
  <2> QED
    BY <1>2, <2>1, TextAppend
<1>4. /\ w.style = "bare" => Written(w) = Escaped(t, AllClasses)
      /\ w.style = "double" => Written(w) = <<dq>> \o Escaped(t, D) \o <<dq>>
      /\ w.style = "single" => Written(w) = <<sq>> \o t \o <<sq>>
      /\ w.style = "mixed" => Written(w) = Escaped(<<Head(t)>>, AllClasses) \o <<dq>> \o Escaped(Tail(t), D) \o <<dq>>
      /\ w.style = "raw" => Written(w) = t
  BY DEF Written
<1> HIDE DEF dq, sq, D, t
<1>5. \A u, c : u \in AnyText => Escaped(u, c) \in AnyText
  BY EscExp
<1>6. \A u, v : u \in AnyText /\ v \in AnyText => u \o v \in AnyText
  BY TextConcat
<1>7. t # <<>> => <<Head(t)>> \in AnyText /\ Tail(t) \in AnyText
  BY <1>1, HeadAndTail
<1>8. Written(w) \in AnyText
  <2>1. CASE w.style \in {"bare", "raw"}
    BY <1>1, <1>4, <1>5, <2>1
  <2>2. CASE w.style = "double"
    <3> DEFINE e == Escaped(t, D)
    <3>1. e \in AnyText
      BY <1>1, <1>5
    <3> HIDE DEF e
    <3>2. (<<dq>> \o e) \o <<dq>> \in AnyText
      BY <1>3, <1>6, <3>1
    <3> QED
      BY <1>4, <2>2, <3>2 DEF e
  <2>3. CASE w.style = "single"
    <3>1. (<<sq>> \o t) \o <<sq>> \in AnyText
      BY <1>1, <1>3, <1>6
    <3> QED
      BY <1>4, <2>3, <3>1
  <2>4. CASE w.style = "mixed"
    <3> DEFINE e == Escaped(<<Head(t)>>, AllClasses)
               d == Escaped(Tail(t), D)
    <3>1. e \in AnyText /\ d \in AnyText
      BY <1>1, <1>5, <1>7, <2>4
    <3> HIDE DEF e, d
    <3>2. e \o <<dq>> \in AnyText
      BY <1>3, <1>6, <3>1
    <3>3. (e \o <<dq>>) \o d \in AnyText
      BY <1>6, <3>1, <3>2
    <3>4. ((e \o <<dq>>) \o d) \o <<dq>> \in AnyText
      BY <1>3, <1>6, <3>3
    <3> QED
      BY <1>4, <2>4, <3>4 DEF e, d
  <2> QED
    BY <1>1, <2>1, <2>2, <2>3, <2>4
<1> QED
  BY <1>1, <1>8 DEF t

\* Both give sequences, and the command and its words are made of them.
LEMMA PiecesOf ==
  ASSUME PlainVars
  PROVE  /\ Maps(Piece, CommandWords, Seq(STRING)) /\ Maps(Given, CommandWords, Seq(AnyText))
         /\ \A ws : ws \in Seq(CommandWords) =>
              Command(ws) = FlattenSeq(Each(Piece, ws)) /\ WordsOf(ws) = FlattenSeq(Each(Given, ws))
<1> DEFINE C == CommandWords
           sp == " "
<1>1. ASSUME NEW w, w \in C
      PROVE  <<sp>> \o Written(w) \in AnyText
  <2>1. sp \in STRING /\ <<>> \in AnyText /\ Written(w) \in AnyText
    BY <1>1, Runes, TextAppend, WrittenType, Zenon
  <2> HIDE DEF sp
  <2>2. <<sp>> \in AnyText
    BY <2>1, TextAppend
  <2> QED
    BY <2>1, <2>2, TextConcat
<1>2. Maps(Piece, C, Seq(STRING))
  BY <1>1 DEF Maps, Piece, AnyText
<1>3. ASSUME NEW w, w \in C
      PROVE  Given[w] \in Seq(AnyText)
  <2> DEFINE x == Expanded(w.text, DOMAIN Vars, Vars)
             Q == AnyText
  <2>1. x \in Q
    <3>1. w.text \in AnyText
      BY <1>3, WrittenType
    <3> QED
      BY <3>1, EscExp
  <2>2. Given[w] = IF w.style = "bare" /\ x = <<>> THEN <<>> ELSE <<x>>
    BY <1>3 DEF Given
  <2> HIDE DEF x, Q
  <2>3. <<x>> \in Seq(Q) /\ <<>> \in Seq(Q)
    BY <2>1
  <2> QED
    BY <2>2, <2>3 DEF Q
<1>4. Maps(Given, C, Seq(AnyText))
  <2> DEFINE Q == Seq(AnyText)
  <2>1. \A w \in C : Given[w] \in Q
    BY <1>3
  <2>2. Given = [w \in C |-> Given[w]]
    BY DEF Given
  <2> HIDE DEF Q, C
  <2>3. [w \in C |-> Given[w]] \in [C -> Q]
    BY <2>1
  <2> QED
    BY <2>2, <2>3 DEF Maps, Q
<1>5. ASSUME NEW ws, ws \in Seq(C)
      PROVE  Command(ws) = FlattenSeq(Each(Piece, ws)) /\ WordsOf(ws) = FlattenSeq(Each(Given, ws))
  <2>1. \A k \in DOMAIN ws : ws[k] \in C
    <3> HIDE DEF C
    <3> QED
      BY <1>5
  <2>2. [k \in DOMAIN ws |-> <<" ">> \o Written(ws[k])] = Each(Piece, ws)
    BY <2>1, Zenon DEF Each, Piece
  <2>3. \A k \in DOMAIN ws : Given[ws[k]] =
          IF ws[k].style = "bare" /\ Expanded(ws[k].text, DOMAIN Vars, Vars) = <<>> THEN <<>>
          ELSE <<Expanded(ws[k].text, DOMAIN Vars, Vars)>>
    BY <2>1 DEF Given
  <2>4. [k \in DOMAIN ws |->
          LET text == Expanded(ws[k].text, DOMAIN Vars, Vars)
          IN  IF ws[k].style = "bare" /\ text = <<>> THEN <<>> ELSE <<text>>] = Each(Given, ws)
    BY <2>3, Zenon DEF Each
  <2> QED
    BY <2>2, <2>4, Zenon DEF Command, WordsOf
<1> QED
  BY <1>2, <1>4, <1>5

\* A word more.
LEMMA CommandAppend ==
  ASSUME PlainVars, NEW ws, NEW w, ws \in Seq(CommandWords), w \in CommandWords
  PROVE  /\ Command(ws) \in AnyText /\ WordsOf(ws) \in Seq(AnyText)
         /\ Command(Append(ws, w)) = Command(ws) \o (<<" ">> \o Written(w))
         /\ WordsOf(Append(ws, w)) = WordsOf(ws) \o Given[w] /\ Given[w] \in Seq(AnyText)
<1> DEFINE C == CommandWords
           S == STRING
           Q == AnyText
           p == Piece
           g == Given
<1>1. Maps(p, C, Seq(S)) /\ Maps(g, C, Seq(Q)) /\ ws \in Seq(C) /\ w \in C /\ p[w] = <<" ">> \o Written(w)
  BY PiecesOf DEF Piece
<1>2. \A us : us \in Seq(C) => Command(us) = FlattenSeq(Each(p, us)) /\ WordsOf(us) = FlattenSeq(Each(g, us))
  BY PiecesOf
<1> HIDE DEF C, S, Q, p, g
<1>3. Append(ws, w) \in Seq(C)
  <2>1. ws \in Seq(C) /\ w \in C
    BY <1>1
  <2> QED
    BY <2>1
<1>4. /\ FlattenSeq(Each(p, ws)) \in Seq(S) /\ p[w] \in Seq(S)
      /\ FlattenSeq(Each(p, Append(ws, w))) = FlattenSeq(Each(p, ws)) \o p[w]
  <2>1. Maps(p, C, Seq(S))
    BY <1>1
  <2>2. \A us, v : us \in Seq(C) /\ v \in C =>
          /\ FlattenSeq(Each(p, us)) \in Seq(S) /\ p[v] \in Seq(S)
          /\ FlattenSeq(Each(p, Append(us, v))) = FlattenSeq(Each(p, us)) \o p[v]
    BY <2>1, PiecesAppend
  <2> QED
    BY <1>1, <2>2
<1>5. /\ FlattenSeq(Each(g, ws)) \in Seq(Q) /\ g[w] \in Seq(Q)
      /\ FlattenSeq(Each(g, Append(ws, w))) = FlattenSeq(Each(g, ws)) \o g[w]
  <2>1. Maps(g, C, Seq(Q))
    BY <1>1
  <2>2. \A us, v : us \in Seq(C) /\ v \in C =>
          /\ FlattenSeq(Each(g, us)) \in Seq(Q) /\ g[v] \in Seq(Q)
          /\ FlattenSeq(Each(g, Append(us, v))) = FlattenSeq(Each(g, us)) \o g[v]
    BY <2>1, PiecesAppend
  <2> QED
    BY <1>1, <2>2
<1>6. Command(ws) \in Seq(S) /\ WordsOf(ws) \in Seq(Q)
      /\ Command(Append(ws, w)) = Command(ws) \o p[w] /\ WordsOf(Append(ws, w)) = WordsOf(ws) \o g[w]
  BY <1>1, <1>2, <1>3, <1>4, <1>5, Zenon
<1> QED
  BY <1>1, <1>5, <1>6 DEF S, Q, g, AnyText
\* The scanner after a text whose words are xs: outside of a word, or in the last one.
Stops(sc, xs) ==
  \/ sc = Sc("start", <<>>, xs)
  \/ \E w, ys : w \in AnyText /\ ys \in Seq(AnyText) /\ sc = Sc("word", w, ys) /\ xs = Append(ys, w)

\* A space more.
LEMMA SpaceStops ==
  ASSUME NEW c, NEW xs, c \in AnyText, Stops(Scanned(c), xs)
  PROVE  c \o <<" ">> \in AnyText /\ <<" ">> \in AnyText /\ Scanned(c \o <<" ">>) = Sc("start", <<>>, xs)
<1> DEFINE sp == " "
<1>1. sp \in STRING /\ ClassOf(sp) \in {"space", "newline"}
  BY Runes, Zenon
<1> HIDE DEF sp
<1>2. c \o <<sp>> = Append(c, sp) /\ Append(c, sp) \in AnyText /\ <<sp>> \in AnyText
  BY <1>1, TextAppend, TextConcat
<1>3. Scanned(Append(c, sp)) = Scan(Scanned(c), sp)
  BY <1>1, OneRune
<1>4. Scan(Scanned(c), sp) = Sc("start", <<>>, xs)
  <2>1. CASE Scanned(c) = Sc("start", <<>>, xs)
    <3> DEFINE a == "start"
               e == <<>>
    <3>1. a \in {"start", "word"} /\ a = "start"
      OBVIOUS
    <3> HIDE DEF a, e
    <3>2. Scan(Sc(a, e, xs), sp) = Sc(a, e, xs)
      BY <1>1, <3>1, ScanBare
    <3> QED
      BY <2>1, <3>2 DEF a, e
  <2>2. ASSUME NEW w, NEW ys, Scanned(c) = Sc("word", w, ys), xs = Append(ys, w)
        PROVE  Scan(Scanned(c), sp) = Sc("start", <<>>, xs)
    <3> DEFINE a == "word"
    <3>1. a \in {"start", "word"} /\ a # "start"
      OBVIOUS
    <3> HIDE DEF a
    <3>2. Scan(Sc(a, w, ys), sp) = Sc("start", <<>>, Append(ys, w))
      BY <1>1, <3>1, ScanBare
    <3> QED
      BY <2>2, <3>2 DEF a
  <2> QED
    BY <2>1, <2>2 DEF Stops
<1> QED
  BY <1>2, <1>3, <1>4 DEF sp

\* Reading a command, its variables replaced, gives its words.
LEMMA ReadsCommand ==
  ASSUME PlainVars, NEW ws, ws \in Seq(SafeWords)
  PROVE  Stops(Scanned(Put(Exp, Command(ws))), WordsOf(ws))
<1> DEFINE G == {us \in Seq(SafeWords) : Stops(Scanned(Put(Exp, Command(us))), WordsOf(us))}
<1>1. Command(<<>>) = <<>> /\ WordsOf(<<>>) = <<>>
  <2>1. <<>> \in Seq(CommandWords)
    OBVIOUS
  <2>2. Command(<<>>) = FlattenSeq(Each(Piece, <<>>)) /\ WordsOf(<<>>) = FlattenSeq(Each(Given, <<>>))
    BY <2>1, PiecesOf
  <2>3. \A f : Each(f, <<>>) = <<>>
    BY DEF Each
  <2> QED
    BY <2>2, <2>3, FlattenNothing
<1>2. <<>> \in G
  <2>1. Put(Exp, Command(<<>>)) = <<>>
    BY <1>1, PutNothing
  <2>2. Scanned(<<>>) = Sc("start", <<>>, <<>>)
    BY TextAppend, OneRune DEF Scanner, Sc
  <2>3. <<>> \in Seq(SafeWords)
    OBVIOUS
  <2> QED
    BY <1>1, <2>1, <2>2, <2>3, Zenon DEF Stops
<1>3. ASSUME NEW us \in Seq(SafeWords), NEW w \in SafeWords, us \in G
      PROVE  Append(us, w) \in G
  <2> DEFINE x == Put(Exp, w.text)
             c == Put(Exp, Command(us))
             sp == <<" ">>
             z == Put(Exp, Written(w))
  <2>1. us \in Seq(CommandWords) /\ w \in CommandWords /\ IsWord(w) /\ SafeIn(w)
    <3> DEFINE B == SafeWords
               C == CommandWords
    <3>1. B \subseteq C /\ us \in Seq(B) /\ w \in B
      BY DEF SafeWords
    <3> HIDE DEF B, C
    <3>2. us \in Seq(C)
      BY <3>1
    <3> QED
      BY <3>2 DEF C, SafeWords, CommandWords
  <2>2. /\ Command(us) \in AnyText /\ WordsOf(us) \in Seq(AnyText)
        /\ Command(Append(us, w)) = Command(us) \o (sp \o Written(w))
        /\ WordsOf(Append(us, w)) = WordsOf(us) \o Given[w]
    BY <2>1, CommandAppend
  <2>3. c \in AnyText /\ Stops(Scanned(c), WordsOf(us))
    BY <1>3, <2>2, EscExp
  <2>4. c \o sp \in AnyText /\ sp \in AnyText /\ Scanned(c \o sp) = Sc("start", <<>>, WordsOf(us))
    BY <2>3, SpaceStops
  <2>5. /\ w.text \in AnyText /\ Written(w) \in AnyText /\ z \in AnyText /\ x \in AnyText
        /\ Scanned((c \o sp) \o z) =
             IF w.style = "bare" /\ x = <<>> THEN Sc("start", <<>>, WordsOf(us))
             ELSE Sc("word", x, WordsOf(us))
    BY <2>1, <2>4, ReadsWord
  <2>6. Put(Exp, Command(Append(us, w))) = (c \o sp) \o z
    <3> DEFINE S == STRING
               e == Exp
               k == Command(us)
               y == Written(w)
    <3>1. Maps(e, S, Seq(S)) /\ k \in Seq(S) /\ sp \in Seq(S) /\ y \in Seq(S)
      BY <2>2, <2>4, <2>5, EscExp DEF AnyText
    <3>2. Put(e, sp) = sp
      <4> DEFINE q == " "
      <4>1. q \in S /\ q \notin DOMAIN Forms
        BY Runes, Zenon
      <4>2. e[q] = <<q>>
        BY <4>1 DEF Exp, All
      <4> HIDE DEF q, S, e
      <4>3. Put(e, <<q>>) = e[q]
        BY <3>1, <4>1, PutOne
      <4> QED
        BY <4>2, <4>3, Zenon DEF q
    <3> HIDE DEF S, e, k, y, sp
    <3>6. \A u, v : u \in Seq(S) /\ v \in Seq(S) => u \o v \in Seq(S) /\ Put(e, u \o v) = Put(e, u) \o Put(e, v)
      <4>1. Maps(e, S, Seq(S))
        BY <3>1
      <4>2. \A u, v : u \in Seq(S) /\ v \in Seq(S) => Put(e, u \o v) = Put(e, u) \o Put(e, v)
        BY <4>1, PutConcat
      <4> QED
        BY <4>2
    <3>3. sp \o y \in Seq(S) /\ Put(e, sp \o y) = sp \o Put(e, y)
      BY <3>1, <3>2, <3>6
    <3>4. Put(e, k \o (sp \o y)) = Put(e, k) \o Put(e, sp \o y)
      BY <3>1, <3>3, <3>6
    <3>5. Put(e, k) \o (sp \o z) = (Put(e, k) \o sp) \o z
      <4>1. Put(e, k) \in AnyText /\ sp \in AnyText /\ z \in AnyText
        BY <2>3, <2>4, <2>5 DEF e, k
      <4> QED
        BY <4>1, TextAssoc
    <3> QED
      BY <2>2, <3>3, <3>4, <3>5, Zenon DEF e, k, y
  <2>7. Given[w] = IF w.style = "bare" /\ x = <<>> THEN <<>> ELSE <<x>>
    <3>1. Expanded(w.text, DOMAIN Vars, Vars) = x
      BY <2>5, EscExp
    <3> QED
      BY <2>1, <3>1, Zenon DEF Given
  <2> HIDE DEF x, c, sp, z
  <2>8. Stops(Scanned((c \o sp) \o z), WordsOf(us) \o Given[w])
    <3> DEFINE ys == WordsOf(us)
               Q == AnyText
    <3>1. ys \in Seq(Q) /\ x \in Q
      BY <2>2, <2>5
    <3> HIDE DEF ys, Q
    <3>2. ys \o <<>> = ys /\ ys \o <<x>> = Append(ys, x)
      BY <3>1
    <3>3. CASE w.style = "bare" /\ x = <<>>
      BY <2>5, <2>7, <3>2, <3>3 DEF Stops, ys
    <3>4. CASE ~(w.style = "bare" /\ x = <<>>)
      <4>1. Scanned((c \o sp) \o z) = Sc("word", x, ys) /\ ys \o Given[w] = Append(ys, x)
        BY <2>5, <2>7, <3>2, <3>4 DEF ys
      <4> QED
        BY <3>1, <4>1, Zenon DEF Stops, ys, Q
    <3> QED
      BY <3>3, <3>4
  <2>9. Append(us, w) \in Seq(SafeWords)
    OBVIOUS
  <2> QED
    BY <2>2, <2>6, <2>8, <2>9, Zenon
<1>4. \A us \in Seq(SafeWords), w \in SafeWords : us \in G => Append(us, w) \in G
  BY <1>3
<1> HIDE DEF G
<1>5. ws \in G
  BY <1>2, <1>4, Growing
<1> QED
  BY <1>5 DEF G

-----------------------------------------------------------------------------
(***************************************************************************)
(* What the worker is run with.                                            *)
(***************************************************************************)
ArgvInv ==
  /\ linter \in Cases
  /\ at = "output" /\ PlainVars => ~Unfinished(Scanned(Read)) /\ argv = Split(Scanned(Read))

\* The words of a linter are words, and what is read is the command with its variables
\* replaced, in whatever order.
LEMMA ReadIs ==
  ASSUME linter \in Cases, PlainVars
  PROVE  /\ linter.command \in Seq(CommandWords) /\ Command(linter.command) \in AnyText
         /\ Read = Put(Exp, Command(linter.command)) /\ Read \in AnyText
         /\ \A order \in Orders(Command(linter.command), Vars) :
              Replace(Command(linter.command), order, Vars) = Read
<1> DEFINE ws == linter.command
<1>1. ws \in Seq(CommandWords)
  <2>1. ws \in Seq(Word) /\ \A k \in DOMAIN ws :
          /\ ws[k].style = "mixed" => ws[k].text # <<>>
          /\ ws[k].style = "single" => \A r \in Range(ws[k].text) \cap DOMAIN Class : Class[r] # "single"
    BY OutputAssumption
  <2> HIDE DEF ws
  <2>2. \A k \in DOMAIN ws : ws[k] \in Word
    <3> DEFINE W == Word
    <3>1. ws \in Seq(W)
      BY <2>1
    <3> HIDE DEF W
    <3>2. \A k \in DOMAIN ws : ws[k] \in W
      BY <3>1
    <3> QED
      BY <3>2 DEF W
  <2>3. \A k \in DOMAIN ws : ws[k] \in CommandWords
    BY <2>1, <2>2 DEF CommandWords, IsWord
  <2> DEFINE W == Word
             C == CommandWords
  <2>4. ws \in Seq(W) /\ \A k \in DOMAIN ws : ws[k] \in C
    BY <2>1, <2>3
  <2> HIDE DEF W, C
  <2>5. ws \in Seq(C)
    BY <2>4
  <2> QED
    BY <2>5 DEF C
<1> HIDE DEF ws
<1>2. Command(ws) \in AnyText
  <2>1. CASE ws = <<>>
    <3>1. Command(ws) = FlattenSeq(Each(Piece, ws))
      BY <1>1, PiecesOf
    <3>2. Each(Piece, ws) = <<>>
      BY <2>1 DEF Each
    <3> QED
      BY <3>1, <3>2, FlattenNothing, TextAppend
  <2>2. CASE ws # <<>>
    <3> DEFINE C == CommandWords
    <3>1. ws \in Seq(C)
      BY <1>1
    <3> HIDE DEF C
    <3>2. PICK w : w \in C
      BY <2>2, <3>1, SequenceEmptyOrAppend
    <3> QED
      BY <1>1, <3>2, CommandAppend DEF C
  <2> QED
    BY <2>1, <2>2
<1>3. Read = Put(Exp, Command(ws)) /\ Read \in AnyText
  BY <1>2, EscExp DEF Read, ws
<1>4. ASSUME NEW order \in Orders(Command(ws), Vars)
      PROVE  Replace(Command(ws), order, Vars) = Read
  <2> DEFINE S == STRING
             c == Command(ws)
             vs == Vars
  <2>1. AreTexts(S, vs) /\ c \in Seq(S) /\ order \in Orders(c, vs)
    BY <1>2, EscExp DEF AnyText
  <2> HIDE DEF S, c, vs
  <2>2. Replace(c, order, vs) = Expanded(c, DOMAIN vs, vs)
    BY <2>1, AnyOrder
  <2> QED
    BY <2>2 DEF c, vs, ws, Read
<1> QED
  BY <1>1, <1>2, <1>3, <1>4 DEF ws

\* What is run with is what was read, at every step.
THEOREM ArgvIsRead == Spec => []ArgvInv
<1>1. Init => ArgvInv
  BY DEF Init, ArgvInv
<1>2. ArgvInv /\ [Next]_state => ArgvInv'
  <2> SUFFICES ASSUME ArgvInv, [Next]_state
               PROVE  ArgvInv'
    OBVIOUS
  <2>0. linter' = linter => (PlainVars' <=> PlainVars) /\ Read' = Read
    BY DEF PlainVars, Read, Command
  <2>1. ASSUME NEW order \in Orders(Command(linter.command), Vars), ParseCommand(order)
        PROVE  ArgvInv'
    <3> DEFINE sc == Scanned(Replace(Command(linter.command), order, Vars))
    <3>1. /\ linter' = linter
          /\ at' = "output" => ~Unfinished(sc) /\ argv' = Split(sc)
      BY <2>1 DEF ParseCommand
    <3>2. PlainVars => sc = Scanned(Read)
      BY <2>1, ReadIs DEF ArgvInv
    <3> HIDE DEF sc
    <3> QED
      BY <2>0, <3>1, <3>2 DEF ArgvInv
  <2>2. CASE FatalHit \/ OutputEnds
    BY <2>2 DEF FatalHit, OutputEnds, ArgvInv
  <2>3. ASSUME NEW m, ProcessHit(m)
        PROVE  ArgvInv'
    <3>1. linter' = linter /\ at' = at /\ argv' = argv
      BY <2>3 DEF ProcessHit
    <3> QED
      BY <2>0, <3>1 DEF ArgvInv
  <2>4. CASE Over \/ UNCHANGED state
    <3>1. linter' = linter /\ at' = at /\ argv' = argv
      BY <2>4 DEF Over, state
    <3> QED
      BY <2>0, <3>1 DEF ArgvInv
  <2> QED
    BY <2>1, <2>2, <2>3, <2>4, Zenon DEF Next
<1> QED
  BY <1>1, <1>2, PTL DEF Spec

\* What a linter is run with are the words of its command as they are written, each with
\* its variables replaced; only bare words that become empty are dropped
\* (execute.go:29-40, 63-65, 187-200, shlex.go:186-417).
THEOREM WordsComeBack == Spec => []WordsAsWritten
<1>1. ArgvInv => WordsAsWritten
  <2> SUFFICES ASSUME ArgvInv, at = "output", PlainVars, \A k \in DOMAIN linter.command : SafeIn(linter.command[k])
               PROVE  argv = WordsOf(linter.command)
    BY DEF WordsAsWritten
  <2> DEFINE ws == linter.command
  <2>1. ws \in Seq(CommandWords) /\ Read = Put(Exp, Command(ws)) /\ argv = Split(Scanned(Read))
    BY ReadIs DEF ArgvInv
  <2>2. ws \in Seq(SafeWords)
    <3> DEFINE B == SafeWords
               C == CommandWords
    <3>1. ws \in Seq(C) /\ \A k \in DOMAIN ws : ws[k] \in C => ws[k] \in B
      BY <2>1 DEF SafeWords
    <3> HIDE DEF ws, B, C
    <3>2. ws \in Seq(B)
      BY <3>1
    <3> QED
      BY <3>2 DEF B
  <2> HIDE DEF ws
  <2>3. Stops(Scanned(Read), WordsOf(ws))
    BY <2>1, <2>2, ReadsCommand
  <2>4. CASE Scanned(Read) = Sc("start", <<>>, WordsOf(ws))
    BY <2>1, <2>4 DEF Split, Sc, ws
  <2>5. ASSUME NEW w, NEW ys, Scanned(Read) = Sc("word", w, ys), WordsOf(ws) = Append(ys, w)
        PROVE  argv = WordsOf(linter.command)
    <3>1. Split(Sc("word", w, ys)) = Append(ys, w)
      BY DEF Split, Sc
    <3> QED
      BY <2>1, <2>5, <3>1 DEF ws
  <2> QED
    BY <2>3, <2>4, <2>5 DEF Stops
<1> QED
  BY <1>1, ArgvIsRead, PTL
-----------------------------------------------------------------------------
(***************************************************************************)
(* Quotes that are not closed.  st is the class of the quote q, and the    *)
(* state within it.                                                        *)
(***************************************************************************)
Bare == {"start", "word"}
Ordinary(x) == ClassOf(x) \in {"space", "rune"}
Places(t, q) == {k \in DOMAIN t : t[k] = q}
Specials(t) == (Range(t) \cap DOMAIN Class) \ {" "}
Quote == "'"
Escape == "\\"

\* The special runes of a text.
LEMMA SpecialsOf ==
  /\ \A t, u, q : Specials(t) \subseteq {q} /\ q \notin Range(u) /\ Range(u) \subseteq Range(t) => Specials(u) = {}
  /\ \A t, q : Specials(t) = {q} => q \in Range(t)
  /\ Escape \in STRING /\ ClassOf(Escape) = "escape" /\ ClassOf(Quote) = "single"
  /\ \A t : Specials(t) = {} => Quote \notin Range(t)
<1>1. Escape \in STRING /\ ClassOf(Escape) = "escape" /\ ClassOf(Quote) = "single" /\ Quote \in DOMAIN Class /\ Quote # " "
  BY Runes, Zenon DEF Escape, Quote
<1>2. /\ \A t, u, q : Specials(t) \subseteq {q} /\ q \notin Range(u) /\ Range(u) \subseteq Range(t) => Specials(u) = {}
      /\ \A t, q : Specials(t) = {q} => q \in Range(t)
      /\ \A t : Specials(t) = {} => Quote \notin Range(t)
  BY <1>1, Zenon DEF Specials
<1> QED
  BY <1>1, <1>2, Zenon

\* Where one rune at most is special, the last one is that one, a space or an ordinary one.
LEMMA SpecialsBefore ==
  ASSUME NEW t, NEW u, NEW x, NEW q, Range(t) = Range(u) \cup {x}, Specials(t) \subseteq {q}
  PROVE  Specials(u) \subseteq {q} /\ (x = q \/ Ordinary(x))
<1>1. x = " " \/ x \notin DOMAIN Class => Ordinary(x)
  BY Runes DEF ClassOf, Ordinary
<1>2. Specials(u) \subseteq {q} /\ (x = q \/ x = " " \/ x \notin DOMAIN Class)
  BY Zenon DEF Specials
<1> QED
  BY <1>1, <1>2, Zenon

\* The scanner goes into a quote and out of it again at each quote.
LEMMA QuoteStep ==
  ASSUME NEW sc, NEW x, NEW q, NEW st, sc \in Scanners, st \in {"double", "single"}, ClassOf(q) = st,
         x = q \/ Ordinary(x)
  PROVE  /\ sc.state \in Bare => IF x = q THEN Scan(sc, x).state = st ELSE Scan(sc, x).state \in Bare
         /\ sc.state = st => IF x = q THEN Scan(sc, x).state \in Bare ELSE Scan(sc, x).state = st
<1> DEFINE s == sc.state
           w == sc.word
           ws == sc.words
<1>1. sc = Sc(s, w, ws)
  BY ByFields
<1>2. x # q => ClassOf(x) \in {"space", "rune"}
  BY DEF Ordinary
<1> HIDE DEF s, w, ws
<1>3. ASSUME s \in Bare
      PROVE  IF x = q THEN Scan(sc, x).state = st ELSE Scan(sc, x).state \in Bare
  <2>1. s \in {"start", "word"}
    BY <1>3 DEF Bare
  <2>2. CASE x = q
    <3>1. ClassOf(x) = st
      BY <2>2
    <3>2. Scan(Sc(s, w, ws), x) = Sc(st, w, ws)
      BY <2>1, <3>1, ScanBare
    <3> QED
      BY <1>1, <2>2, <3>2, FieldsOf
  <2>3. CASE x # q /\ ClassOf(x) = "space"
    <3>1. Scan(Sc(s, w, ws), x) = IF s = "start" THEN Sc(s, w, ws) ELSE Sc("start", <<>>, Append(ws, w))
      BY <2>1, <2>3, ScanBare
    <3>2. Sc(s, w, ws).state = s /\ Sc("start", <<>>, Append(ws, w)).state = "start"
      BY DEF Sc
    <3> QED
      BY <1>1, <2>3, <3>1, <3>2 DEF Bare
  <2>4. CASE x # q /\ ClassOf(x) = "rune"
    <3>1. Scan(Sc(s, w, ws), x) = Sc("word", Append(w, x), ws)
      BY <2>1, <2>4, ScanBare
    <3>2. Sc("word", Append(w, x), ws).state = "word"
      BY DEF Sc
    <3> QED
      BY <1>1, <2>4, <3>1, <3>2 DEF Bare
  <2> QED
    BY <1>2, <2>2, <2>3, <2>4
<1>4. ASSUME s = st
      PROVE  IF x = q THEN Scan(sc, x).state \in Bare ELSE Scan(sc, x).state = st
  <2>1. CASE x = q
    <3>1. Scan(Sc(st, w, ws), x) = Sc("word", w, ws)
      BY <2>1, ScanQuoted
    <3>2. Sc("word", w, ws).state = "word"
      BY DEF Sc
    <3> QED
      BY <1>1, <1>4, <2>1, <3>1, <3>2 DEF Bare
  <2>2. CASE x # q
    <3>1. ClassOf(x) \notin {"double", "escape"} /\ ClassOf(x) # "single"
      BY <1>2, <2>2
    <3>2. Scan(Sc(st, w, ws), x) = Sc(st, Append(w, x), ws)
      BY <3>1, ScanQuoted
    <3>3. Sc(st, Append(w, x), ws).state = st
      BY DEF Sc
    <3> QED
      BY <1>1, <1>4, <2>2, <3>2, <3>3
  <2> QED
    BY <2>1, <2>2
<1> QED
  BY <1>3, <1>4 DEF s

\* One rune more, one place more or none.
LEMMA PlacesAppend ==
  ASSUME NEW S, NEW t, NEW x, NEW q, t \in Seq(S), x \in S, IsFiniteSet(Places(t, q))
  PROVE  /\ IsFiniteSet(Places(Append(t, x), q))
         /\ Cardinality(Places(t, q)) \in Nat
         /\ Cardinality(Places(Append(t, x), q)) =
              IF x = q THEN Cardinality(Places(t, q)) + 1 ELSE Cardinality(Places(t, q))
<1> DEFINE K == Places(t, q)
           m == Len(t) + 1
<1>1. /\ DOMAIN t = 1 .. Len(t) /\ Len(t) \in Nat /\ DOMAIN Append(t, x) = 1 .. m
      /\ \A k \in 1 .. Len(t) : Append(t, x)[k] = t[k]
      /\ Append(t, x)[m] = x
  OBVIOUS
<1>2. m \notin K /\ Places(Append(t, x), q) = IF x = q THEN K \cup {m} ELSE K
  <2>1. \A k : k \in 1 .. m <=> k \in 1 .. Len(t) \/ k = m
    BY <1>1
  <2>2. m \notin 1 .. Len(t)
    BY <1>1
  <2> HIDE DEF m
  <2> QED
    BY <1>1, <2>1, <2>2 DEF Places
<1> HIDE DEF K, m
<1>3. IsFiniteSet(K) /\ Cardinality(K) \in Nat
  BY FS_CardinalityType DEF K
<1>4. IsFiniteSet(K \cup {m}) /\ Cardinality(K \cup {m}) = Cardinality(K) + 1
  BY <1>2, <1>3, FS_AddElement
<1> QED
  BY <1>2, <1>3, <1>4 DEF K

\* Where nothing else is special, the scanner is in a quote after an odd number of them.
LEMMA QuotesOpen ==
  ASSUME NEW t, NEW q, NEW st, t \in AnyText, st \in {"double", "single"}, ClassOf(q) = st,
         Specials(t) \subseteq {q}
  PROVE  /\ Cardinality(Places(t, q)) \in Nat
         /\ IF Cardinality(Places(t, q)) % 2 = 0 THEN Scanned(t).state \in Bare ELSE Scanned(t).state = st
<1> DEFINE S == STRING
           Only(u) == Specials(u) \subseteq {q}
           Right(u) == IF Cardinality(Places(u, q)) % 2 = 0 THEN Scanned(u).state \in Bare ELSE Scanned(u).state = st
           G == {u \in Seq(S) : Only(u) => IsFiniteSet(Places(u, q)) /\ Right(u)}
<1>1. <<>> \in G
  <2>1. Places(<<>>, q) = {}
    BY DEF Places
  <2>2. IsFiniteSet({}) /\ Cardinality({}) = 0
    BY FS_EmptySet
  <2>3. Scanned(<<>>).state = "start"
    BY TextAppend, OneRune DEF Scanner
  <2>4. 0 % 2 = 0
    OBVIOUS
  <2>5. <<>> \in Seq(S)
    OBVIOUS
  <2>6. Right(<<>>)
    BY <2>1, <2>2, <2>3, <2>4 DEF Bare
  <2> QED
    BY <2>1, <2>2, <2>5, <2>6
<1>2. ASSUME NEW u \in Seq(S), NEW x \in S, u \in G, Only(Append(u, x))
      PROVE  IsFiniteSet(Places(Append(u, x), q)) /\ Right(Append(u, x))
  <2>1. u \in AnyText /\ x \in STRING /\ Append(u, x) \in AnyText
    BY TextAppend DEF AnyText
  <2>2. Range(Append(u, x)) = Range(u) \cup {x}
    <3> HIDE DEF S
    <3> QED
      BY InRange
  <2>3. Only(u) /\ (x = q \/ Ordinary(x))
    <3> DEFINE v == Append(u, x)
    <3>1. Range(v) = Range(u) \cup {x} /\ Specials(v) \subseteq {q}
      BY <1>2, <2>2
    <3> HIDE DEF v, S
    <3>2. Specials(u) \subseteq {q} /\ (x = q \/ Ordinary(x))
      BY <3>1, SpecialsBefore
    <3> QED
      BY <3>2
  <2>4. IsFiniteSet(Places(u, q)) /\ Right(u)
    BY <1>2, <2>3
  <2> DEFINE c == Cardinality(Places(u, q))
             d == Cardinality(Places(Append(u, x), q))
             sc == Scanned(u)
  <2>5. IsFiniteSet(Places(Append(u, x), q)) /\ c \in Nat /\ d = IF x = q THEN c + 1 ELSE c
    <3> HIDE DEF S
    <3> QED
      BY <2>4, PlacesAppend
  <2>6. Scanned(Append(u, x)) = Scan(sc, x) /\ sc \in Scanners
    BY <2>1, OneRune
  <2>7. x = q \/ Ordinary(x)
    BY <2>3
  <2> HIDE DEF c, d, sc
  <2>8. /\ sc.state \in Bare => IF x = q THEN Scan(sc, x).state = st ELSE Scan(sc, x).state \in Bare
        /\ sc.state = st => IF x = q THEN Scan(sc, x).state \in Bare ELSE Scan(sc, x).state = st
    BY <2>6, <2>7, QuoteStep
  <2>9. IF c % 2 = 0 THEN sc.state \in Bare ELSE sc.state = st
    BY <2>4 DEF c, sc
  <2>10. (c + 1) % 2 = 0 <=> c % 2 # 0
    BY <2>5
  <2>11. IF d % 2 = 0 THEN Scan(sc, x).state \in Bare ELSE Scan(sc, x).state = st
    <3>1. CASE x = q
      <4>1. d % 2 = 0 <=> c % 2 # 0
        BY <2>5, <2>10, <3>1
      <4> QED
        BY <2>8, <2>9, <3>1, <4>1, Zenon
    <3>2. CASE x # q
      <4>1. d = c
        BY <2>5, <3>2
      <4> QED
        BY <2>8, <2>9, <3>2, <4>1, Zenon
    <3> QED
      BY <3>1, <3>2
  <2> QED
    BY <2>5, <2>6, <2>11 DEF d
<1>3. ASSUME NEW u \in Seq(S), NEW x \in S, u \in G
      PROVE  Append(u, x) \in G
  <2>1. Append(u, x) \in Seq(S)
    <3> HIDE DEF S
    <3> QED
      OBVIOUS
  <2> QED
    BY <1>2, <1>3, <2>1
<1> HIDE DEF G
<1>4. t \in Seq(S)
  BY DEF AnyText
<1>5. t \in G
  <2> HIDE DEF S
  <2> QED
    BY <1>1, <1>3, <1>4, Growing
<1>6. IsFiniteSet(Places(t, q)) /\ Right(t)
  BY <1>5 DEF G
<1> QED
  BY <1>6, FS_CardinalityType

\* An escape at the end, the only special rune but spaces: what comes next is missing.
LEMMA EscapeEnds ==
  ASSUME NEW t, t \in AnyText, t # <<>>, Specials(t) = {Escape}, Last(t) = Escape
  PROVE  Cardinality(Places(t, Escape)) > 1 \/ Unfinished(Scanned(t))
<1> DEFINE S == STRING
           e == Escape
           q == Quote
<1>1. e \in S /\ e \in STRING /\ ClassOf(e) = "escape" /\ ClassOf(q) = "single"
  BY SpecialsOf
<1>3. t \in Seq(S) /\ Last(t) = e /\ Specials(t) = {e}
  BY DEF AnyText
<1> HIDE DEF S
<1>4. PICK u \in Seq(S), x \in S : t = Append(u, x)
  BY <1>3, SequenceEmptyOrAppend
<1>5. x = e
  <2>1. Append(u, x)[Len(Append(u, x))] = x
    OBVIOUS
  <2> QED
    BY <1>3, <1>4, <2>1 DEF Last
<1>6. u \in AnyText
  BY DEF AnyText, S
<1>7. Range(t) = Range(u) \cup {e}
  BY <1>4, <1>5, InRange
<1>8. CASE e \in Range(u)
  <2>1. PICK k \in 1 .. Len(u) : u[k] = e
    BY <1>8, InRange
  <2> DEFINE K == Places(t, e)
             m == Len(u) + 1
  <2>2. k \in K /\ m \in K /\ k # m /\ K \subseteq 1 .. m /\ m \in Nat
    BY <1>4, <1>5, <2>1 DEF Places
  <2> HIDE DEF K, m
  <2>3. IsFiniteSet(K)
    <3>1. IsFiniteSet(1 .. m)
      BY <2>2, FS_Interval
    <3> QED
      BY <2>2, <3>1, FS_Subset
  <2> DEFINE z == {k} \cup {m}
  <2>4. IsFiniteSet(z) /\ Cardinality(z) = 2 /\ z \subseteq K
    <3>1. IsFiniteSet({k}) /\ Cardinality({k}) = 1
      BY FS_Singleton
    <3>2. m \notin {k} /\ z \subseteq K
      BY <2>2
    <3>3. IsFiniteSet(z) /\ Cardinality(z) = Cardinality({k}) + 1
      BY <3>1, <3>2, FS_AddElement
    <3> QED
      BY <3>1, <3>2, <3>3
  <2> HIDE DEF z
  <2>5. Cardinality(z) <= Cardinality(K) /\ Cardinality(K) \in Nat
    BY <2>3, <2>4, FS_Subset, FS_CardinalityType
  <2> QED
    BY <2>4, <2>5 DEF K
<1>9. CASE e \notin Range(u)
  <2>1. Specials(u) \subseteq {q} /\ q \notin Range(u)
    <3>1. Specials(u) = {}
      BY <1>3, <1>7, <1>9, SpecialsOf
    <3> QED
      BY <3>1, SpecialsOf
  <2>2. Places(u, q) = {}
    BY <2>1, InRange DEF Places
  <2>3. Cardinality({}) = 0 /\ 0 % 2 = 0
    BY FS_EmptySet
  <2>4. Scanned(u).state \in Bare
    <3> DEFINE st == "single"
    <3>1. st \in {"double", "single"} /\ ClassOf(q) = st
      BY <1>1
    <3> HIDE DEF st
    <3>2. IF Cardinality(Places(u, q)) % 2 = 0 THEN Scanned(u).state \in Bare ELSE Scanned(u).state = st
      BY <1>6, <2>1, <3>1, QuotesOpen
    <3> QED
      BY <2>2, <2>3, <3>2
  <2> DEFINE a == Scanned(u).state
             w == Scanned(u).word
             ws == Scanned(u).words
  <2>5. Scanned(u) = Sc(a, w, ws)
    BY <1>6, OneRune, ByFields
  <2>6. a \in {"start", "word"}
    BY <2>4 DEF Bare
  <2>7. Scanned(t) = Scan(Scanned(u), e)
    BY <1>1, <1>4, <1>5, <1>6, OneRune
  <2> HIDE DEF a, w, ws
  <2>8. Scan(Sc(a, w, ws), e) = Sc("escaping", w, ws)
    BY <1>1, <2>6, ScanBare
  <2>9. Unfinished(Sc("escaping", w, ws))
    BY DEF Unfinished, Sc
  <2> QED
    BY <2>5, <2>7, <2>8, <2>9
<1> QED
  BY <1>8, <1>9

\* A command whose quotes are not closed, or that ends in an escape, is not run, instead
\* of losing a word or joining several (shlex.go:280-361).
THEOREM OpenFails == Spec => []UnfinishedFails
<1>1. ArgvInv => UnfinishedFails
  <2> DEFINE only  == Specials(Read)
             count == Cardinality({k \in DOMAIN Read : Read[k] \in only})
  <2>0. SUFFICES ASSUME ArgvInv, at = "output", PlainVars
                 PROVE  /\ only \in {{Quote}, {"\""}} => count % 2 = 0
                        /\ only = {Escape} /\ Last(Read) = Escape => count > 1
    BY Zenon DEF UnfinishedFails, Specials, Quote, Escape
  <2>1. Read \in AnyText /\ ~Unfinished(Scanned(Read))
    BY <2>0, ReadIs DEF ArgvInv
  <2>2. \A q : only = {q} => count = Cardinality(Places(Read, q)) /\ Read # <<>>
    <3>1. ASSUME NEW q, only = {q}
          PROVE  {k \in DOMAIN Read : Read[k] \in only} = Places(Read, q)
      BY <3>1 DEF Places
    <3>2. Range(<<>>) = {}
      BY DEF Range
    <3>3. \A q : only = {q} => q \in Range(Read)
      BY SpecialsOf
    <3> QED
      BY <3>1, <3>2, <3>3, Zenon
  <2>3. ASSUME NEW q, NEW st, st \in {"double", "single"}, ClassOf(q) = st, only = {q}
        PROVE  count % 2 = 0
    <3>1. IF Cardinality(Places(Read, q)) % 2 = 0 THEN Scanned(Read).state \in Bare ELSE Scanned(Read).state = st
      BY <2>1, <2>3, QuotesOpen
    <3>2. Scanned(Read).state # st
      BY <2>1, <2>3 DEF Unfinished
    <3>3. count = Cardinality(Places(Read, q))
      BY <2>2, <2>3
    <3> HIDE DEF count, only
    <3> QED
      BY <3>1, <3>2, <3>3
  <2>4. only \in {{Quote}, {"\""}} => count % 2 = 0
    <3> DEFINE dq == "\""
    <3>1. ClassOf(Quote) = "single" /\ ClassOf(dq) = "double"
      BY SpecialsOf, Runes
    <3> HIDE DEF count, only, dq
    <3>2. only \in {{Quote}, {dq}} => count % 2 = 0
      BY <2>3, <3>1
    <3> QED
      BY <3>2 DEF dq
  <2>5. ASSUME only = {Escape}, Last(Read) = Escape
        PROVE  count > 1
    <3>1. count = Cardinality(Places(Read, Escape)) /\ Read # <<>>
      BY <2>2, <2>5
    <3>2. Cardinality(Places(Read, Escape)) > 1 \/ Unfinished(Scanned(Read))
      BY <2>1, <2>5, <3>1, EscapeEnds
    <3> HIDE DEF count, only
    <3> QED
      BY <2>1, <3>1, <3>2
  <2> QED
    BY <2>4, <2>5
<1> QED
  BY <1>1, ArgvIsRead, PTL
================================================================================
