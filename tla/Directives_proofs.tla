--------------------------- MODULE Directives_proofs ---------------------------
(***************************************************************************)
(* Proofs about Directives, for any files: their nodes and comment groups  *)
(* need not be those of a program that Go accepts, as long as they are in  *)
(* the orders that FilesAssumption names.                                  *)
(***************************************************************************)
EXTENDS Directives, SequenceLemmas

AnyRange == [col : Nat, start : Nat, end : Nat, group : DOMAIN file.groups]

\* The ranges of one group, by their places.
PlacesOf(rs, g) == {k \in DOMAIN rs : rs[k].group = g}

-----------------------------------------------------------------------------
(***************************************************************************)
(* The steps of the definitions that recur over nodes and groups.          *)
(***************************************************************************)
IsReach(h, f, col, e) ==
  h = [m \in 0 .. Len(f.nodes) |->
         IF m = 0 THEN {e}
         ELSE h[m - 1] \cup
                (IF f.nodes[m].col = col /\ f.nodes[m].start - 1 \in h[m - 1]
                 THEN {f.nodes[m].end} ELSE {})]

\* There is such a function.
LEMMA ReachExists ==
  ASSUME NEW f, NEW col, NEW e, Len(f.nodes) \in Nat
  PROVE  \E h : IsReach(h, f, col, e)
<1> DEFINE D(n) == 0 .. n
           Part(h, n) == /\ h[0] = {e}
                         /\ \A m \in 1 .. n :
                              h[m] = h[m - 1] \cup
                                (IF f.nodes[m].col = col /\ f.nodes[m].start - 1 \in h[m - 1]
                                 THEN {f.nodes[m].end} ELSE {})
           T == {n \in Nat : \E h : Part(h, n)}
<1>1. 0 \in T
  <2>1. Part([m \in {0} |-> {e}], 0)
    OBVIOUS
  <2>2. QED
    BY <2>1
<1>2. ASSUME NEW n \in T
      PROVE  n + 1 \in T
  <2>1. PICK h : Part(h, n)
    OBVIOUS
  <2> DEFINE x == h[n] \cup
                (IF f.nodes[n + 1].col = col /\ f.nodes[n + 1].start - 1 \in h[n]
                 THEN {f.nodes[n + 1].end} ELSE {})
             i == [m \in 0 .. n + 1 |-> IF m = n + 1 THEN x ELSE h[m]]
  <2>2. i[0] = {e}
    BY <2>1
  <2>3. i[n + 1] = x /\ i[n] = h[n] /\ n \in Nat
    OBVIOUS
  <2> HIDE DEF x
  <2>4. \A m \in 1 .. n : i[m] = h[m] /\ i[m - 1] = h[m - 1]
    OBVIOUS
  <2> HIDE DEF i
  <2>5. ASSUME NEW m \in 1 .. n + 1
        PROVE  i[m] = i[m - 1] \cup
                 (IF f.nodes[m].col = col /\ f.nodes[m].start - 1 \in i[m - 1]
                  THEN {f.nodes[m].end} ELSE {})
    <3>1. CASE m = n + 1
      <4>1. m - 1 = n
        BY <2>3, <3>1
      <4>2. QED
        BY <2>3, <3>1, <4>1 DEF x
    <3>2. CASE m # n + 1
      <4>1. m \in 1 .. n
        BY <2>3, <3>2
      <4>2. QED
        BY <2>1, <2>4, <4>1
    <3>3. QED
      BY <3>1, <3>2
  <2>6. Part(i, n + 1)
    BY <2>2, <2>5
  <2>7. QED
    BY <2>3, <2>6
<1>3. T = Nat
  <2> HIDE DEF T
  <2>1. T \subseteq Nat
    BY DEF T
  <2>2. QED
    BY <1>1, <1>2, <2>1, Induction
<1>4. PICK h : Part(h, Len(f.nodes))
  BY <1>3
<1> DEFINE i == [m \in 0 .. Len(f.nodes) |-> h[m]]
<1>5. IsReach(i, f, col, e)
  <2>1. \A m \in 0 .. Len(f.nodes) : i[m] = h[m]
    OBVIOUS
  <2>2. \A m \in 0 .. Len(f.nodes) : m # 0 => m \in 1 .. Len(f.nodes) /\ m - 1 \in 0 .. Len(f.nodes)
    OBVIOUS
  <2>3. \A m \in 0 .. Len(f.nodes) :
          h[m] = IF m = 0 THEN {e}
                 ELSE i[m - 1] \cup
                        (IF f.nodes[m].col = col /\ f.nodes[m].start - 1 \in i[m - 1]
                         THEN {f.nodes[m].end} ELSE {})
    <3> HIDE DEF i
    <3>1. QED
      BY <1>4, <2>1, <2>2
  <2>4. QED
    BY <2>3, Zenon DEF IsReach
<1>6. QED
  BY <1>5

\* From its line nothing is reached but the line, and each node adds its end if it
\* has the column and starts after a line that is reached.
LEMMA ChainedStep ==
  ASSUME NEW f, NEW col, NEW e, Len(f.nodes) \in Nat
  PROVE  /\ Chained(f, col, e, 0) = {e}
         /\ \A n \in 0 .. Len(f.nodes) - 1 :
              /\ Chained(f, col, e, n) \subseteq Chained(f, col, e, n + 1)
              /\ f.nodes[n + 1].col = col /\ f.nodes[n + 1].start - 1 \in Chained(f, col, e, n)
                   => f.nodes[n + 1].end \in Chained(f, col, e, n + 1)
<1> DEFINE h == CHOOSE h : IsReach(h, f, col, e)
<1>1. IsReach(h, f, col, e)
  BY ReachExists
<1>2. \A n : Chained(f, col, e, n) = h[n]
  BY DEF Chained, IsReach
<1> HIDE DEF h
<1>3. h[0] = {e}
  <2>1. 0 \in 0 .. Len(f.nodes)
    OBVIOUS
  <2>2. QED
    BY <1>1, <2>1, Zenon DEF IsReach
<1>4. ASSUME NEW n \in 0 .. Len(f.nodes) - 1
      PROVE  h[n + 1] = h[n] \cup
               (IF f.nodes[n + 1].col = col /\ f.nodes[n + 1].start - 1 \in h[n]
                THEN {f.nodes[n + 1].end} ELSE {})
  <2> DEFINE k == n + 1
  <2>1. k \in 0 .. Len(f.nodes) /\ k # 0 /\ k - 1 = n
    OBVIOUS
  <2> HIDE DEF k
  <2>2. h[k] = h[k - 1] \cup
               (IF f.nodes[k].col = col /\ f.nodes[k].start - 1 \in h[k - 1]
                THEN {f.nodes[k].end} ELSE {})
    BY <1>1, <2>1, Zenon DEF IsReach
  <2>3. QED
    BY <2>1, <2>2 DEF k
<1>5. ASSUME NEW n \in 0 .. Len(f.nodes) - 1
      PROVE  /\ Chained(f, col, e, n) \subseteq Chained(f, col, e, n + 1)
             /\ f.nodes[n + 1].col = col /\ f.nodes[n + 1].start - 1 \in Chained(f, col, e, n)
                  => f.nodes[n + 1].end \in Chained(f, col, e, n + 1)
  <2>1. Chained(f, col, e, n) = h[n] /\ Chained(f, col, e, n + 1) = h[n + 1]
    BY <1>2
  <2>2. h[n] \subseteq h[n + 1]
    BY <1>4
  <2>3. f.nodes[n + 1].col = col /\ f.nodes[n + 1].start - 1 \in h[n]
          => f.nodes[n + 1].end \in h[n + 1]
    BY <1>4
  <2>4. QED
    BY <2>1, <2>2, <2>3, Zenon
<1>6. QED
  BY <1>2, <1>3, <1>5, Zenon

Nolints(f, g) == [n \in 1 .. f.groups[g].nolints |-> RangeOf(f, g)]

IsExtract(h, f) ==
  h = [g \in 0 .. Len(f.groups) |->
         IF g = 0 THEN <<>> ELSE h[g - 1] \o [n \in 1 .. f.groups[g].nolints |-> RangeOf(f, g)]]

\* There is such a function too.
LEMMA ExtractExists ==
  ASSUME NEW f, Len(f.groups) \in Nat
  PROVE  \E h : IsExtract(h, f)
<1> DEFINE Part(h, n) == h[0] = <<>> /\ \A m \in 1 .. n : h[m] = h[m - 1] \o Nolints(f, m)
           T == {n \in Nat : \E h : Part(h, n)}
<1>1. 0 \in T
  <2>1. Part([m \in {0} |-> <<>>], 0)
    OBVIOUS
  <2>2. QED
    BY <2>1
<1>2. ASSUME NEW n \in T
      PROVE  n + 1 \in T
  <2>1. PICK h : Part(h, n)
    OBVIOUS
  <2> DEFINE x == h[n] \o Nolints(f, n + 1)
             i == [m \in 0 .. n + 1 |-> IF m = n + 1 THEN x ELSE h[m]]
  <2>2. i[0] = <<>>
    BY <2>1
  <2> HIDE DEF x
  <2>3. i[n + 1] = x /\ i[n] = h[n] /\ n \in Nat
    OBVIOUS
  <2>4. \A m \in 1 .. n : i[m] = h[m] /\ i[m - 1] = h[m - 1]
    OBVIOUS
  <2> HIDE DEF i
  <2>5. ASSUME NEW m \in 1 .. n + 1
        PROVE  i[m] = i[m - 1] \o Nolints(f, m)
    <3>1. CASE m = n + 1
      <4>1. m - 1 = n
        BY <2>3, <3>1
      <4>2. QED
        BY <2>3, <3>1, <4>1 DEF x
    <3>2. CASE m # n + 1
      <4>1. m \in 1 .. n
        BY <2>3, <3>2
      <4>2. QED
        BY <2>1, <2>4, <4>1
    <3>3. QED
      BY <3>1, <3>2
  <2>6. Part(i, n + 1)
    BY <2>2, <2>5
  <2>7. QED
    BY <2>3, <2>6
<1>3. T = Nat
  <2> HIDE DEF T
  <2>1. T \subseteq Nat
    BY DEF T
  <2>2. QED
    BY <1>1, <1>2, <2>1, Induction
<1>4. PICK h : Part(h, Len(f.groups))
  BY <1>3
<1> DEFINE i == [m \in 0 .. Len(f.groups) |-> h[m]]
<1>5. IsExtract(i, f)
  <2>1. \A m \in 0 .. Len(f.groups) : i[m] = h[m]
    OBVIOUS
  <2>2. \A m \in 0 .. Len(f.groups) : m # 0 => m \in 1 .. Len(f.groups) /\ m - 1 \in 0 .. Len(f.groups)
    OBVIOUS
  <2>3. \A m \in 0 .. Len(f.groups) :
          h[m] = IF m = 0 THEN <<>> ELSE i[m - 1] \o Nolints(f, m)
    <3> HIDE DEF i
    <3>1. QED
      BY <1>4, <2>1, <2>2
  <2>4. QED
    BY <2>3, Zenon DEF IsExtract, Nolints
<1>6. QED
  BY <1>5

\* A group's nolint comments give that many ranges with the lines of the group.
LEMMA NolintsOf ==
  ASSUME NEW f \in Files, NEW g \in DOMAIN f.groups
  PROVE  /\ Nolints(f, g) \in Seq([col : Nat, start : Nat, end : Nat, group : DOMAIN f.groups])
         /\ Len(Nolints(f, g)) = f.groups[g].nolints /\ f.groups[g].nolints \in Nat
         /\ \A n \in DOMAIN Nolints(f, g) : Nolints(f, g)[n] = RangeOf(f, g)
<1>1. f.groups[g] \in Group
  BY FilesAssumption
<1>2. RangeOf(f, g) \in [col : Nat, start : Nat, end : Nat, group : DOMAIN f.groups]
  BY <1>1 DEF RangeOf, Group
<1>3. f.groups[g].nolints \in Nat
  BY <1>1 DEF Group
<1> HIDE DEF RangeOf
<1>4. Nolints(f, g) \in Seq([col : Nat, start : Nat, end : Nat, group : DOMAIN f.groups])
  <2> DEFINE R == [col : Nat, start : Nat, end : Nat, group : DOMAIN f.groups]
             m == f.groups[g].nolints
             x == RangeOf(f, g)
  <2>1. x \in R /\ m \in Nat
    BY <1>2, <1>3
  <2> HIDE DEF R, m, x
  <2>2. [n \in 1 .. m |-> x] \in Seq(R)
    BY <2>1
  <2>3. QED
    BY <2>2 DEF Nolints, R, m, x
<1>5. DOMAIN Nolints(f, g) = 1 .. f.groups[g].nolints
  BY DEF Nolints
<1>6. Len(Nolints(f, g)) = f.groups[g].nolints
  BY <1>3, <1>4, <1>5, LenProperties
<1>7. \A n \in DOMAIN Nolints(f, g) : Nolints(f, g)[n] = RangeOf(f, g)
  BY DEF Nolints
<1>8. QED
  BY <1>3, <1>4, <1>6, <1>7

\* The ranges that extraction gives have the lines of their groups, and every group
\* has as many as it has nolint comments.
LEMMA Extracted ==
  ASSUME NEW f \in Files
  PROVE  /\ Extract(f) \in Seq([col : Nat, start : Nat, end : Nat, group : DOMAIN f.groups])
         /\ \A k \in DOMAIN Extract(f) : Extract(f)[k] = RangeOf(f, Extract(f)[k].group)
         /\ \A g \in DOMAIN f.groups : Cardinality(PlacesOf(Extract(f), g)) = f.groups[g].nolints
         /\ \A k, l \in DOMAIN Extract(f) : k < l => Extract(f)[k].group <= Extract(f)[l].group
<1> DEFINE N == Len(f.groups)
           R == [col : Nat, start : Nat, end : Nat, group : DOMAIN f.groups]
           h == CHOOSE h : IsExtract(h, f)
           Right(rs, n) ==
             /\ rs \in Seq(R)
             /\ \A k \in DOMAIN rs : rs[k].group \in 1 .. n /\ rs[k] = RangeOf(f, rs[k].group)
             /\ \A g \in 1 .. n : Cardinality(PlacesOf(rs, g)) = f.groups[g].nolints
             /\ \A k, l \in DOMAIN rs : k < l => rs[k].group <= rs[l].group
           T == {n \in Nat : n <= N => Right(h[n], n)}
<1>1. f.groups \in Seq(Group) /\ N \in Nat /\ DOMAIN f.groups = 1 .. N
  BY FilesAssumption
<1>2. IsExtract(h, f)
  BY <1>1, ExtractExists
<1>3. Extract(f) = h[N]
  BY DEF Extract, IsExtract
<1> HIDE DEF N, h
<1>4. h[0] = <<>> /\ \A n \in Nat : n + 1 <= N => h[n + 1] = h[n] \o Nolints(f, n + 1)
  <2>1. h[0] = <<>>
    <3>1. 0 \in 0 .. N
      BY <1>1
    <3>2. QED
      BY <1>2, <3>1, Zenon DEF IsExtract, N
  <2>2. ASSUME NEW n \in Nat, n + 1 <= N
        PROVE  h[n + 1] = h[n] \o Nolints(f, n + 1)
    <3> DEFINE k == n + 1
    <3>1. k \in 0 .. N /\ k # 0 /\ k - 1 = n
      BY <1>1, <2>2
    <3> HIDE DEF k
    <3>2. h[k] = h[k - 1] \o Nolints(f, k)
      BY <1>2, <3>1, Zenon DEF IsExtract, Nolints, N
    <3>3. QED
      BY <3>1, <3>2 DEF k
  <2>3. QED
    BY <2>1, <2>2
<1>5. 0 \in T
  <2>1. Right(<<>>, 0)
    BY EmptySeq
  <2>2. QED
    BY <1>4, <2>1
<1>6. ASSUME NEW n \in T
      PROVE  n + 1 \in T
  <2>1. SUFFICES ASSUME n + 1 <= N
                 PROVE  Right(h[n + 1], n + 1)
    OBVIOUS
  <2>2. n \in Nat /\ n + 1 \in DOMAIN f.groups
    BY <1>1, <2>1
  <2>3. Right(h[n], n)
    BY <1>1, <2>1, <2>2
  <2> DEFINE xs == h[n]
             ys == Nolints(f, n + 1)
             zs == xs \o ys
  <2>4. h[n + 1] = zs
    BY <1>4, <2>1, <2>2
  <2>5. /\ ys \in Seq(R) /\ Len(ys) = f.groups[n + 1].nolints /\ f.groups[n + 1].nolints \in Nat
        /\ \A k \in DOMAIN ys : ys[k] = RangeOf(f, n + 1)
    BY <2>2, NolintsOf
  <2>6. /\ xs \in Seq(R) /\ Len(xs) \in Nat /\ DOMAIN xs = 1 .. Len(xs)
        /\ DOMAIN ys = 1 .. Len(ys) /\ Len(ys) \in Nat
    BY <2>3, <2>5, LenProperties
  <2> HIDE DEF xs, ys, R
  <2>7. /\ zs \in Seq(R) /\ DOMAIN zs = 1 .. Len(xs) + Len(ys)
        /\ \A k \in 1 .. Len(xs) : zs[k] = xs[k]
        /\ \A k \in Len(xs) + 1 .. Len(xs) + Len(ys) : zs[k] = RangeOf(f, n + 1)
    <3>1. /\ zs \in Seq(R) /\ Len(zs) = Len(xs) + Len(ys)
          /\ \A k \in 1 .. Len(xs) + Len(ys) :
               zs[k] = IF k <= Len(xs) THEN xs[k] ELSE ys[k - Len(xs)]
      BY <2>5, <2>6, ConcatProperties
    <3> HIDE DEF zs
    <3>2. DOMAIN zs = 1 .. Len(xs) + Len(ys)
      BY <3>1, LenProperties
    <3>3. \A k \in 1 .. Len(xs) : zs[k] = xs[k]
      BY <2>6, <3>1
    <3>4. ASSUME NEW k \in Len(xs) + 1 .. Len(xs) + Len(ys)
          PROVE  zs[k] = RangeOf(f, n + 1)
      <4>1. k \in 1 .. Len(xs) + Len(ys) /\ ~(k <= Len(xs)) /\ k - Len(xs) \in DOMAIN ys
        BY <2>6
      <4>2. QED
        BY <2>5, <3>1, <4>1
    <3>5. QED
      BY <3>1, <3>2, <3>3, <3>4
  <2> HIDE DEF zs
  <2>8. RangeOf(f, n + 1).group = n + 1
    BY DEF RangeOf
  <2>9. \A k \in DOMAIN zs : k \in 1 .. Len(xs) \/ k \in Len(xs) + 1 .. Len(xs) + Len(ys)
    BY <2>6, <2>7
  <2>10. \A k \in 1 .. Len(xs) : xs[k].group \in 1 .. n /\ xs[k] = RangeOf(f, xs[k].group)
    BY <2>3, <2>6 DEF xs
  <2>11. ASSUME NEW k \in DOMAIN zs
         PROVE  zs[k].group \in 1 .. n + 1 /\ zs[k] = RangeOf(f, zs[k].group)
    <3>1. CASE k \in 1 .. Len(xs)
      BY <2>2, <2>7, <2>10, <3>1
    <3>2. CASE k \in Len(xs) + 1 .. Len(xs) + Len(ys)
      BY <2>2, <2>7, <2>8, <3>2
    <3>3. QED
      BY <2>9, <3>1, <3>2
  <2>12. ASSUME NEW g \in 1 .. n + 1
         PROVE  Cardinality(PlacesOf(zs, g)) = f.groups[g].nolints
    <3>1. CASE g = n + 1
      <4>1. PlacesOf(zs, g) = Len(xs) + 1 .. Len(xs) + Len(ys)
        <5>1. \A k \in 1 .. Len(xs) : zs[k].group # n + 1
          BY <2>2, <2>7, <2>10
        <5>2. \A k \in Len(xs) + 1 .. Len(xs) + Len(ys) : k \in DOMAIN zs /\ zs[k].group = n + 1
          BY <2>6, <2>7, <2>8
        <5>3. QED
          BY <2>9, <3>1, <5>1, <5>2 DEF PlacesOf
      <4>2. Cardinality(Len(xs) + 1 .. Len(xs) + Len(ys)) = Len(ys)
        <5>1. \A a, b \in Int : Cardinality(a .. b) = IF a > b THEN 0 ELSE b - a + 1
          BY FS_Interval
        <5>2. \A a, b \in Nat : Cardinality(a + 1 .. a + b) = b
          <6>1. ASSUME NEW a \in Nat, NEW b \in Nat
                PROVE  Cardinality(a + 1 .. a + b) = IF a + 1 > a + b THEN 0 ELSE a + b - (a + 1) + 1
            BY <5>1
          <6>2. ASSUME NEW a \in Nat, NEW b \in Nat
                PROVE  (IF a + 1 > a + b THEN 0 ELSE a + b - (a + 1) + 1) = b
            OBVIOUS
          <6>3. QED
            BY <6>1, <6>2
        <5>3. QED
          BY <2>6, <5>2
      <4>3. QED
        BY <2>5, <3>1, <4>1, <4>2
    <3>2. CASE g # n + 1
      <4>1. g \in 1 .. n
        BY <2>2, <3>2
      <4>2. PlacesOf(zs, g) = PlacesOf(xs, g)
        <5>1. \A k \in Len(xs) + 1 .. Len(xs) + Len(ys) : zs[k].group # g
          BY <2>7, <2>8, <3>2
        <5>2. \A k \in 1 .. Len(xs) : k \in DOMAIN zs /\ k \in DOMAIN xs /\ zs[k] = xs[k]
          BY <2>6, <2>7
        <5>3. QED
          BY <2>6, <2>9, <5>1, <5>2 DEF PlacesOf
      <4>3. Cardinality(PlacesOf(xs, g)) = f.groups[g].nolints
        BY <2>3, <4>1 DEF xs
      <4>4. QED
        BY <4>2, <4>3
    <3>3. QED
      BY <3>1, <3>2
  <2>13. ASSUME NEW k \in DOMAIN zs, NEW l \in DOMAIN zs, k < l
         PROVE  zs[k].group <= zs[l].group
    <3>1. CASE l \in 1 .. Len(xs)
      <4>1. k \in 1 .. Len(xs)
        BY <2>6, <2>9, <2>13, <3>1
      <4>2. xs[k].group <= xs[l].group
        BY <2>3, <2>6, <2>13, <3>1, <4>1 DEF xs
      <4>3. QED
        BY <2>7, <3>1, <4>1, <4>2
    <3>2. CASE l \in Len(xs) + 1 .. Len(xs) + Len(ys)
      <4>1. zs[l].group = n + 1
        BY <2>7, <2>8, <3>2
      <4>2. zs[k].group \in 1 .. n + 1
        BY <2>11
      <4>3. QED
        BY <2>2, <4>1, <4>2
    <3>3. QED
      BY <2>9, <3>1, <3>2
  <2>14. QED
    BY <2>4, <2>7, <2>11, <2>12, <2>13
<1>7. T = Nat
  <2> HIDE DEF T
  <2>1. T \subseteq Nat
    BY DEF T
  <2>2. QED
    BY <1>5, <1>6, <2>1, Induction
<1>8. Right(h[N], N)
  <2>1. N \in T
    BY <1>1, <1>7
  <2> HIDE DEF Right
  <2>2. N <= N => Right(h[N], N)
    BY <2>1
  <2>3. QED
    BY <1>1, <2>2
<1>9. QED
  BY <1>1, <1>3, <1>8

-----------------------------------------------------------------------------
(***************************************************************************)
(* The invariant: the properties are inductive together.                   *)
(***************************************************************************)
Inv == file \in Files /\ TypeOK /\ KeepsOwnLines /\ GrowsOverNeighbours

\* Of a file: where its nodes and groups are.
LEMMA FileTypes ==
  ASSUME file \in Files
  PROVE  /\ file \in [nodes : Seq(Node), groups : Seq(Group)]
         /\ file.nodes \in Seq(Node) /\ file.groups \in Seq(Group)
         /\ Len(file.nodes) \in Nat /\ Len(file.groups) \in Nat
         /\ DOMAIN file.groups = 1 .. Len(file.groups)
         /\ \A n \in 1 .. Len(file.nodes) : file.nodes[n] \in Node
         /\ \A g \in DOMAIN file.groups :
              file.groups[g] \in Group /\ file.groups[g].start <= file.groups[g].end
  BY FilesAssumption

\* A range that stands before a node keeps its first line, and its last is its own or
\* the node's.
LEMMA GrownRange ==
  ASSUME NEW r \in AnyRange, NEW node \in Node, Near(r, node), r.start <= r.end
  PROVE  /\ Grown(r, node) \in AnyRange /\ Grown(r, node).start = r.start
         /\ Grown(r, node).group = r.group /\ Grown(r, node).col = r.col
         /\ Grown(r, node).end >= r.end
         /\ Grown(r, node).end \in {r.end, node.end}
<1>1. /\ r.start \in Nat /\ r.end \in Nat /\ node.start \in Nat /\ node.end \in Nat
      /\ r.end = node.start - 1
  BY DEF AnyRange, Node, Near
<1>2. ~(r.start > node.start)
  BY <1>1
<1> DEFINE e == IF r.end < node.end THEN node.end ELSE r.end
<1>3. e \in Nat /\ e >= r.end /\ e \in {r.end, node.end}
  BY <1>1
<1> HIDE DEF e
<1>4. Grown(r, node) = [r EXCEPT !.start = r.start, !.end = e]
  BY <1>2 DEF Grown, e
<1>5. QED
  BY <1>1, <1>3, <1>4 DEF AnyRange

\* Whatever the search finds, one range at most is changed, and that one grows.
LEMMA VisitedRanges ==
  ASSUME NEW S, NEW rs \in Seq(S), NEW node
  PROVE  LET after == Visited(rs, node)
         IN  /\ DOMAIN after = DOMAIN rs
             /\ \A k \in DOMAIN rs :
                  \/ after[k] = rs[k]
                  \/ Near(rs[k], node) /\ after[k] = Grown(rs[k], node)
<1> DEFINE found == Found(rs, node)
           grown == [rs EXCEPT ![found] = Grown(@, node)]
<1>1. Visited(rs, node) = IF found <= Len(rs) /\ Near(rs[found], node) THEN grown ELSE rs
  BY DEF Visited
<1> HIDE DEF found
<1>2. /\ DOMAIN grown = DOMAIN rs
      /\ \A k \in DOMAIN rs : grown[k] = IF k = found THEN Grown(rs[k], node) ELSE rs[k]
  OBVIOUS
<1> HIDE DEF grown
<1>3. QED
  BY <1>1, <1>2

\* The invariant holds of what is extracted.
LEMMA InvInit == Init => Inv
<1>1. SUFFICES ASSUME Init
               PROVE  Inv
  OBVIOUS
<1>2. /\ file \in Files /\ ranges = Extract(file) /\ next = 1 /\ walked = FALSE
  BY <1>1 DEF Init
<1>3. /\ ranges \in Seq(AnyRange)
      /\ \A k \in DOMAIN ranges : ranges[k] = RangeOf(file, ranges[k].group)
      /\ \A g \in DOMAIN file.groups : Cardinality(PlacesOf(ranges, g)) = file.groups[g].nolints
  BY <1>2, Extracted DEF AnyRange
<1>4. TypeOK
  <2>1. Len(file.nodes) \in Nat
    BY <1>2, FilesAssumption
  <2>2. next \in 1 .. Len(file.nodes) + 1 /\ walked \in BOOLEAN
    <3>1. \A n \in Nat : 1 \in 1 .. n + 1
      OBVIOUS
    <3>2. QED
      BY <1>2, <2>1, <3>1
  <2>3. \A g \in DOMAIN file.groups :
          Cardinality({k \in DOMAIN ranges : ranges[k].group = g}) = file.groups[g].nolints
    BY <1>3, Zenon DEF PlacesOf
  <2>4. QED
    BY <1>2, <1>3, <2>2, <2>3, FileTypes DEF TypeOK, AnyRange
<1>5. ASSUME NEW k \in DOMAIN ranges
      PROVE  /\ ranges[k].start = file.groups[ranges[k].group].start
             /\ ranges[k].end = file.groups[ranges[k].group].end
             /\ ranges[k].end \in Nat
  <2>1. ranges[k] = RangeOf(file, ranges[k].group) /\ ranges[k] \in AnyRange
    BY <1>3
  <2>2. QED
    BY <2>1 DEF RangeOf, AnyRange
<1>6. KeepsOwnLines
  BY <1>5 DEF KeepsOwnLines
<1>7. GrowsOverNeighbours
  <2>1. ASSUME NEW k \in DOMAIN ranges
        PROVE  ranges[k].end \in
                 Chained(file, ranges[k].col, file.groups[ranges[k].group].end, next - 1)
    <3>1. Len(file.nodes) \in Nat /\ next - 1 = 0
      BY <1>2, FilesAssumption
    <3>2. Chained(file, ranges[k].col, file.groups[ranges[k].group].end, 0)
            = {file.groups[ranges[k].group].end}
      BY <3>1, ChainedStep
    <3>3. QED
      BY <1>5, <3>1, <3>2
  <2>2. QED
    BY <2>1 DEF GrowsOverNeighbours
<1>8. QED
  BY <1>2, <1>4, <1>6, <1>7 DEF Inv

\* Visit: the range it finds may grow by the node, and stays where its comment is.
LEMMA VisitStep == Inv /\ Visit => Inv'
<1>1. SUFFICES ASSUME Inv, Visit
               PROVE  Inv'
  OBVIOUS
<1> DEFINE node == file.nodes[next]
<1>2. /\ next <= Len(file.nodes) /\ ranges' = Visited(ranges, node)
      /\ next' = next + 1 /\ file' = file /\ walked' = walked
  BY <1>1 DEF Visit
<1>3. file \in Files /\ TypeOK /\ KeepsOwnLines /\ GrowsOverNeighbours
  BY <1>1 DEF Inv
<1>4. /\ Len(file.nodes) \in Nat /\ next \in 1 .. Len(file.nodes) /\ node \in Node
      /\ ranges \in Seq(AnyRange) /\ DOMAIN ranges = 1 .. Len(ranges) /\ Len(ranges) \in Nat
      /\ next - 1 \in 0 .. Len(file.nodes) - 1 /\ (next - 1) + 1 = next /\ next' - 1 = next
  <2>1. /\ Len(file.nodes) \in Nat /\ next \in 1 .. Len(file.nodes) + 1
        /\ ranges \in Seq(AnyRange)
    BY <1>3, FileTypes DEF TypeOK, AnyRange
  <2>2. next \in 1 .. Len(file.nodes)
    BY <1>2, <2>1
  <2>3. node \in Node
    BY <1>3, <2>2, FileTypes
  <2>4. next' - 1 = next /\ (next - 1) + 1 = next /\ next - 1 \in 0 .. Len(file.nodes) - 1
    BY <1>2, <2>2
  <2>5. QED
    BY <2>1, <2>2, <2>3, <2>4
<1> HIDE DEF node
<1>5. /\ DOMAIN ranges' = DOMAIN ranges
      /\ \A k \in DOMAIN ranges :
           \/ ranges'[k] = ranges[k]
           \/ Near(ranges[k], node) /\ ranges'[k] = Grown(ranges[k], node)
  BY <1>2, <1>4, VisitedRanges
<1>6. ASSUME NEW k \in DOMAIN ranges
      PROVE  /\ ranges[k] \in AnyRange /\ ranges[k].start <= ranges[k].end
             /\ ranges[k].group \in DOMAIN file.groups
             /\ ranges[k].start = file.groups[ranges[k].group].start
             /\ ranges[k].end >= file.groups[ranges[k].group].end
             /\ file.groups[ranges[k].group].end \in Nat
  <2>1. ranges[k] \in AnyRange
    BY <1>4
  <2>2. ranges[k].group \in DOMAIN file.groups
    BY <2>1 DEF AnyRange
  <2>3. /\ file.groups[ranges[k].group] \in Group
        /\ file.groups[ranges[k].group].start <= file.groups[ranges[k].group].end
    BY <1>3, <2>2, FileTypes
  <2>4. /\ ranges[k].start = file.groups[ranges[k].group].start
        /\ ranges[k].end >= file.groups[ranges[k].group].end
    BY <1>3 DEF KeepsOwnLines
  <2>5. QED
    BY <2>1, <2>2, <2>3, <2>4 DEF AnyRange, Group
<1>7. ASSUME NEW k \in DOMAIN ranges
      PROVE  /\ ranges'[k] \in AnyRange /\ ranges'[k].start = ranges[k].start
             /\ ranges'[k].group = ranges[k].group /\ ranges'[k].col = ranges[k].col
             /\ ranges'[k].end >= ranges[k].end
             /\ \/ ranges'[k].end = ranges[k].end
                \/ Near(ranges[k], node) /\ ranges'[k].end = node.end
  <2>1. CASE ranges'[k] = ranges[k]
    <3>1. ranges[k] \in AnyRange /\ ranges[k].end >= ranges[k].end
      BY <1>6 DEF AnyRange
    <3>2. QED
      BY <2>1, <3>1
  <2>2. CASE Near(ranges[k], node) /\ ranges'[k] = Grown(ranges[k], node)
    <3>1. ranges[k] \in AnyRange /\ ranges[k].start <= ranges[k].end
      BY <1>6
    <3>2. QED
      BY <1>4, <2>2, <3>1, GrownRange
  <2>3. QED
    BY <1>5, <2>1, <2>2
<1>8. TypeOK'
  <2>1. ranges' \in Seq(AnyRange)
    <3>1. ranges' \in [1 .. Len(ranges) -> AnyRange]
      <4>1. ranges' = [k \in DOMAIN ranges |-> ranges'[k]]
        <5>1. Visited(ranges, node) \in Seq(AnyRange) \/ ranges' = [k \in DOMAIN ranges' |-> ranges'[k]]
          BY <1>2, <1>4 DEF Visited
        <5>2. QED
          BY <1>2, <1>5, <5>1
      <4>2. QED
        BY <1>4, <1>7, <4>1
    <3>2. QED
      BY <1>4, <3>1 DEF Seq
  <2>2. ASSUME NEW g \in DOMAIN file.groups
        PROVE  {k \in DOMAIN ranges' : ranges'[k].group = g} = {k \in DOMAIN ranges : ranges[k].group = g}
    BY <1>5, <1>7
  <2>3. next' \in 1 .. Len(file.nodes) + 1
    BY <1>2, <1>4
  <2>4. QED
    BY <1>2, <1>3, <2>1, <2>2, <2>3 DEF TypeOK, AnyRange
<1>9. KeepsOwnLines'
  <2>1. ASSUME NEW k \in DOMAIN ranges
        PROVE  /\ ranges'[k].start = file.groups[ranges'[k].group].start
               /\ ranges'[k].end >= file.groups[ranges'[k].group].end
    <3>1. ranges'[k].end \in Nat /\ ranges[k].end \in Nat
      BY <1>6, <1>7 DEF AnyRange
    <3>2. QED
      BY <1>6, <1>7, <3>1
  <2>2. QED
    BY <1>2, <1>5, <2>1 DEF KeepsOwnLines
<1>10. GrowsOverNeighbours'
  <2>1. ASSUME NEW k \in DOMAIN ranges
        PROVE  ranges'[k].end \in
                 Chained(file, ranges'[k].col, file.groups[ranges'[k].group].end, next' - 1)
    <3> DEFINE C(n) == Chained(file, ranges[k].col, file.groups[ranges[k].group].end, n)
    <3>1. ranges[k].end \in C(next - 1)
      BY <1>3 DEF GrowsOverNeighbours
    <3>2. /\ C(next - 1) \subseteq C((next - 1) + 1)
          /\ file.nodes[(next - 1) + 1].col = ranges[k].col
               /\ file.nodes[(next - 1) + 1].start - 1 \in C(next - 1)
               => file.nodes[(next - 1) + 1].end \in C((next - 1) + 1)
      BY <1>4, ChainedStep
    <3> HIDE DEF C
    <3>3. /\ C(next - 1) \subseteq C(next)
          /\ node.col = ranges[k].col /\ node.start - 1 \in C(next - 1) => node.end \in C(next)
      BY <1>4, <3>2 DEF node
    <3>4. Near(ranges[k], node) => node.col = ranges[k].col /\ node.start - 1 = ranges[k].end
      BY DEF Near
    <3>5. ranges'[k].end \in C(next)
      BY <1>7, <3>1, <3>3, <3>4
    <3>6. QED
      BY <1>4, <1>7, <3>5 DEF C
  <2>2. QED
    BY <1>2, <1>5, <2>1 DEF GrowsOverNeighbours
<1>11. QED
  BY <1>2, <1>3, <1>8, <1>9, <1>10 DEF Inv

\* Putting the ranges in another order leaves as many to each group.
LEMMA Reordered ==
  ASSUME NEW S, NEW rs \in Seq(S), NEW p \in [DOMAIN rs -> DOMAIN rs], NEW g,
         \A m, n \in DOMAIN rs : p[m] = p[n] => m = n
  PROVE  Cardinality(PlacesOf([k \in DOMAIN rs |-> rs[p[k]]], g)) = Cardinality(PlacesOf(rs, g))
<1> DEFINE D  == DOMAIN rs
           ss == [k \in D |-> rs[p[k]]]
           A  == PlacesOf(ss, g)
           B  == PlacesOf(rs, g)
           f  == [k \in A |-> p[k]]
<1>1. D = 1 .. Len(rs) /\ Len(rs) \in Nat
  OBVIOUS
<1>2. IsFiniteSet(D)
  BY <1>1, FS_Interval
<1>3. p \in Injection(D, D)
  BY DEF Injection, IsInjective
<1>4. p \in Surjection(D, D)
  BY <1>2, <1>3, FS_Injection
<1>5. A \subseteq D /\ B \subseteq D /\ \A k \in D : k \in A <=> p[k] \in B
  BY DEF PlacesOf
<1> HIDE DEF D, ss, A, B
<1>6. f \in Bijection(A, B)
  <2>1. f \in [A -> B]
    BY <1>5
  <2>2. \A m, n \in A : f[m] = f[n] => m = n
    BY <1>3, <1>5 DEF Injection, IsInjective
  <2>3. \A b \in B : \E a \in A : f[a] = b
    BY <1>4, <1>5 DEF Surjection
  <2>4. QED
    BY <2>1, <2>2, <2>3 DEF Bijection, Injection, Surjection, IsInjective
<1>7. IsFiniteSet(A)
  BY <1>2, <1>5, FS_Subset
<1>8. Cardinality(A) = Cardinality(B)
  <2>1. ExistsBijection(A, B)
    BY <1>6 DEF ExistsBijection
  <2>2. QED
    BY <1>7, <2>1, FS_Bijection
<1>9. QED
  BY <1>8 DEF A, B, ss, D

\* FinishWalk: the ranges are the same in another order.
LEMMA FinishWalkStep == Inv /\ FinishWalk => Inv'
<1>1. SUFFICES ASSUME Inv, FinishWalk
               PROVE  Inv'
  OBVIOUS
<1>2. /\ ranges' \in SortedByEnd(ranges) /\ walked' = TRUE /\ file' = file /\ next' = next
  BY <1>1 DEF FinishWalk
<1>3. /\ file \in Files /\ TypeOK /\ KeepsOwnLines /\ GrowsOverNeighbours
      /\ ranges \in Seq(AnyRange)
  BY <1>1 DEF Inv, TypeOK, AnyRange
<1>4. PICK p \in [DOMAIN ranges -> DOMAIN ranges] :
        /\ ranges' = [k \in DOMAIN ranges |-> ranges[p[k]]]
        /\ \A m, n \in DOMAIN ranges : p[m] = p[n] => m = n
  BY <1>2 DEF SortedByEnd
<1>5. DOMAIN ranges' = DOMAIN ranges /\ \A k \in DOMAIN ranges : p[k] \in DOMAIN ranges /\ ranges'[k] = ranges[p[k]]
  BY <1>4
<1>6. TypeOK'
  <2>1. ranges' \in Seq(AnyRange)
    <3>1. DOMAIN ranges = 1 .. Len(ranges) /\ Len(ranges) \in Nat
      BY <1>3
    <3>2. \A k \in DOMAIN ranges : ranges[p[k]] \in AnyRange
      BY <1>3, <1>5
    <3>3. ranges' \in [1 .. Len(ranges) -> AnyRange]
      BY <1>4, <3>1, <3>2
    <3>4. QED
      BY <3>1, <3>3 DEF Seq
  <2>2. ASSUME NEW g \in DOMAIN file.groups
        PROVE  Cardinality({k \in DOMAIN ranges' : ranges'[k].group = g}) = file.groups[g].nolints
    <3>1. Cardinality(PlacesOf(ranges', g)) = Cardinality(PlacesOf(ranges, g))
      BY <1>3, <1>4, Reordered
    <3>2. Cardinality(PlacesOf(ranges, g)) = file.groups[g].nolints
      BY <1>3 DEF TypeOK, PlacesOf
    <3>3. QED
      BY <3>1, <3>2 DEF PlacesOf
  <2>3. QED
    BY <1>2, <1>3, <2>1, <2>2 DEF TypeOK, AnyRange
<1>7. KeepsOwnLines'
  BY <1>2, <1>3, <1>5 DEF KeepsOwnLines
<1>8. GrowsOverNeighbours'
  BY <1>2, <1>3, <1>5 DEF GrowsOverNeighbours
<1>9. QED
  BY <1>2, <1>3, <1>6, <1>7, <1>8 DEF Inv

-----------------------------------------------------------------------------
(***************************************************************************)
(* The binary search finds the range of the comment before a node unless   *)
(* an exception of GrowsUnlessCovered has spoiled its order.  The search   *)
(* looks at the ends of the ranges, which grow; the order of the groups    *)
(* stays.  A range whose start no earlier range has grown over still       *)
(* parts the ranges into those that end before it and those that end with  *)
(* it or later.                                                            *)
(***************************************************************************)
\* The exceptions: the range shares its group, or stands inside an earlier one.
Spoiled(k) ==
  \E m \in DOMAIN ranges \ {k} :
    \/ ranges[m].group = ranges[k].group
    \/ ranges[m].group < ranges[k].group /\ ranges[k].start \in Lines(ranges[m])

GroupOf(k) == file.groups[ranges[k].group]

InOrderOfGroups ==
  /\ walked => next > Len(file.nodes)
  /\ ~walked => \A k, l \in DOMAIN ranges : k < l => ranges[k].group <= ranges[l].group

\* A range that has grown covers the node that it grew over first, and that node
\* stands right below its comment.
CoversFirst ==
  \A k \in DOMAIN ranges :
    /\ ranges[k].col = GroupOf(k).col
    /\ ranges[k].end # GroupOf(k).end =>
         \E m \in DOMAIN file.nodes :
           m < next /\ Precedes(GroupOf(k), file.nodes[m]) /\ ranges[k].end >= file.nodes[m].end

\* So far, every node that a comment precedes is covered.
CoversVisited ==
  \A k \in DOMAIN ranges :
    Spoiled(k) \/ \A m \in DOMAIN file.nodes :
                    m < next /\ Precedes(GroupOf(k), file.nodes[m]) => ranges[k].end >= file.nodes[m].end

CoverInv == Inv /\ InOrderOfGroups /\ CoversFirst /\ CoversVisited

\* The equations of the search.
IsFind(h, hi, rs, node) ==
  h = [s \in (0 .. hi) \X (0 .. hi) |->
         LET i == s[1]
             j == s[2]
             m == (i + j) \div 2
         IN  IF i >= j THEN i
             ELSE IF rs[m + 1].end + 1 >= node.start THEN h[<<i, m>>] ELSE h[<<m + 1, j>>]]

\* Of a function of two places.
LEMMA PairsMapped ==
  ASSUME NEW S, NEW F(_, _), NEW i \in S, NEW j \in S
  PROVE  [s \in S \X S |-> F(s[1], s[2])][<<i, j>>] = F(i, j)
  OBVIOUS

LEMMA PairsAlike ==
  ASSUME NEW S, NEW F(_, _), NEW G(_, _), \A i, j \in S : F(i, j) = G(i, j)
  PROVE  [s \in S \X S |-> F(s[1], s[2])] = [s \in S \X S |-> G(s[1], s[2])]
  OBVIOUS

LEMMA Halved ==
  ASSUME NEW i \in Nat, NEW j \in Nat, i < j
  PROVE  LET m == (i + j) \div 2
         IN  m \in Nat /\ i <= m /\ m < j
  OBVIOUS

\* Whatever the ends of the ranges are: the range found ends on the line before the
\* node or later, and the range before it does not.
LEMMA SearchStops ==
  ASSUME NEW rs, NEW node, Len(rs) \in Nat
  PROVE  LET k == Found(rs, node)
         IN  /\ k \in 1 .. Len(rs) + 1
             /\ k > 1 => ~(rs[k - 1].end + 1 >= node.start)
             /\ k <= Len(rs) => rs[k].end + 1 >= node.start
<1> DEFINE hi == Len(rs)
           S  == 0 .. hi
           P(m) == rs[m + 1].end + 1 >= node.start
           h  == CHOOSE h : IsFind(h, hi, rs, node)
           Step(f, i, j) == IF i >= j THEN i
                            ELSE IF P((i + j) \div 2) THEN f[<<i, (i + j) \div 2>>]
                                                      ELSE f[<<(i + j) \div 2 + 1, j>>]
           Upto(f, d) == \A i, j \in S : j - i <= d => f[<<i, j>>] = Step(f, i, j)
           E == {d \in Nat : \E f : Upto(f, d)}
           Stops(i, j, k) == /\ k \in S /\ i <= k /\ k <= j
                             /\ k > i => ~P(k - 1)
                             /\ k < j => P(k)
           T == {d \in Nat : \A i, j \in S : i <= j /\ j - i <= d => Stops(i, j, h[<<i, j>>])}
<1>1. Found(rs, node) = 1 + h[<<0, hi>>]
  BY DEF Found, Search, IsFind
<1>2. \A f : IsFind(f, hi, rs, node) <=> f = [s \in S \X S |-> Step(f, s[1], s[2])]
  BY DEF IsFind
<1>3. hi \in Nat
  OBVIOUS
<1> HIDE DEF hi, P, h
<1>5. ASSUME NEW i \in S, NEW j \in S, ~(i >= j), NEW m, m = (i + j) \div 2
      PROVE  m \in Nat /\ m \in S /\ m + 1 \in S /\ i <= m /\ m < j
  <2>1. i \in Nat /\ j \in Nat /\ i < j /\ j <= hi
    BY <1>3, <1>5
  <2>2. m \in Nat /\ i <= m /\ m < j
    BY <1>5, <2>1, Halved
  <2>3. m \in S /\ m + 1 \in S
    BY <1>3, <2>1, <2>2
  <2>4. QED
    BY <2>2, <2>3
<1>6. ASSUME NEW f
      PROVE  \A i, j \in S : [s \in S \X S |-> Step(f, s[1], s[2])][<<i, j>>] = Step(f, i, j)
  <2> HIDE DEF Step, S
  <2>1. QED
    BY PairsMapped
<1>7. 0 \in E
  <2> DEFINE f == [s \in S \X S |-> s[1]]
  <2>1. ASSUME NEW i \in S, NEW j \in S, j - i <= 0
        PROVE  f[<<i, j>>] = Step(f, i, j)
    <3>1. i >= j
      BY <1>3, <2>1
    <3>2. f[<<i, j>>] = i
      <4> HIDE DEF S
      <4>1. QED
        OBVIOUS
    <3> HIDE DEF f
    <3>2a. Step(f, i, j) = i
      BY <3>1
    <3>3. QED
      BY <3>2, <3>2a
  <2> HIDE DEF f
  <2>2. Upto(f, 0)
    BY <2>1
  <2> HIDE DEF Upto
  <2>3. QED
    BY <2>2
<1>8. ASSUME NEW d \in E
      PROVE  d + 1 \in E
  <2>1. d \in Nat /\ \E f : Upto(f, d)
    OBVIOUS
  <2>2. PICK f : \A i, j \in S : j - i <= d => f[<<i, j>>] = Step(f, i, j)
    BY <2>1
  <2> DEFINE e == [s \in S \X S |-> Step(f, s[1], s[2])]
  <2>3. \A i, j \in S : e[<<i, j>>] = Step(f, i, j)
    BY <1>6
  <2> HIDE DEF e, E
  <2>4. ASSUME NEW i \in S, NEW j \in S, j - i <= d + 1
        PROVE  e[<<i, j>>] = Step(e, i, j)
    <3>1. CASE i >= j
      <4>1. Step(f, i, j) = i /\ Step(e, i, j) = i
        BY <3>1
      <4> HIDE DEF S, Step
      <4>2. QED
        BY <2>3, <4>1
    <3>2. CASE ~(i >= j)
      <4> DEFINE m == (i + j) \div 2
      <4>1. m \in Nat /\ m \in S /\ m + 1 \in S /\ i <= m /\ m < j
        BY <1>5, <3>2
      <4>2. /\ Step(f, i, j) = IF P(m) THEN f[<<i, m>>] ELSE f[<<m + 1, j>>]
            /\ Step(e, i, j) = IF P(m) THEN e[<<i, m>>] ELSE e[<<m + 1, j>>]
        BY <3>2
      <4> HIDE DEF m
      <4>3. m - i <= d /\ j - (m + 1) <= d
        <5>1. i \in Nat /\ j \in Nat
          BY <1>3
        <5> HIDE DEF S
        <5>2. QED
          BY <2>1, <2>4, <4>1, <5>1
      <4> HIDE DEF S, Step
      <4>4. f[<<i, m>>] = e[<<i, m>>] /\ f[<<m + 1, j>>] = e[<<m + 1, j>>]
        BY <2>2, <2>3, <4>1, <4>3
      <4>5. QED
        BY <2>3, <4>2, <4>4
    <3>3. QED
      BY <3>1, <3>2
  <2>5. Upto(e, d + 1)
    BY <2>4
  <2> HIDE DEF Upto
  <2>6. d + 1 \in Nat
    BY <2>1
  <2>7. QED
    BY <2>5, <2>6 DEF E
<1>9. IsFind(h, hi, rs, node)
  <2>1. E = Nat
    <3> HIDE DEF E
    <3>1. E \subseteq Nat
      BY DEF E
    <3>2. QED
      BY <1>7, <1>8, <3>1, Induction
  <2>2. \E f : Upto(f, hi)
    <3> HIDE DEF Upto
    <3>1. QED
      BY <1>3, <2>1
  <2>3. PICK f : Upto(f, hi)
    BY <2>2
  <2> HIDE DEF E
  <2>4. \A i, j \in S : f[<<i, j>>] = Step(f, i, j)
    <3>1. \A i, j \in S : j - i <= hi
      BY <1>3
    <3> HIDE DEF S, Step
    <3>2. QED
      BY <2>3, <3>1
  <2> DEFINE e == [s \in S \X S |-> Step(f, s[1], s[2])]
  <2>5. \A i, j \in S : e[<<i, j>>] = f[<<i, j>>]
    <3> HIDE DEF e, S, Step
    <3>1. \A i, j \in S : e[<<i, j>>] = Step(f, i, j)
      BY <1>6 DEF e
    <3>2. QED
      BY <2>4, <3>1
  <2> HIDE DEF e
  <2>6. ASSUME NEW i \in S, NEW j \in S
        PROVE  Step(f, i, j) = Step(e, i, j)
    <3>1. CASE i >= j
      BY <3>1
    <3>2. CASE ~(i >= j)
      <4> DEFINE m == (i + j) \div 2
      <4>1. m \in S /\ m + 1 \in S
        BY <1>5, <3>2
      <4>2. /\ Step(f, i, j) = IF P(m) THEN f[<<i, m>>] ELSE f[<<m + 1, j>>]
            /\ Step(e, i, j) = IF P(m) THEN e[<<i, m>>] ELSE e[<<m + 1, j>>]
        BY <3>2
      <4> HIDE DEF m, S, Step
      <4>3. QED
        BY <2>5, <4>1, <4>2
    <3>3. QED
      BY <3>1, <3>2
  <2> HIDE DEF S, Step
  <2>7. e = [s \in S \X S |-> Step(e, s[1], s[2])]
    BY <2>6, PairsAlike DEF e
  <2>8. IsFind(e, hi, rs, node)
    BY <1>2, <2>7
  <2>9. QED
    BY <2>8 DEF h
<1>10. ASSUME NEW i \in S, NEW j \in S
       PROVE  h[<<i, j>>] = Step(h, i, j)
  <2> HIDE DEF Step, S
  <2>1. h = [s \in S \X S |-> Step(h, s[1], s[2])]
    BY <1>2, <1>9
  <2>2. [s \in S \X S |-> Step(h, s[1], s[2])][<<i, j>>] = Step(h, i, j)
    BY PairsMapped
  <2>3. QED
    BY <2>1, <2>2
<1> HIDE DEF E
<1>11. ASSUME NEW i \in S, NEW j \in S, i >= j, i <= j
       PROVE  Stops(i, j, h[<<i, j>>])
  <2>1. h[<<i, j>>] = i
    BY <1>10, <1>11
  <2>2. Stops(i, j, i)
    BY <1>3, <1>11
  <2> HIDE DEF Stops, S
  <2>3. QED
    BY <2>1, <2>2
<1>12. 0 \in T
  <2>1. \A i, j \in S : i <= j /\ j - i <= 0 => i >= j
    BY <1>3
  <2> HIDE DEF S, Stops
  <2>2. QED
    BY <1>11, <2>1
<1>13. ASSUME NEW d \in T
       PROVE  d + 1 \in T
  <2>1. d \in Nat /\ \A i, j \in S : i <= j /\ j - i <= d => Stops(i, j, h[<<i, j>>])
    OBVIOUS
  <2> HIDE DEF T
  <2>2. ASSUME NEW i \in S, NEW j \in S, i <= j, j - i <= d + 1
        PROVE  Stops(i, j, h[<<i, j>>])
    <3>1. CASE i >= j
      BY <1>11, <2>2, <3>1
    <3>2. CASE ~(i >= j)
      <4> DEFINE m == (i + j) \div 2
      <4>1. m \in Nat /\ m \in S /\ m + 1 \in S /\ i <= m /\ m < j
        BY <1>5, <3>2
      <4>2. h[<<i, j>>] = IF P(m) THEN h[<<i, m>>] ELSE h[<<m + 1, j>>]
        BY <1>10, <3>2
      <4> HIDE DEF m
      <4>3. i \in Nat /\ j \in Nat
        BY <1>3
      <4>4. m - i <= d /\ j - (m + 1) <= d /\ m + 1 <= j
        <5> HIDE DEF S
        <5>1. QED
          BY <2>1, <2>2, <4>1, <4>3
      <4>5. Stops(i, m, h[<<i, m>>]) /\ Stops(m + 1, j, h[<<m + 1, j>>])
        <5> HIDE DEF S, Stops
        <5>1. QED
          BY <2>1, <4>1, <4>4
      <4>6. CASE P(m)
        <5> DEFINE k == h[<<i, m>>]
        <5>1. h[<<i, j>>] = k /\ Stops(i, m, k)
          BY <4>2, <4>5, <4>6
        <5> HIDE DEF k
        <5>2. k \in Nat /\ (k < j => P(k))
          <6>1. k \in Nat /\ (k < m \/ k = m)
            BY <1>3, <4>1, <5>1
          <6>2. QED
            BY <4>6, <5>1, <6>1
        <5>3. k <= j
          BY <4>1, <4>3, <5>1, <5>2
        <5>4. Stops(i, j, k)
          BY <5>1, <5>2, <5>3
        <5>5. QED
          BY <5>1, <5>4, Zenon
      <4>7. CASE ~P(m)
        <5> DEFINE k == h[<<m + 1, j>>]
        <5>1. h[<<i, j>>] = k /\ Stops(m + 1, j, k)
          BY <4>2, <4>5, <4>7
        <5> HIDE DEF k
        <5>2. k \in Nat /\ (k > i => ~P(k - 1))
          <6>1. k \in Nat /\ (k > m + 1 \/ k - 1 = m)
            BY <1>3, <4>1, <5>1
          <6>2. QED
            BY <4>7, <5>1, <6>1
        <5>3. i <= k
          BY <4>1, <4>3, <5>1, <5>2
        <5>4. Stops(i, j, k)
          BY <5>1, <5>2, <5>3
        <5>5. QED
          BY <5>1, <5>4, Zenon
      <4>8. QED
        BY <4>6, <4>7
    <3>3. QED
      BY <3>1, <3>2
  <2> HIDE DEF S, Stops
  <2>3. QED
    BY <2>1, <2>2 DEF T
<1>14. Stops(0, hi, h[<<0, hi>>])
  <2>1. T = Nat
    <3> HIDE DEF T
    <3>1. T \subseteq Nat
      BY DEF T
    <3>2. QED
      BY <1>12, <1>13, <3>1, Induction
  <2>2. 0 \in S /\ hi \in S /\ 0 <= hi /\ hi - 0 <= hi
    BY <1>3
  <2> HIDE DEF S, Stops
  <2>3. QED
    BY <1>3, <2>1, <2>2
<1>15. QED
  <2> DEFINE k == h[<<0, hi>>]
  <2>1. Stops(0, hi, k) /\ Found(rs, node) = 1 + k
    BY <1>1, <1>14
  <2> HIDE DEF k
  <2>2. k \in Nat /\ k <= hi /\ (k > 0 => ~P(k - 1)) /\ (k < hi => P(k))
    BY <1>3, <2>1
  <2>3. k > 0 => (~P(k - 1) <=> ~(rs[(1 + k) - 1].end + 1 >= node.start))
    <3>1. (k - 1) + 1 = k /\ (1 + k) - 1 = k
      BY <2>2
    <3>2. QED
      BY <3>1 DEF P
  <2>4. P(k) <=> rs[1 + k].end + 1 >= node.start
    <3>1. k + 1 = 1 + k
      BY <2>2
    <3>2. QED
      BY <3>1 DEF P
  <2>5. 1 + k \in 1 .. hi + 1 /\ (1 + k > 1 => k > 0) /\ (1 + k <= hi => k < hi)
    BY <1>3, <2>2
  <2>6. QED
    BY <2>1, <2>2, <2>3, <2>4, <2>5 DEF hi

\* If the ranges from place k on end on the line before the node or later, and no
\* range before it does, then the binary search finds k.
LEMMA SearchFinds ==
  ASSUME NEW rs, NEW node, Len(rs) \in Nat, NEW k \in 1 .. Len(rs),
         \A j \in 1 .. Len(rs) : rs[j].end + 1 >= node.start <=> k <= j
  PROVE  Found(rs, node) = k
<1> DEFINE f == Found(rs, node)
<1>1. /\ f \in 1 .. Len(rs) + 1
      /\ f > 1 => ~(rs[f - 1].end + 1 >= node.start)
      /\ f <= Len(rs) => rs[f].end + 1 >= node.start
  BY SearchStops
<1> HIDE DEF f
<1>2. k <= f
  <2>1. CASE f <= Len(rs)
    BY <1>1, <2>1
  <2>2. CASE f > Len(rs)
    BY <2>2, <1>1
  <2>3. QED
    BY <1>1, <2>1, <2>2
<1>3. f <= k
  <2>1. CASE f > 1
    <3>1. f - 1 \in 1 .. Len(rs)
      BY <1>1, <2>1
    <3>2. ~(k <= f - 1)
      BY <1>1, <2>1, <3>1
    <3>3. QED
      BY <1>1, <3>2
  <2>2. QED
    BY <1>1, <2>1
<1>4. QED
  BY <1>1, <1>2, <1>3 DEF f

\* What CoverInv says of places and lines, as numbers.
LEMMA PlacesAndLines ==
  ASSUME Inv
  PROVE  /\ Len(file.nodes) \in Nat /\ DOMAIN file.nodes = 1 .. Len(file.nodes)
         /\ next \in 1 .. Len(file.nodes) + 1 /\ walked \in BOOLEAN
         /\ Len(ranges) \in Nat /\ DOMAIN ranges = 1 .. Len(ranges) /\ ranges \in Seq(AnyRange)
         /\ \A m \in DOMAIN file.nodes : /\ file.nodes[m] \in Node
                                         /\ file.nodes[m].start \in Nat /\ file.nodes[m].end \in Nat
         /\ \A k \in DOMAIN ranges :
              /\ ranges[k].start \in Nat /\ ranges[k].end \in Nat /\ ranges[k].group \in Nat
              /\ ranges[k].group \in DOMAIN file.groups
              /\ GroupOf(k).start \in Nat /\ GroupOf(k).end \in Nat
              /\ GroupOf(k).start <= GroupOf(k).end
              /\ ranges[k].start = GroupOf(k).start /\ ranges[k].end >= GroupOf(k).end
<1>1. file \in Files /\ TypeOK /\ KeepsOwnLines
  BY DEF Inv
<1>2. /\ Len(file.nodes) \in Nat /\ DOMAIN file.nodes = 1 .. Len(file.nodes)
      /\ \A m \in DOMAIN file.nodes : file.nodes[m] \in Node
  BY <1>1, FileTypes
<1>3. ranges \in Seq(AnyRange) /\ next \in 1 .. Len(file.nodes) + 1 /\ walked \in BOOLEAN
  BY <1>1 DEF TypeOK, AnyRange
<1>4. Len(ranges) \in Nat /\ DOMAIN ranges = 1 .. Len(ranges)
  BY <1>3
<1>5. ASSUME NEW m \in DOMAIN file.nodes
      PROVE  /\ file.nodes[m] \in Node
             /\ file.nodes[m].start \in Nat /\ file.nodes[m].end \in Nat
  BY <1>2 DEF Node
<1>6. ASSUME NEW k \in DOMAIN ranges
      PROVE  /\ ranges[k].start \in Nat /\ ranges[k].end \in Nat /\ ranges[k].group \in Nat
             /\ ranges[k].group \in DOMAIN file.groups
             /\ GroupOf(k).start \in Nat /\ GroupOf(k).end \in Nat
             /\ GroupOf(k).start <= GroupOf(k).end
             /\ ranges[k].start = GroupOf(k).start /\ ranges[k].end >= GroupOf(k).end
  <2>1. ranges[k] \in AnyRange
    BY <1>3, <1>6
  <2>2. /\ ranges[k].start \in Nat /\ ranges[k].end \in Nat
        /\ ranges[k].group \in DOMAIN file.groups
    BY <2>1 DEF AnyRange
  <2>3. DOMAIN file.groups = 1 .. Len(file.groups) /\ GroupOf(k) \in Group
        /\ GroupOf(k).start <= GroupOf(k).end
    BY <1>1, <2>2, FileTypes DEF GroupOf
  <2>4. ranges[k].group \in Nat
    BY <2>2, <2>3
  <2>5. ranges[k].start = GroupOf(k).start /\ ranges[k].end >= GroupOf(k).end
    BY <1>1 DEF KeepsOwnLines, GroupOf
  <2>6. QED
    BY <2>2, <2>3, <2>4, <2>5 DEF Group
<1>7. QED
  BY <1>2, <1>3, <1>4, <1>5, <1>6

\* Nothing is visited yet, and the ranges are in the order of the groups.
LEMMA CoverInit == Init => CoverInv
<1>1. SUFFICES ASSUME Init
               PROVE  CoverInv
  OBVIOUS
<1>2. Inv
  BY <1>1, InvInit
<1>3. /\ file \in Files /\ ranges = Extract(file) /\ next = 1 /\ walked = FALSE
  BY <1>1 DEF Init
<1>4. /\ \A k \in DOMAIN ranges : ranges[k] = RangeOf(file, ranges[k].group)
      /\ \A k, l \in DOMAIN ranges : k < l => ranges[k].group <= ranges[l].group
  BY <1>3, Extracted
<1>5. InOrderOfGroups
  BY <1>3, <1>4 DEF InOrderOfGroups
<1>6. CoversFirst
  <2>1. ASSUME NEW k \in DOMAIN ranges
        PROVE  ranges[k].col = GroupOf(k).col /\ ranges[k].end = GroupOf(k).end
    <3>1. ranges[k] = RangeOf(file, ranges[k].group)
      BY <1>4
    <3>2. QED
      BY <3>1 DEF RangeOf, GroupOf
  <2>2. QED
    BY <2>1 DEF CoversFirst
<1>7. CoversVisited
  <2>1. \A m \in DOMAIN file.nodes : ~(m < next)
    BY <1>2, <1>3, PlacesAndLines
  <2>2. QED
    BY <2>1 DEF CoversVisited
<1>8. QED
  BY <1>2, <1>5, <1>6, <1>7 DEF CoverInv

\* A range that nothing has spoiled parts the ranges at the line it ends on, while it
\* has not grown: those before it end before it, since they do not reach its start.
LEMMA PartsTheRanges ==
  ASSUME CoverInv, ~walked, NEW k \in DOMAIN ranges, ~Spoiled(k),
         ranges[k].end = GroupOf(k).end, NEW j \in DOMAIN ranges
  PROVE  ranges[j].end >= ranges[k].end <=> k <= j
<1>1. /\ Inv
      /\ \A i, l \in DOMAIN ranges : i < l => ranges[i].group <= ranges[l].group
  BY DEF CoverInv, InOrderOfGroups
<1>2. /\ k \in Nat /\ j \in Nat
      /\ ranges[j].start \in Nat /\ ranges[j].end \in Nat /\ ranges[j].group \in Nat
      /\ ranges[k].start \in Nat /\ ranges[k].end \in Nat /\ ranges[k].group \in Nat
      /\ GroupOf(j).start \in Nat /\ GroupOf(j).end \in Nat /\ GroupOf(k).start \in Nat
      /\ GroupOf(j).start <= GroupOf(j).end /\ GroupOf(k).start <= GroupOf(k).end
      /\ ranges[k].start = GroupOf(k).start
      /\ ranges[j].start = GroupOf(j).start /\ ranges[j].end >= GroupOf(j).end
  BY <1>1, PlacesAndLines
<1>3. \A g, h \in DOMAIN file.groups : g < h => file.groups[g].end <= file.groups[h].start
  BY <1>1, FilesAssumption DEF Inv
<1>4. ranges[j].group \in DOMAIN file.groups /\ ranges[k].group \in DOMAIN file.groups
  BY <1>1, PlacesAndLines
<1>5. CASE j = k
  BY <1>2, <1>5
<1>6. CASE j < k
  <2>1. ranges[j].group <= ranges[k].group
    BY <1>1, <1>6
  <2>2. ranges[j].group # ranges[k].group /\ ~(ranges[j].group < ranges[k].group
                                                /\ ranges[k].start \in Lines(ranges[j]))
    BY <1>2, <1>6 DEF Spoiled
  <2>3. ranges[j].group < ranges[k].group
    BY <1>2, <2>1, <2>2
  <2>4. GroupOf(j).end <= GroupOf(k).start
    BY <1>3, <1>4, <2>3 DEF GroupOf
  <2>5. ranges[j].start <= ranges[k].start
    BY <1>2, <2>4
  <2>6. ~(ranges[k].start <= ranges[j].end)
    BY <1>2, <2>2, <2>3, <2>5 DEF Lines
  <2>7. QED
    BY <1>2, <1>6, <2>6
<1>7. CASE k < j
  <2>1. ranges[k].group <= ranges[j].group
    BY <1>1, <1>7
  <2>2. ranges[j].group # ranges[k].group
    BY <1>2, <1>7 DEF Spoiled
  <2>3. ranges[k].group < ranges[j].group
    BY <1>2, <2>1, <2>2
  <2>4. GroupOf(k).end <= GroupOf(j).start
    BY <1>3, <1>4, <2>3 DEF GroupOf
  <2>5. ranges[k].end <= ranges[j].end
    BY <1>2, <2>4
  <2>6. QED
    BY <1>2, <1>7, <2>5
<1>8. QED
  BY <1>2, <1>5, <1>6, <1>7

\* Such a range is the one that the search finds for the node it precedes.
LEMMA FindsUnspoiled ==
  ASSUME CoverInv, ~walked, NEW k \in DOMAIN ranges, ~Spoiled(k),
         ranges[k].end = GroupOf(k).end, NEW n \in DOMAIN file.nodes,
         Precedes(GroupOf(k), file.nodes[n])
  PROVE  Visited(ranges, file.nodes[n])[k].end >= file.nodes[n].end
<1> DEFINE node == file.nodes[n]
<1>1. /\ Inv /\ ranges[k].col = GroupOf(k).col
  BY DEF CoverInv, CoversFirst
<1>2. /\ Len(ranges) \in Nat /\ DOMAIN ranges = 1 .. Len(ranges)
      /\ node \in Node /\ node.start \in Nat /\ node.end \in Nat
      /\ ranges[k] \in AnyRange /\ ranges[k].end \in Nat
      /\ \A j \in DOMAIN ranges : ranges[j].end \in Nat
  <2>1. ranges \in Seq(AnyRange) /\ DOMAIN ranges = 1 .. Len(ranges)
    BY <1>1, PlacesAndLines
  <2>2. ranges[k] \in AnyRange
    BY <2>1
  <2>3. QED
    BY <1>1, <2>2, PlacesAndLines
<1>3. node.col = ranges[k].col /\ node.start = ranges[k].end + 1
  BY <1>1 DEF Precedes
<1> HIDE DEF node
<1>4. ASSUME NEW j \in 1 .. Len(ranges)
      PROVE  ranges[j].end + 1 >= node.start <=> k <= j
  <2>1. ranges[j].end >= ranges[k].end <=> k <= j
    BY <1>2, PartsTheRanges
  <2>2. ranges[j].end \in Nat
    BY <1>2
  <2>3. QED
    BY <1>2, <1>3, <2>1, <2>2
<1>5. Found(ranges, node) = k
  BY <1>2, <1>4, SearchFinds
<1>6. k <= Len(ranges) /\ Near(ranges[k], node)
  BY <1>2, <1>3 DEF Near
<1>7. Visited(ranges, node) = [ranges EXCEPT ![k] = Grown(@, node)]
  BY <1>5, <1>6 DEF Visited
<1>8. Visited(ranges, node)[k] = Grown(ranges[k], node)
  BY <1>7
<1>9. Grown(ranges[k], node).end >= node.end
  <2>1. Grown(ranges[k], node).end = IF ranges[k].end < node.end THEN node.end ELSE ranges[k].end
    BY <1>2 DEF Grown, AnyRange
  <2>2. QED
    BY <1>2, <2>1
<1>10. QED
  BY <1>8, <1>9 DEF node

\* What Visit does, as numbers: the range it finds may come to end with the node.
LEMMA VisitGrows ==
  ASSUME Inv, InOrderOfGroups, Visit, NEW node, node = file.nodes[next]
  PROVE  /\ ~walked /\ ~walked' /\ file' = file /\ ranges' = Visited(ranges, node)
         /\ next \in DOMAIN file.nodes /\ next \in Nat /\ next' = next + 1
         /\ node \in Node /\ node.start \in Nat /\ node.end \in Nat /\ node.start <= node.end
         /\ DOMAIN ranges' = DOMAIN ranges
         /\ \A k \in DOMAIN ranges :
              /\ ranges'[k].start = ranges[k].start /\ ranges'[k].group = ranges[k].group
              /\ ranges'[k].col = ranges[k].col
              /\ GroupOf(k)' = GroupOf(k)
              /\ ranges'[k].end \in Nat /\ ranges[k].end \in Nat /\ ranges'[k].end >= ranges[k].end
              /\ ranges'[k].end # ranges[k].end =>
                   /\ k = Found(ranges, node) /\ Near(ranges[k], node)
                   /\ ranges'[k].end = node.end
<1>1. /\ next <= Len(file.nodes) /\ ranges' = Visited(ranges, node)
      /\ next' = next + 1 /\ file' = file /\ walked' = walked
  BY DEF Visit
<1>2. /\ next \in Nat /\ next \in DOMAIN file.nodes
      /\ node \in Node /\ node.start \in Nat /\ node.end \in Nat /\ node.start <= node.end
      /\ ranges \in Seq(AnyRange) /\ Len(ranges) \in Nat /\ DOMAIN ranges = 1 .. Len(ranges)
  <2>1. /\ next \in 1 .. Len(file.nodes) + 1 /\ Len(file.nodes) \in Nat
        /\ DOMAIN file.nodes = 1 .. Len(file.nodes)
        /\ ranges \in Seq(AnyRange) /\ Len(ranges) \in Nat /\ DOMAIN ranges = 1 .. Len(ranges)
    BY PlacesAndLines
  <2>2. next \in Nat /\ next \in DOMAIN file.nodes
    BY <1>1, <2>1
  <2>3. node \in Node /\ node.start \in Nat /\ node.end \in Nat
    BY <2>2, PlacesAndLines
  <2>4. node.start <= node.end
    BY <2>2, FilesAssumption DEF Inv
  <2>5. QED
    BY <2>1, <2>2, <2>3, <2>4
<1>3. ~walked
  <2>1. walked \in BOOLEAN /\ Len(file.nodes) \in Nat
    BY PlacesAndLines
  <2>2. QED
    BY <1>1, <1>2, <2>1 DEF InOrderOfGroups
<1>4. /\ DOMAIN ranges' = DOMAIN ranges
      /\ \A k \in DOMAIN ranges :
           \/ ranges'[k] = ranges[k]
           \/ Near(ranges[k], node) /\ ranges'[k] = Grown(ranges[k], node)
  BY <1>1, <1>2, VisitedRanges
<1>5. ASSUME NEW k \in DOMAIN ranges, k # Found(ranges, node)
      PROVE  ranges'[k] = ranges[k]
  <2> DEFINE f == Found(ranges, node)
  <2>1. Visited(ranges, node) = ranges \/ Visited(ranges, node) = [ranges EXCEPT ![f] = Grown(@, node)]
    BY DEF Visited
  <2> HIDE DEF f
  <2>2. k # f
    BY <1>5 DEF f
  <2>3. QED
    BY <1>1, <2>1, <2>2
<1>6. ASSUME NEW k \in DOMAIN ranges
      PROVE  /\ ranges'[k].start = ranges[k].start /\ ranges'[k].group = ranges[k].group
             /\ ranges'[k].col = ranges[k].col
             /\ ranges'[k].end \in Nat /\ ranges[k].end \in Nat /\ ranges'[k].end >= ranges[k].end
             /\ \/ ranges'[k].end = ranges[k].end
                \/ Near(ranges[k], node) /\ ranges'[k].end = node.end
  <2>1. ranges[k] \in AnyRange /\ ranges[k].end \in Nat /\ ranges[k].start <= ranges[k].end
    <3>1. ranges[k] \in AnyRange
      BY <1>2
    <3>2. ranges[k].start = GroupOf(k).start /\ ranges[k].end >= GroupOf(k).end
          /\ GroupOf(k).start <= GroupOf(k).end /\ GroupOf(k).start \in Nat /\ GroupOf(k).end \in Nat
          /\ ranges[k].end \in Nat
      BY PlacesAndLines
    <3>3. QED
      BY <3>1, <3>2
  <2>2. CASE ranges'[k] = ranges[k]
    BY <2>1, <2>2
  <2>3. CASE Near(ranges[k], node) /\ ranges'[k] = Grown(ranges[k], node)
    <3>1. /\ ranges'[k] \in AnyRange /\ ranges'[k].start = ranges[k].start
          /\ ranges'[k].group = ranges[k].group /\ ranges'[k].col = ranges[k].col
          /\ ranges'[k].end >= ranges[k].end
          /\ ranges'[k].end \in {ranges[k].end, node.end}
      BY <1>2, <2>1, <2>3, GrownRange
    <3>2. ranges'[k].end \in Nat
      BY <3>1 DEF AnyRange
    <3>3. QED
      BY <2>1, <2>3, <3>1, <3>2
  <2>4. QED
    BY <1>4, <2>2, <2>3
<1>7. ASSUME NEW k \in DOMAIN ranges
      PROVE  GroupOf(k)' = GroupOf(k)
  BY <1>1, <1>6 DEF GroupOf
<1>8. ~walked'
  BY <1>1, <1>3
<1>9. QED
  BY <1>1, <1>2, <1>3, <1>4, <1>5, <1>6, <1>7, <1>8

\* Visit: if the range has not grown, the search finds it; if it has, it covers the
\* first node that it precedes, and so those inside it that start at its place.
LEMMA CoverVisit == CoverInv /\ Visit => CoverInv'
<1>1. SUFFICES ASSUME CoverInv, Visit
               PROVE  CoverInv'
  OBVIOUS
<1> DEFINE node == file.nodes[next]
<1>2. Inv /\ InOrderOfGroups /\ CoversFirst /\ CoversVisited
  BY <1>1 DEF CoverInv
<1>3. Inv'
  BY <1>1, <1>2, VisitStep
<1>4. /\ ~walked /\ ~walked' /\ file' = file /\ ranges' = Visited(ranges, node)
      /\ next \in DOMAIN file.nodes /\ next \in Nat /\ next' = next + 1
      /\ node \in Node /\ node.start \in Nat /\ node.end \in Nat
      /\ DOMAIN ranges' = DOMAIN ranges
      /\ \A k \in DOMAIN ranges :
           /\ ranges'[k].start = ranges[k].start /\ ranges'[k].group = ranges[k].group
           /\ ranges'[k].col = ranges[k].col
           /\ GroupOf(k)' = GroupOf(k)
           /\ ranges'[k].end \in Nat /\ ranges[k].end \in Nat /\ ranges'[k].end >= ranges[k].end
           /\ ranges'[k].end # ranges[k].end =>
                Near(ranges[k], node) /\ ranges'[k].end = node.end
  BY <1>1, <1>2, VisitGrows
<1> HIDE DEF node
<1>5. InOrderOfGroups'
  <2>1. \A k, l \in DOMAIN ranges : k < l => ranges[k].group <= ranges[l].group
    BY <1>2, <1>4 DEF InOrderOfGroups
  <2>2. \A k, l \in DOMAIN ranges' : k < l => ranges'[k].group <= ranges'[l].group
    BY <1>4, <2>1
  <2>3. QED
    BY <1>4, <2>2 DEF InOrderOfGroups
<1>6. CoversFirst'
  <2>1. ASSUME NEW k \in DOMAIN ranges
        PROVE  /\ ranges'[k].col = GroupOf(k).col
               /\ ranges'[k].end # GroupOf(k).end =>
                    \E m \in DOMAIN file.nodes :
                      /\ m < next + 1 /\ Precedes(GroupOf(k), file.nodes[m])
                      /\ ranges'[k].end >= file.nodes[m].end
    <3>1. /\ ranges[k].col = GroupOf(k).col
          /\ ranges[k].end # GroupOf(k).end =>
               \E m \in DOMAIN file.nodes :
                 /\ m < next /\ Precedes(GroupOf(k), file.nodes[m])
                 /\ ranges[k].end >= file.nodes[m].end
      BY <1>2 DEF CoversFirst
    <3>2. CASE ranges[k].end # GroupOf(k).end
      <4>1. PICK m \in DOMAIN file.nodes :
              /\ m < next /\ Precedes(GroupOf(k), file.nodes[m])
              /\ ranges[k].end >= file.nodes[m].end
        BY <3>1, <3>2
      <4>2. file.nodes[m].end \in Nat /\ m \in Nat
        BY <1>2, <1>4, PlacesAndLines
      <4>3. m < next + 1 /\ ranges'[k].end >= file.nodes[m].end
        BY <1>4, <4>1, <4>2
      <4>4. QED
        BY <1>4, <3>1, <4>1, <4>3
    <3>3. CASE ranges[k].end = GroupOf(k).end /\ ranges'[k].end # ranges[k].end
      <4>1. Near(ranges[k], node) /\ ranges'[k].end = node.end
        BY <1>4, <3>3
      <4>2. Precedes(GroupOf(k), node)
        BY <1>4, <3>1, <3>3, <4>1 DEF Near, Precedes
      <4>3. next < next + 1 /\ ranges'[k].end >= node.end
        BY <1>4, <4>1
      <4>4. QED
        BY <1>4, <3>1, <4>2, <4>3 DEF node
    <3>4. CASE ranges[k].end = GroupOf(k).end /\ ranges'[k].end = ranges[k].end
      BY <1>4, <3>1, <3>4
    <3>5. QED
      BY <3>2, <3>3, <3>4
  <2>2. QED
    BY <1>4, <2>1 DEF CoversFirst
<1>7. CoversVisited'
  <2>1. ASSUME NEW k \in DOMAIN ranges, ~Spoiled(k)', NEW m \in DOMAIN file.nodes,
               m < next + 1, Precedes(GroupOf(k), file.nodes[m])
        PROVE  ranges'[k].end >= file.nodes[m].end
    <3>1. ~Spoiled(k)
      <4>1. \A l \in DOMAIN ranges : ranges[k].start \in Lines(ranges[l])
                                       => ranges'[k].start \in Lines(ranges'[l])
        <5>1. ASSUME NEW l \in DOMAIN ranges, ranges[k].start \in Lines(ranges[l])
              PROVE  ranges'[k].start \in Lines(ranges'[l])
          <6>1. ranges[l].start \in Nat /\ ranges[k].start \in Nat
            BY <1>2, PlacesAndLines
          <6>2. QED
            BY <1>4, <5>1, <6>1 DEF Lines
        <5>2. QED
          BY <5>1
      <4>2. \A l \in DOMAIN ranges : ranges'[l].group = ranges[l].group
        BY <1>4
      <4>3. QED
        BY <1>4, <2>1, <4>1, <4>2 DEF Spoiled
    <3>2. m \in Nat /\ file.nodes[m].end \in Nat
      BY <1>2, <1>4, PlacesAndLines
    <3>3. CASE m < next
      <4>1. ranges[k].end >= file.nodes[m].end
        BY <1>2, <2>1, <3>1, <3>3 DEF CoversVisited
      <4>2. QED
        BY <1>4, <3>2, <4>1
    <3>4. CASE m = next /\ ranges[k].end = GroupOf(k).end
      <4>1. Visited(ranges, file.nodes[m])[k].end >= file.nodes[m].end
        BY <1>1, <1>4, <2>1, <3>1, <3>4, FindsUnspoiled
      <4>2. QED
        BY <1>4, <3>4, <4>1 DEF node
    <3>5. CASE m = next /\ ranges[k].end # GroupOf(k).end
      <4>1. PICK l \in DOMAIN file.nodes :
              /\ l < next /\ Precedes(GroupOf(k), file.nodes[l])
              /\ ranges[k].end >= file.nodes[l].end
        BY <1>2, <3>5 DEF CoversFirst
      <4>2. file.nodes[l].col = file.nodes[m].col /\ file.nodes[l].start = file.nodes[m].start /\ l < m
        BY <2>1, <3>5, <4>1 DEF Precedes
      <4>3. file.nodes[m].end <= file.nodes[l].end
        BY <1>2, <4>2, FilesAssumption DEF Inv
      <4>4. file.nodes[l].end \in Nat
        BY <1>2, PlacesAndLines
      <4>5. QED
        BY <1>4, <3>2, <4>1, <4>3, <4>4
    <3>6. m < next \/ m = next
      BY <1>4, <2>1, <3>2
    <3>7. QED
      BY <3>3, <3>4, <3>5, <3>6
  <2>2. QED
    BY <1>4, <2>1 DEF CoversVisited
<1>8. QED
  BY <1>3, <1>5, <1>6, <1>7 DEF CoverInv

\* Sorting puts every range somewhere.
LEMMA AllPlaced ==
  ASSUME Inv, NEW p \in [DOMAIN ranges -> DOMAIN ranges],
         \A m, n \in DOMAIN ranges : p[m] = p[n] => m = n
  PROVE  \A l \in DOMAIN ranges : \E k \in DOMAIN ranges : p[k] = l
<1> DEFINE D == DOMAIN ranges
<1>1. IsFiniteSet(D)
  BY PlacesAndLines, FS_Interval
<1>2. p \in Injection(D, D)
  BY DEF Injection, IsInjective
<1>3. p \in Surjection(D, D)
  BY <1>1, <1>2, FS_Injection
<1>4. QED
  BY <1>3 DEF Surjection

\* FinishWalk: what is said of every range is said of it wherever it is put.
LEMMA CoverFinish == CoverInv /\ FinishWalk => CoverInv'
<1>1. SUFFICES ASSUME CoverInv, FinishWalk
               PROVE  CoverInv'
  OBVIOUS
<1>2. /\ ranges' \in SortedByEnd(ranges) /\ walked' = TRUE /\ file' = file /\ next' = next
      /\ next > Len(file.nodes)
  BY <1>1 DEF FinishWalk
<1>3. Inv /\ InOrderOfGroups /\ CoversFirst /\ CoversVisited
  BY <1>1 DEF CoverInv
<1>4. Inv'
  BY <1>1, <1>3, FinishWalkStep
<1>5. PICK p \in [DOMAIN ranges -> DOMAIN ranges] :
        /\ ranges' = [k \in DOMAIN ranges |-> ranges[p[k]]]
        /\ \A m, n \in DOMAIN ranges : p[m] = p[n] => m = n
  BY <1>2 DEF SortedByEnd
<1>6. DOMAIN ranges' = DOMAIN ranges /\ \A k \in DOMAIN ranges : p[k] \in DOMAIN ranges /\ ranges'[k] = ranges[p[k]]
  BY <1>5
<1>7. \A l \in DOMAIN ranges : \E k \in DOMAIN ranges : p[k] = l
  BY <1>3, <1>5, AllPlaced
<1>8. ASSUME NEW k \in DOMAIN ranges
      PROVE  GroupOf(k)' = GroupOf(p[k])
  BY <1>2, <1>6 DEF GroupOf
<1>9. ASSUME NEW k \in DOMAIN ranges, Spoiled(p[k])
      PROVE  Spoiled(k)'
  <2>1. PICK m \in DOMAIN ranges \ {p[k]} :
          \/ ranges[m].group = ranges[p[k]].group
          \/ ranges[m].group < ranges[p[k]].group /\ ranges[p[k]].start \in Lines(ranges[m])
    BY <1>9 DEF Spoiled
  <2>2. PICK l \in DOMAIN ranges : p[l] = m
    BY <1>7
  <2>3. l \in DOMAIN ranges' \ {k} /\ ranges'[l] = ranges[m] /\ ranges'[k] = ranges[p[k]]
    BY <1>6, <2>1, <2>2
  <2>4. QED
    BY <2>1, <2>3 DEF Spoiled
<1>10. InOrderOfGroups'
  BY <1>2 DEF InOrderOfGroups
<1>11. CoversFirst'
  <2>1. \A k \in DOMAIN ranges : p[k] \in DOMAIN ranges /\ ranges'[k] = ranges[p[k]]
    BY <1>6
  <2>2. QED
    BY <1>2, <1>3, <1>6, <1>8, <2>1 DEF CoversFirst
<1>12. CoversVisited'
  BY <1>2, <1>3, <1>6, <1>8, <1>9 DEF CoversVisited
<1>13. QED
  BY <1>4, <1>10, <1>11, <1>12 DEF CoverInv

LEMMA CoverStutter == CoverInv /\ UNCHANGED vars => CoverInv'
<1>1. SUFFICES ASSUME CoverInv, UNCHANGED vars
               PROVE  CoverInv'
  OBVIOUS
<1>2. file' = file /\ ranges' = ranges /\ next' = next /\ walked' = walked
  BY <1>1 DEF vars
<1>3. Inv'
  BY <1>1, <1>2 DEF CoverInv, Inv, TypeOK, KeepsOwnLines, GrowsOverNeighbours
<1>4. InOrderOfGroups'
  BY <1>1, <1>2 DEF CoverInv, InOrderOfGroups
<1>5. CoversFirst'
  BY <1>1, <1>2 DEF CoverInv, CoversFirst, GroupOf
<1>6. CoversVisited'
  BY <1>1, <1>2 DEF CoverInv, CoversVisited, Spoiled, GroupOf
<1>7. QED
  BY <1>3, <1>4, <1>5, <1>6 DEF CoverInv

-----------------------------------------------------------------------------
(***************************************************************************)
(* Which ranges cross.  The walk visits nodes from the first line down, so *)
(* that a range that grows over a node sticks into a later one only if     *)
(* that one's comment does, has become a node, or has grown before its     *)
(* turn, behind a range that ends earlier than both.                       *)
(***************************************************************************)
\* A range that has grown ends with a node visited that starts below its comment.
GrownLast ==
  \A k \in DOMAIN ranges :
    ranges[k].end # GroupOf(k).end =>
      \E m \in DOMAIN file.nodes :
        /\ m < next /\ file.nodes[m].end = ranges[k].end
        /\ file.nodes[m].start > GroupOf(k).end

\* The range at i begins above the one at k and ends inside it.
Crosses(i, k) ==
  /\ ranges[i].start < ranges[k].start
  /\ ranges[k].start <= ranges[i].end
  /\ ranges[i].end < ranges[k].end

Between(i, k) == \E x \in DOMAIN ranges : i < x /\ x < k /\ ranges[x].end < ranges[i].end

CrossesRightly ==
  ~walked => \A i, k \in DOMAIN ranges :
    i < k /\ Crosses(i, k) => \/ IsDoc(file, ranges[k].group)
                              \/ SticksOut(file, ranges[k].group)
                              \/ Between(i, k)

CrossInv == CoverInv /\ GrownLast /\ CrossesRightly /\ InnermostFirst

\* What is extracted crosses only where comments do.
LEMMA CrossInit == Init => CrossInv
<1>1. SUFFICES ASSUME Init
               PROVE  CrossInv
  OBVIOUS
<1>2. CoverInv /\ Inv /\ ~walked
  BY <1>1, CoverInit DEF CoverInv, Init
<1>3. ASSUME NEW k \in DOMAIN ranges
      PROVE  ranges[k].start = GroupOf(k).start /\ ranges[k].end = GroupOf(k).end
  <2>1. file \in Files /\ ranges = Extract(file)
    BY <1>1 DEF Init
  <2>2. ranges[k] = RangeOf(file, ranges[k].group)
    BY <2>1, Extracted
  <2>3. QED
    BY <2>2 DEF RangeOf, GroupOf
<1>4. GrownLast
  BY <1>3 DEF GrownLast
<1>5. CrossesRightly
  <2>1. ASSUME NEW i \in DOMAIN ranges, NEW k \in DOMAIN ranges, Crosses(i, k)
        PROVE  SticksOut(file, ranges[k].group)
    <3>1. /\ GroupOf(i).start < GroupOf(k).start /\ GroupOf(k).start <= GroupOf(i).end
          /\ GroupOf(i).end < GroupOf(k).end
      BY <1>3, <2>1 DEF Crosses
    <3>2. /\ GroupOf(i).start \in Nat /\ GroupOf(k).start \in Nat
          /\ ranges[i].group \in DOMAIN file.groups
      BY <1>2, PlacesAndLines
    <3>3. ranges[i].group # ranges[k].group /\ GroupOf(i).start <= GroupOf(k).start
      BY <3>1, <3>2 DEF GroupOf
    <3>4. QED
      BY <3>1, <3>2, <3>3 DEF SticksOut, Overlaps, GroupOf
  <2>2. QED
    BY <2>1 DEF CrossesRightly
<1>6. InnermostFirst
  BY <1>2 DEF InnermostFirst
<1>7. QED
  BY <1>2, <1>4, <1>5, <1>6 DEF CrossInv

\* A node that ends inside a range which starts on one of its lines shows the
\* exception: the range's comment sticks out of it, or is a node.
LEMMA NodeCrosses ==
  ASSUME CoverInv, GrownLast, NEW n \in DOMAIN file.nodes, n >= next, NEW k \in DOMAIN ranges,
         file.nodes[n].start <= ranges[k].start, ranges[k].start <= file.nodes[n].end,
         file.nodes[n].end < ranges[k].end
  PROVE  IsDoc(file, ranges[k].group) \/ SticksOut(file, ranges[k].group)
<1>1. /\ file \in Files /\ next \in Nat /\ n \in Nat
      /\ file.nodes[n].start \in Nat /\ file.nodes[n].end \in Nat
      /\ \A m \in DOMAIN file.nodes :
           m \in Nat /\ file.nodes[m].start \in Nat /\ file.nodes[m].end \in Nat
      /\ ranges[k].start \in Nat /\ ranges[k].end \in Nat
      /\ GroupOf(k).start \in Nat /\ GroupOf(k).end \in Nat
      /\ GroupOf(k).start <= GroupOf(k).end
      /\ ranges[k].start = GroupOf(k).start /\ ranges[k].group \in DOMAIN file.groups
  <2>1. Inv /\ file \in Files
    BY DEF CoverInv, Inv
  <2>2. QED
    BY <2>1, PlacesAndLines
<1>2. CASE ranges[k].end = GroupOf(k).end
  <2>1. Overlaps(file.nodes[n], GroupOf(k))
    BY <1>1, <1>2 DEF Overlaps
  <2>2. QED
    BY <2>1 DEF SticksOut, GroupOf
<1>3. CASE ranges[k].end # GroupOf(k).end
  <2>1. PICK m \in DOMAIN file.nodes :
          /\ m < next /\ file.nodes[m].end = ranges[k].end
          /\ file.nodes[m].start > GroupOf(k).end
    BY <1>3 DEF GrownLast
  <2>2. m < n /\ file.nodes[n].start < file.nodes[m].start
    BY <1>1, <2>1
  <2>3. ~(file.nodes[m].end <= file.nodes[n].end)
    BY <1>1, <2>1
  <2>4. \A g \in DOMAIN file.groups :
          file.groups[g].start \in file.nodes[n].start .. file.nodes[n].end => IsDoc(file, g)
    BY <1>1, <2>2, <2>3, FilesAssumption
  <2>5. file.groups[ranges[k].group].start \in file.nodes[n].start .. file.nodes[n].end
    BY <1>1 DEF GroupOf
  <2>6. QED
    BY <1>1, <2>4, <2>5
<1>4. QED
  BY <1>2, <1>3

\* Visit: one range at most has another end, that of the node.
LEMMA CrossVisit == CrossInv /\ Visit => CrossInv'
<1>1. SUFFICES ASSUME CrossInv, Visit
               PROVE  CrossInv'
  OBVIOUS
<1> DEFINE node == file.nodes[next]
           f == Found(ranges, node)
<1>2. /\ CoverInv /\ Inv /\ InOrderOfGroups
      /\ GrownLast /\ CrossesRightly /\ InnermostFirst
  BY <1>1 DEF CrossInv, CoverInv
<1>3. CoverInv'
  BY <1>1, <1>2, CoverVisit
<1>4. /\ ~walked /\ ~walked' /\ file' = file
      /\ next \in DOMAIN file.nodes /\ next \in Nat /\ next' = next + 1
      /\ node.start \in Nat /\ node.end \in Nat /\ node.start <= node.end
      /\ DOMAIN ranges' = DOMAIN ranges
      /\ \A k \in DOMAIN ranges :
           /\ ranges'[k].start = ranges[k].start /\ ranges'[k].group = ranges[k].group
           /\ GroupOf(k)' = GroupOf(k)
           /\ ranges'[k].end \in Nat /\ ranges[k].end \in Nat
           /\ ranges'[k].end # ranges[k].end =>
                k = f /\ Near(ranges[k], node) /\ ranges'[k].end = node.end
  BY <1>1, <1>2, VisitGrows
<1>5. \A k \in DOMAIN ranges : k = f /\ f > 1 => /\ f - 1 \in DOMAIN ranges
                                                 /\ ~(ranges[f - 1].end + 1 >= node.start)
  <2>1. Len(ranges) \in Nat /\ DOMAIN ranges = 1 .. Len(ranges)
    BY <1>2, PlacesAndLines
  <2>2. f > 1 => ~(ranges[f - 1].end + 1 >= node.start)
    BY <2>1, SearchStops
  <2> HIDE DEF f, node
  <2>3. QED
    BY <2>1, <2>2
<1>6. /\ \A k \in DOMAIN ranges : k \in Nat /\ k >= 1
      /\ \A k \in DOMAIN ranges : ranges[k].start \in Nat /\ GroupOf(k).end \in Nat
                                  /\ ranges[k].end >= GroupOf(k).end
      /\ \A m \in DOMAIN file.nodes : m \in Nat
  BY <1>2, PlacesAndLines
<1> HIDE DEF f
<1>7. GrownLast'
  <2>1. ASSUME NEW k \in DOMAIN ranges, ranges'[k].end # GroupOf(k).end
        PROVE  \E m \in DOMAIN file.nodes :
                 /\ m < next + 1 /\ file.nodes[m].end = ranges'[k].end
                 /\ file.nodes[m].start > GroupOf(k).end
    <3>1. CASE ranges'[k].end = ranges[k].end
      <4>1. PICK m \in DOMAIN file.nodes :
              /\ m < next /\ file.nodes[m].end = ranges[k].end
              /\ file.nodes[m].start > GroupOf(k).end
        BY <1>2, <2>1, <3>1 DEF GrownLast
      <4>2. m < next + 1
        BY <1>4, <1>6, <4>1
      <4>3. QED
        BY <3>1, <4>1, <4>2
    <3>2. CASE ranges'[k].end # ranges[k].end
      <4>1. ranges[k].end = node.start - 1 /\ ranges'[k].end = node.end
        BY <1>4, <3>2 DEF Near
      <4>2. node.start > GroupOf(k).end /\ next < next + 1
        BY <1>4, <1>6, <4>1
      <4>3. QED
        BY <1>4, <4>1, <4>2
    <3>3. QED
      BY <3>1, <3>2
  <2> HIDE DEF node
  <2>2. QED
    BY <1>4, <2>1 DEF GrownLast
<1>8. CrossesRightly'
  <2>1. ASSUME NEW i \in DOMAIN ranges, NEW k \in DOMAIN ranges, i < k,
               ranges[i].start < ranges[k].start, ranges[k].start <= ranges'[i].end,
               ranges'[i].end < ranges'[k].end,
               ~IsDoc(file, ranges[k].group), ~SticksOut(file, ranges[k].group)
        PROVE  \E x \in DOMAIN ranges : i < x /\ x < k /\ ranges'[x].end < ranges'[i].end
    <3>1. ~Crosses(i, k) \/ Between(i, k)
      BY <1>2, <1>4, <2>1 DEF CrossesRightly
    <3>2. /\ i \in Nat /\ k \in Nat /\ ranges[i].start \in Nat /\ ranges[k].start \in Nat
          /\ ranges[i].end \in Nat /\ ranges[k].end \in Nat
      BY <1>4, <1>6
    <3>3. CASE ranges'[i].end # ranges[i].end
      <4>1. /\ i = f /\ ranges[i].end = node.start - 1 /\ ranges'[i].end = node.end
            /\ ranges'[k].end = ranges[k].end
        BY <1>4, <2>1, <3>2, <3>3 DEF Near
      <4>2. ~(node.start <= ranges[k].start)
        BY <1>2, <1>4, <2>1, <4>1, <3>2, NodeCrosses
      <4>3. Crosses(i, k)
        BY <1>4, <2>1, <3>2, <4>1, <4>2 DEF Crosses
      <4>4. PICK x \in DOMAIN ranges : i < x /\ x < k /\ ranges[x].end < ranges[i].end
        BY <3>1, <4>3 DEF Between
      <4>5. x # f /\ ranges'[x].end = ranges[x].end /\ ranges[x].end \in Nat
        BY <1>4, <3>2, <4>1, <4>4
      <4>6. QED
        BY <1>4, <3>2, <4>1, <4>4, <4>5
    <3>4. CASE ranges'[i].end = ranges[i].end /\ ranges'[k].end # ranges[k].end
      <4>1. k = f /\ ranges[k].end = node.start - 1
        BY <1>4, <3>4 DEF Near
      <4>2. CASE ranges[i].end < ranges[k].end
        <5>1. Crosses(i, k)
          BY <2>1, <3>4, <4>2 DEF Crosses
        <5>2. PICK x \in DOMAIN ranges : i < x /\ x < k /\ ranges[x].end < ranges[i].end
          BY <3>1, <5>1 DEF Between
        <5>3. x \in Nat /\ x # f
          BY <1>6, <3>2, <4>1, <5>2
        <5>4. ranges'[x].end = ranges[x].end
          BY <1>4, <5>3
        <5>5. QED
          BY <3>4, <5>2, <5>4
      <4>3. CASE ~(ranges[i].end < ranges[k].end)
        <5>0. f \in Nat /\ f > 1
          BY <1>6, <2>1, <3>2, <4>1
        <5>1. f - 1 \in DOMAIN ranges /\ ~(ranges[f - 1].end + 1 >= node.start)
          BY <1>5, <4>1, <5>0
        <5>2. ranges[f - 1].end \in Nat /\ ranges'[f - 1].end = ranges[f - 1].end
          BY <1>4, <5>0, <5>1
        <5>3. ranges[f - 1].end < ranges[i].end
          BY <1>4, <3>2, <4>1, <4>3, <5>1, <5>2
        <5>4. i # f - 1
          BY <5>2, <5>3
        <5>5. i < f - 1 /\ f - 1 < k
          BY <2>1, <3>2, <4>1, <5>0, <5>4
        <5>6. QED
          BY <3>4, <5>1, <5>2, <5>3, <5>5
      <4>4. QED
        BY <4>2, <4>3
    <3>5. CASE ranges'[i].end = ranges[i].end /\ ranges'[k].end = ranges[k].end
      <4>1. Crosses(i, k)
        BY <2>1, <3>5 DEF Crosses
      <4>2. PICK x \in DOMAIN ranges : i < x /\ x < k /\ ranges[x].end < ranges[i].end
        BY <3>1, <4>1 DEF Between
      <4>3. x \in Nat /\ ranges[x].end \in Nat
        BY <1>4, <1>6
      <4>4. CASE ranges'[x].end = ranges[x].end
        BY <3>5, <4>2, <4>4
      <4>5. CASE ranges'[x].end # ranges[x].end
        <5>1. x = f /\ ranges[x].end = node.start - 1 /\ f > 1
          BY <1>4, <1>6, <3>2, <4>2, <4>3, <4>5 DEF Near
        <5>2. f - 1 \in DOMAIN ranges /\ ~(ranges[f - 1].end + 1 >= node.start)
          BY <1>5, <5>1
        <5>3. ranges[f - 1].end \in Nat /\ ranges'[f - 1].end = ranges[f - 1].end
          <6>1. f - 1 # f
            BY <4>3, <5>1
          <6>2. QED
            BY <1>4, <5>2, <6>1
        <5>4. ranges[f - 1].end < ranges[i].end
          BY <1>4, <3>2, <4>2, <4>3, <5>1, <5>2, <5>3
        <5>5. i # f - 1
          BY <5>3, <5>4
        <5>6. i < f - 1 /\ f - 1 < k
          BY <3>2, <4>2, <4>3, <5>1, <5>5
        <5>7. QED
          BY <3>5, <5>2, <5>3, <5>4, <5>6
      <4>6. QED
        BY <4>4, <4>5
    <3>6. QED
      BY <3>3, <3>4, <3>5
  <2>2. \A i, k \in DOMAIN ranges : Crosses(i, k)' <=>
          /\ ranges[i].start < ranges[k].start /\ ranges[k].start <= ranges'[i].end
          /\ ranges'[i].end < ranges'[k].end
    BY <1>4 DEF Crosses
  <2> HIDE DEF node
  <2>3. QED
    BY <1>4, <2>1, <2>2 DEF CrossesRightly, Between
<1>9. InnermostFirst'
  BY <1>4 DEF InnermostFirst
<1>10. QED
  BY <1>3, <1>7, <1>8, <1>9 DEF CrossInv

\* FinishWalk: of two ranges that cross, the one that begins above came first, and
\* what excused them does so wherever they are put.
LEMMA CrossFinish == CrossInv /\ FinishWalk => CrossInv'
<1>1. SUFFICES ASSUME CrossInv, FinishWalk
               PROVE  CrossInv'
  OBVIOUS
<1>2. /\ CoverInv /\ Inv /\ InOrderOfGroups /\ GrownLast /\ CrossesRightly
      /\ file \in Files
  BY <1>1 DEF CrossInv, CoverInv, Inv
<1>3. CoverInv'
  BY <1>1, <1>2, CoverFinish
<1>4. /\ ranges' \in SortedByEnd(ranges) /\ walked' = TRUE /\ file' = file /\ next' = next
      /\ ~walked
  BY <1>1 DEF FinishWalk
<1>5. PICK p \in [DOMAIN ranges -> DOMAIN ranges] :
        /\ ranges' = [k \in DOMAIN ranges |-> ranges[p[k]]]
        /\ \A m, n \in DOMAIN ranges : p[m] = p[n] => m = n
        /\ \A m, n \in DOMAIN ranges : m < n => ranges[p[m]].end <= ranges[p[n]].end
  BY <1>4 DEF SortedByEnd
<1>6. DOMAIN ranges' = DOMAIN ranges /\ \A k \in DOMAIN ranges : p[k] \in DOMAIN ranges /\ ranges'[k] = ranges[p[k]]
  BY <1>5
<1>7. \A l \in DOMAIN ranges : \E k \in DOMAIN ranges : p[k] = l
  BY <1>2, <1>5, AllPlaced
<1>8. ASSUME NEW k \in DOMAIN ranges
      PROVE  /\ k \in Nat /\ ranges[k].start \in Nat /\ ranges[k].end \in Nat
             /\ ranges[k].group \in Nat /\ ranges[k].group \in DOMAIN file.groups
             /\ ranges[k].start = GroupOf(k).start
             /\ GroupOf(k).end \in Nat /\ GroupOf(k).start <= GroupOf(k).end
  BY <1>2, PlacesAndLines
<1>9. \A i, k \in DOMAIN ranges : i < k => ranges[i].group <= ranges[k].group
  BY <1>2, <1>4 DEF InOrderOfGroups
<1>10. ASSUME NEW i \in DOMAIN ranges, NEW k \in DOMAIN ranges, ranges[i].start < ranges[k].start
       PROVE  i < k /\ ranges[i].group < ranges[k].group
  <2>1. ranges[i].group < ranges[k].group
    <3>1. CASE ranges[i].group = ranges[k].group
      <4>1. ranges[i].start = ranges[k].start
        BY <1>8, <3>1 DEF GroupOf
      <4>2. QED
        BY <1>8, <1>10, <4>1
    <3>2. CASE ranges[k].group < ranges[i].group
      <4>1. GroupOf(k).end <= GroupOf(i).start
        BY <1>2, <1>8, <3>2, FilesAssumption DEF GroupOf
      <4>2. QED
        BY <1>8, <1>10, <4>1
    <3>3. QED
      BY <1>8, <3>1, <3>2
  <2>2. ~(k < i) /\ i # k
    BY <1>8, <1>9, <2>1
  <2>3. QED
    BY <1>8, <2>1, <2>2
<1>11. GrownLast'
  <2>1. \A k \in DOMAIN ranges : GroupOf(k)' = GroupOf(p[k])
    BY <1>4, <1>6 DEF GroupOf
  <2>2. QED
    BY <1>2, <1>4, <1>6, <2>1 DEF GrownLast
<1>12. CrossesRightly'
  BY <1>4 DEF CrossesRightly
<1>13. InnermostFirst'
  <2>1. ASSUME NEW m \in DOMAIN ranges, NEW n \in DOMAIN ranges, m < n,
               Lines(ranges[p[m]]) \cap Lines(ranges[p[n]]) # {},
               ranges[p[m]].end # ranges[p[n]].end,
               ~(Lines(ranges[p[m]]) \subseteq Lines(ranges[p[n]]))
        PROVE  LET inner == ranges[p[m]]
                   outer == ranges[p[n]]
               IN  /\ inner.group < outer.group
                   /\ \/ IsDoc(file, outer.group)
                      \/ SticksOut(file, outer.group)
                      \/ \E k \in DOMAIN ranges \ {m, n} :
                           /\ ranges[p[k]].group \in inner.group .. outer.group
                           /\ ranges[p[k]].end < inner.end
    <3> DEFINE i == p[m]
               k == p[n]
    <3>1. i \in DOMAIN ranges /\ k \in DOMAIN ranges
      BY <1>6
    <3>2. ranges[i].end < ranges[k].end
      <4>1. ranges[i].end <= ranges[k].end /\ ranges[i].end # ranges[k].end
        BY <1>5, <2>1
      <4>2. ranges[i].end \in Nat /\ ranges[k].end \in Nat
        BY <1>8, <3>1
      <4> HIDE DEF i, k
      <4>3. QED
        BY <4>1, <4>2
    <3>3. ranges[i].start < ranges[k].start /\ ranges[k].start <= ranges[i].end
      <4>1. PICK l \in Lines(ranges[i]) : l \in Lines(ranges[k])
        BY <2>1
      <4>2. ranges[k].start <= ranges[i].end
        BY <1>8, <3>1, <4>1 DEF Lines
      <4>3. ~(ranges[k].start <= ranges[i].start)
        BY <1>8, <2>1, <3>1, <3>2 DEF Lines
      <4>4. QED
        BY <1>8, <3>1, <4>2, <4>3
    <3> HIDE DEF i, k
    <3>4. i < k /\ ranges[i].group < ranges[k].group /\ Crosses(i, k)
      BY <1>10, <3>1, <3>2, <3>3 DEF Crosses
    <3>5. CASE Between(i, k)
      <4>1. PICK x \in DOMAIN ranges : i < x /\ x < k /\ ranges[x].end < ranges[i].end
        BY <3>5 DEF Between
      <4>2. PICK y \in DOMAIN ranges : p[y] = x
        BY <1>7
      <4>3. x # i /\ x # k
        BY <1>8, <3>1, <4>1
      <4>4. y \notin {m, n}
        BY <4>2, <4>3 DEF i, k
      <4>5. ranges[x].group \in ranges[i].group .. ranges[k].group
        BY <1>8, <1>9, <3>1, <4>1
      <4>6. y \in DOMAIN ranges \ {m, n} /\ ranges[p[y]] = ranges[x]
        BY <4>2, <4>4
      <4>7. QED
        BY <3>4, <4>1, <4>5, <4>6 DEF i, k
    <3>6. CASE IsDoc(file, ranges[k].group) \/ SticksOut(file, ranges[k].group)
      BY <3>4, <3>6 DEF i, k
    <3>7. QED
      BY <1>2, <1>4, <3>1, <3>4, <3>5, <3>6 DEF CrossesRightly
  <2>2. QED
    BY <1>4, <1>6, <2>1 DEF InnermostFirst
<1>14. QED
  BY <1>3, <1>11, <1>12, <1>13 DEF CrossInv

\* Extraction gives each nolint comment the lines of its group, and a range keeps
\* them however the search goes wrong (directives.go:118-186).
THEOREM InvCorrect == Spec => []Inv
<1>1. Inv /\ UNCHANGED vars => Inv'
  BY DEF Inv, vars, TypeOK, KeepsOwnLines, GrowsOverNeighbours
<1>2. Inv /\ [Next]_vars => Inv'
  BY <1>1, VisitStep, FinishWalkStep DEF Next, Parsed
<1>3. QED
  BY <1>2, InvInit, PTL DEF Spec

\* No nolint comment is lost, in the walk or in the sorting.
THEOREM TypeCorrect == Spec => []TypeOK
<1>1. Inv => TypeOK
  BY DEF Inv
<1>2. QED
  BY <1>1, InvCorrect, PTL

\* A directive always covers its own lines.
THEOREM OwnLinesKept == Spec => []KeepsOwnLines
<1>1. Inv => KeepsOwnLines
  BY DEF Inv
<1>2. QED
  BY <1>1, InvCorrect, PTL

\* A range grows over adjacent statements of its comment's column only.
THEOREM GrowsInTurn == Spec => []GrowsOverNeighbours
<1>1. Inv => GrowsOverNeighbours
  BY DEF Inv
<1>2. QED
  BY <1>1, InvCorrect, PTL

\* Of the comments whose group has one directive, the search misses only those that
\* stand inside lines that an earlier directive has grown over: every other one
\* covers the statements it precedes (directives.go:130-143).
THEOREM MissesOnlyTheCovered == Spec => []GrowsUnlessCovered
<1>1. CoverInv /\ [Next]_vars => CoverInv'
  BY CoverStutter, CoverVisit, CoverFinish DEF Next, Parsed
<1>2. CoverInv => GrowsUnlessCovered
  <2>1. SUFFICES ASSUME CoverInv, walked, NEW k \in DOMAIN ranges, ~Spoiled(k)
                 PROVE  PromisedLines(file, ranges[k].group) \subseteq Lines(ranges[k])
    BY DEF GrowsUnlessCovered, Spoiled
  <2>2. Inv /\ next > Len(file.nodes) /\ CoversVisited
    BY <2>1 DEF CoverInv, InOrderOfGroups
  <2>3. /\ GroupOf(k).start \in Nat /\ GroupOf(k).end \in Nat /\ GroupOf(k).start <= GroupOf(k).end
        /\ ranges[k].start = GroupOf(k).start /\ ranges[k].end >= GroupOf(k).end
        /\ ranges[k].end \in Nat
    BY <2>2, PlacesAndLines
  <2>4. ASSUME NEW m \in DOMAIN file.nodes, Precedes(GroupOf(k), file.nodes[m])
        PROVE  file.nodes[m].start .. file.nodes[m].end \subseteq Lines(ranges[k])
    <3>1. m < next /\ file.nodes[m].start \in Nat /\ file.nodes[m].end \in Nat
      BY <2>2, PlacesAndLines
    <3>2. ranges[k].end >= file.nodes[m].end
      BY <2>1, <2>2, <2>4, <3>1 DEF CoversVisited
    <3>3. file.nodes[m].start = GroupOf(k).end + 1
      BY <2>4 DEF Precedes
    <3>4. QED
      BY <2>3, <3>1, <3>2, <3>3 DEF Lines
  <2>5. GroupOf(k).start .. GroupOf(k).end \subseteq Lines(ranges[k])
    BY <2>3 DEF Lines
  <2>6. QED
    BY <2>4, <2>5 DEF PromisedLines, GroupOf
<1>3. QED
  BY <1>1, <1>2, CoverInit, PTL DEF Spec
\* The ranges are in such an order that IsIgnored finds the innermost of those that
\* share a line, but for three kinds of crossings (directives.go:53, 79-85).
THEOREM InnermostComesFirst == Spec => []InnermostFirst
<1>1. CrossInv /\ UNCHANGED vars => CrossInv'
  <2>1. SUFFICES ASSUME CrossInv, UNCHANGED vars
                 PROVE  CrossInv'
    OBVIOUS
  <2>2. file' = file /\ ranges' = ranges /\ next' = next /\ walked' = walked
    BY <2>1 DEF vars
  <2>3. CoverInv'
    BY <2>1, CoverStutter DEF CrossInv
  <2>4. GrownLast'
    BY <2>1, <2>2 DEF CrossInv, GrownLast, GroupOf
  <2>5. CrossesRightly'
    BY <2>1, <2>2 DEF CrossInv, CrossesRightly, Crosses, Between
  <2>6. InnermostFirst'
    BY <2>1, <2>2 DEF CrossInv, InnermostFirst
  <2>7. QED
    BY <2>3, <2>4, <2>5, <2>6 DEF CrossInv
<1>2. CrossInv /\ [Next]_vars => CrossInv'
  BY <1>1, CrossVisit, CrossFinish DEF Next, Parsed
<1>3. CrossInv => InnermostFirst
  BY DEF CrossInv
<1>4. QED
  BY <1>2, <1>3, CrossInit, PTL DEF Spec
================================================================================
