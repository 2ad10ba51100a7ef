---------------------------- MODULE Startup_proofs ----------------------------
(***************************************************************************)
(* Proofs about Configuration and Startup, for any linters, files, command *)
(* lines and environments.                                                 *)
(***************************************************************************)
EXTENDS Startup, SequenceLemmas

-----------------------------------------------------------------------------
(***************************************************************************)
(* The invariant.  c is the configuration after the first n words of the   *)
(* story, or after the values of the first m flags.                        *)
(***************************************************************************)
\* What has been said so far: under a key of a file, and about a linter.
SaidBy(n, key) ==
  {Files[Story[k].value][key] :
     k \in {j \in 1 .. n : Story[j].flag = "config" /\ key \in DOMAIN Files[Story[j].value]}}
AskedBy(n, l) ==
  LET said == {k \in 1 .. n : Word(Story[k], l) # "none"}
  IN  IF said = {} THEN l \in DefaultOn ELSE Word(Story[LastSuch(said)], l) = "on"
DefinedBy(n, l) ==
  LET said == {k \in 1 .. n : Defines(Story[k], l) # {}}
  IN  IF said = {} THEN {} ELSE Defines(Story[LastSuch(said)], l)

IsConfig(c) ==
  /\ DOMAIN c = DOMAIN Default
  /\ c.enable \in Seq(STRING) /\ c.disable \in Seq(STRING) /\ c.exclude \in Seq(STRING)
  /\ \A l \in DOMAIN c.linters : c.linters[l] \in Definitions

\* The values of the flags.
FastSet(c, m) == \A k \in 1 .. m : args[k].flag = "fast" => c.fast = args[k].value
ExcludeSet(c, m) == c.exclude = ExcludeFlags(m)
SeveritySet(c, l, m) ==
  LET flags == {k \in 1 .. m : args[k].flag = "severity" /\ l \in DOMAIN args[k].value}
  IN  IF flags = {} THEN l \in DOMAIN c.severity <=> l \in DefaultErr /\ ~Given("severity")
      ELSE /\ l \in DOMAIN c.severity
           /\ \E k \in flags : (\A j \in flags : j <= k) /\ c.severity[l] = args[k].value[l]
Unheard(c) == c.enable = Default.enable /\ c.disable = <<>> /\ c.linters = <<>>

\* The actions.
ListsHeard(c, n) ==
  /\ Range(c.enable) \subseteq Named
  /\ \A l \in Named \ Range(c.disable) : l \in Range(c.enable) <=> AskedBy(n, l)
  /\ IF SaidBy(n, "Disable") = {} THEN c.disable = <<>> ELSE c.disable \in SaidBy(n, "Disable")
\* The settings configured for a linter.
SetFor(c, l) == {c.linters[m] : m \in {l} \cap DOMAIN c.linters}
LintersHeard(c, n) == \A l \in Named : DefinedBy(n, l) = SetFor(c, l)
ValuesHeard(c, n) ==
  /\ IF SaidBy(n, "Fast") # {} THEN c.fast \in SaidBy(n, "Fast") ELSE FastSet(c, Len(args))
  /\ IF SaidBy(n, "Exclude") # {} THEN c.exclude \in SaidBy(n, "Exclude")
     ELSE ExcludeSet(c, Len(args))
  /\ \A l \in Builtin :
       IF \E s \in SaidBy(n, "Severity") : l \in DOMAIN s
       THEN l \in DOMAIN c.severity /\ \E s \in SaidBy(n, "Severity") : c.severity[l] = s[l]
       ELSE SeveritySet(c, l, Len(args))
Heard(c, n) == ListsHeard(c, n) /\ LintersHeard(c, n) /\ ValuesHeard(c, n)

NoneRepeated(m) == \A k \in 1 .. m : ~Repeated(k)
AllUsable(n) == \A k \in 1 .. n : ~Unusable(Story[k])

\* What holds after the values of m flags, and after n words.
IsSet(c, m) ==
  /\ Unheard(c) /\ NoneRepeated(m)
  /\ FastSet(c, m) /\ ExcludeSet(c, m) /\ \A l \in Builtin : SeveritySet(c, l, m)
IsHeard(c, n) == NoneRepeated(Len(args)) /\ AllUsable(n) /\ Heard(c, n)

\* The number of words before the flags.
First == Len(Story) - Len(args)
Installing == {"installing", "one by one", "installed"}
Choosing == {"configured", "processed", "chosen", "linting"}
\* The configuration is read, and the program has not ended for want of one.
IsRead == at \in {"parsed"} \cup Installing \cup Choosing \/ DOMAIN linters # {}

ReadInv ==
  /\ run \in Invocations /\ next \in 1 .. Len(args) + 1
  /\ at \in {"start", "setting", "acting", "parsed", "fatal", "panic"} \cup Installing \cup Choosing
  /\ IsConfig(config)
  /\ at = "start" => config = Default
  /\ at = "setting" => IsSet(config, next - 1)
  /\ at = "acting" => IsHeard(config, First + next - 1)
  /\ IsRead => IsHeard(config, Len(Story))

\* How the linters are chosen.
IsBad == Unknown # {} \/ \E l \in DOMAIN linters : IsNil(linters[l])
ChoiceInv ==
  /\ at \notin {"chosen", "linting", "fatal", "panic"} => linters = <<>>
  /\ DOMAIN linters # {} \/ at \in {"chosen", "linting"} =>
       linters = [l \in Chosen(Range(config.enable)) |-> Setting(l)]
  /\ at = "linting" => ~IsBad
  /\ at \in {"fatal", "panic"} /\ DOMAIN linters # {} => IsBad

\* How they are installed.
InstallInv ==
  /\ run \in Invocations
  /\ at \in {"start", "setting", "acting", "parsed"} => env = run.env
  /\ at \in Installing => InstallDir(env) = InstallDir(run.env)
  /\ at \in {"start", "setting", "acting", "parsed", "installing"} => failed = {} /\ tried = {}
  /\ at = "one by one" => tried \subseteq Builtin /\ tried \subseteq installed \cup failed
                          /\ installed \subseteq Builtin
  /\ at = "installed" => installed = Builtin

Inv == ReadInv /\ ChoiceInv

-----------------------------------------------------------------------------
(***************************************************************************)
(* Lists.                                                                  *)
(***************************************************************************)
\* RemoveFirst takes out one element and puts in none.
LEMMA RemoveFirstRange ==
  ASSUME NEW S, NEW s \in Seq(S), NEW e
  PROVE  /\ RemoveFirst(s, e) \in Seq(S)
         /\ Range(RemoveFirst(s, e)) \subseteq Range(s)
         /\ Range(s) \ {e} \subseteq Range(RemoveFirst(s, e))
<1> DEFINE I == {i \in 1 .. Len(s) : s[i] = e}
           k == Min(I)
           t == RemoveAt(s, k)
<1>1. CASE I = {}
  <2>1. RemoveFirst(s, e) = s
    BY <1>1 DEF RemoveFirst
  <2> QED
    BY <2>1
<1>2. CASE I # {}
  <2>1. RemoveFirst(s, e) = t
    BY <1>2 DEF RemoveFirst, SelectInSeq
  <2> DEFINE Least == \E m \in I : \A n \in I : m <= n
  <2>10. I \subseteq Nat
    OBVIOUS
  <2>11. Least
    <3> HIDE DEF I
    <3> QED
      BY <1>2, <2>10, Smallest
  <2>2. PICK m \in I : \A n \in I : m <= n
    BY <2>11
  <2>3. k \in 1 .. Len(s) /\ s[k] = e
    BY <2>2 DEF Min
  <2> HIDE DEF k, I
  <2> DEFINE a == SubSeq(s, 1, k - 1)
             b == SubSeq(s, k + 1, Len(s))
  <2>4. a \in Seq(S) /\ b \in Seq(S) /\ Len(a) = k - 1 /\ Len(b) = Len(s) - k
        /\ (\A i \in 1 .. k - 1 : a[i] = s[i]) /\ \A i \in 1 .. Len(s) - k : b[i] = s[k + i]
    BY <2>3
  <2>5. t = a \o b
    BY DEF RemoveAt
  <2> HIDE DEF a, b, t
  <2>6. Range(t) = Range(a) \cup Range(b) /\ t \in Seq(S)
    BY <2>4, <2>5, RangeOfConcat, ConcatProperties
  <2>12. /\ \A x : x \in Range(a) <=> \E i \in 1 .. Len(a) : a[i] = x
         /\ \A x : x \in Range(b) <=> \E i \in 1 .. Len(b) : b[i] = x
         /\ \A x : x \in Range(s) <=> \E i \in 1 .. Len(s) : s[i] = x
    BY <2>4, InRange
  <2>7. Range(t) \subseteq Range(s)
    <3>1. Range(a) \subseteq Range(s)
      BY <2>3, <2>4, <2>12
    <3>2. Range(b) \subseteq Range(s)
      <4>1. \A i \in 1 .. Len(s) - k : k + i \in 1 .. Len(s)
        BY <2>3
      <4> QED
        BY <2>4, <2>12, <4>1
    <3> QED
      BY <2>6, <3>1, <3>2
  <2>8. ASSUME NEW i \in 1 .. Len(s), s[i] # e
        PROVE  s[i] \in Range(t)
    <3>1. CASE i < k
      BY <2>3, <2>4, <2>6, <2>12, <3>1
    <3>2. CASE i > k
      <4>1. i - k \in 1 .. Len(s) - k /\ b[i - k] = s[i]
        BY <2>3, <2>4, <3>2
      <4> QED
        BY <2>4, <2>6, <2>12, <4>1
    <3> QED
      BY <2>3, <2>8, <3>1, <3>2
  <2> QED
    BY <2>1, <2>6, <2>7, <2>8, <2>12
<1> QED
  BY <1>1, <1>2

\* loadConfigFile takes out only disabled linters.
LEMMA RemovedAll ==
  ASSUME NEW S, NEW xs \in Seq(S), NEW ys \in Seq(S)
  PROVE  /\ FoldLeft(RemoveFirst, xs, ys) \in Seq(S)
         /\ Range(FoldLeft(RemoveFirst, xs, ys)) \subseteq Range(xs)
         /\ Range(xs) \ Range(ys) \subseteq Range(FoldLeft(RemoveFirst, xs, ys))
<1> DEFINE V == {s \in Seq(S) : Range(s) \subseteq Range(xs) /\ Range(xs) \ Range(ys) \subseteq Range(s)}
           E == Range(ys)
           f == [p \in V \X E |-> RemoveFirst(p[1], p[2])]
           Folded(h) == h = [s \in SUBSET DOMAIN ys |->
                               IF s = {} THEN xs ELSE RemoveFirst(h[s \ {Max(s)}], ys[Max(s)])]
<1>1. ASSUME NEW p \in V \X E
      PROVE  RemoveFirst(p[1], p[2]) \in V
  BY RemoveFirstRange
<1>2. f \in [V \X E -> V]
  BY <1>1
<1>3. xs \in V /\ ys \in Seq(E)
  BY DEF Range
<1> HIDE DEF V, E
<1>4. PICK h \in [SUBSET DOMAIN ys -> V] : IsFold(h, f, xs, ys, DOMAIN ys)
  BY <1>2, <1>3, FoldExists
<1>5. \A s \in SUBSET DOMAIN ys : s # {} => Max(s) \in s /\ ys[Max(s)] \in E
  <2>1. DOMAIN ys = 1 .. Len(ys) /\ Len(ys) \in Nat /\ \A k \in DOMAIN ys : ys[k] \in E
    BY <1>3
  <2> QED
    BY <2>1, Largest
<1>6. Folded(h)
  <2>1. \A s \in SUBSET DOMAIN ys : s # {} =>
          f[<<h[s \ {Max(s)}], ys[Max(s)]>>] = RemoveFirst(h[s \ {Max(s)}], ys[Max(s)])
    BY <1>4, <1>5
  <2> QED
    BY <1>4, <2>1 DEF IsFold
<1> DEFINE g == CHOOSE i : Folded(i)
<1>7. Folded(g) /\ FoldLeft(RemoveFirst, xs, ys) = g[DOMAIN ys]
  BY <1>6 DEF FoldLeft, MapThenFoldSet
<1> HIDE DEF f, g
<1>8. g[{}] = xs
  BY <1>7
<1>9. ASSUME NEW k \in Nat, k + 1 <= Len(ys), g[1 .. k] \in V
      PROVE  g[1 .. k + 1] \in V
  <2>1. g[1 .. k + 1] = RemoveFirst(g[1 .. k], ys[k + 1]) /\ ys[k + 1] \in E
    <3>1. DOMAIN ys = 1 .. Len(ys) /\ 1 .. k + 1 \in SUBSET DOMAIN ys /\ ys[k + 1] \in E
      BY <1>3, <1>9
    <3> DEFINE s == 1 .. k + 1
    <3>2. s # {} /\ Max(s) = k + 1 /\ s \ {k + 1} = 1 .. k
      BY Prefix
    <3>3. s \in SUBSET DOMAIN ys
      BY <3>1
    <3> HIDE DEF s
    <3>4. g[s] = RemoveFirst(g[s \ {Max(s)}], ys[Max(s)])
      BY <1>7, <3>2, <3>3
    <3> QED
      BY <3>1, <3>2, <3>4 DEF s
  <2> QED
    BY <1>9, <2>1, RemoveFirstRange DEF V, E
<1> DEFINE T == {k \in Nat : k <= Len(ys) => g[1 .. k] \in V}
<1>10. T = Nat
  <2>1. 0 \in T
    <3>1. 1 .. 0 = {}
      OBVIOUS
    <3> QED
      BY <1>3, <1>8, <3>1
  <2>2. ASSUME NEW k \in T
        PROVE  k + 1 \in T
    BY <1>9, <2>2
  <2> HIDE DEF T
  <2>3. T \subseteq Nat
    BY DEF T
  <2> QED
    BY <2>1, <2>2, <2>3, Induction
<1>11. g[DOMAIN ys] \in V
  BY <1>10
<1> QED
  BY <1>7, <1>11 DEF V, E

\* addPath puts in what is not there, and leaves what is.
LEMMA AddPathRange ==
  ASSUME NEW S, NEW s \in Seq(S), NEW p \in S
  PROVE  AddPath(s, p) \in Seq(S) /\ Range(AddPath(s, p)) = Range(s) \cup {p}
<1>1. (Contains(s, p) <=> p \in Range(s)) /\ Range(Append(s, p)) = Range(s) \cup {p}
  BY InRange
<1> QED
  BY <1>1 DEF AddPath

\* addGoBinsToPath leaves the PATH as it is and adds the others.
LEMMA AllAdded ==
  ASSUME NEW S, NEW xs \in Seq(S), NEW ys \in Seq(S)
  PROVE  /\ FoldLeft(AddPath, xs, ys) \in Seq(S)
         /\ Range(xs) \cup Range(ys) \subseteq Range(FoldLeft(AddPath, xs, ys))
<1> DEFINE V == Seq(S)
           f == [p \in V \X S |-> AddPath(p[1], p[2])]
           Folded(h) == h = [s \in SUBSET DOMAIN ys |->
                               IF s = {} THEN xs ELSE AddPath(h[s \ {Max(s)}], ys[Max(s)])]
<1>1. ASSUME NEW p \in V \X S
      PROVE  AddPath(p[1], p[2]) \in V
  BY AddPathRange
<1>2. f \in [V \X S -> V]
  BY <1>1
<1>3. xs \in V
  OBVIOUS
<1> HIDE DEF V
<1>4. PICK h \in [SUBSET DOMAIN ys -> V] : IsFold(h, f, xs, ys, DOMAIN ys)
  BY <1>2, <1>3, FoldExists
<1>5. \A s \in SUBSET DOMAIN ys : s # {} => Max(s) \in s /\ ys[Max(s)] \in S
  <2>1. DOMAIN ys = 1 .. Len(ys) /\ Len(ys) \in Nat /\ \A k \in DOMAIN ys : ys[k] \in S
    OBVIOUS
  <2> QED
    BY <2>1, Largest
<1>6. Folded(h)
  <2>1. \A s \in SUBSET DOMAIN ys : s # {} =>
          f[<<h[s \ {Max(s)}], ys[Max(s)]>>] = AddPath(h[s \ {Max(s)}], ys[Max(s)])
    BY <1>4, <1>5
  <2> QED
    BY <1>4, <2>1 DEF IsFold
<1> DEFINE g == CHOOSE i : Folded(i)
<1>7. Folded(g) /\ FoldLeft(AddPath, xs, ys) = g[DOMAIN ys]
  BY <1>6 DEF FoldLeft, MapThenFoldSet
<1> HIDE DEF f, g
<1>8. g[{}] = xs
  BY <1>7
<1> DEFINE Good(k) == /\ g[1 .. k] \in V /\ Range(xs) \subseteq Range(g[1 .. k])
                      /\ \A i \in 1 .. k : ys[i] \in Range(g[1 .. k])
           T == {k \in Nat : k <= Len(ys) => Good(k)}
<1>9. ASSUME NEW k \in Nat, k + 1 <= Len(ys), Good(k)
      PROVE  Good(k + 1)
  <2>1. g[1 .. k + 1] = AddPath(g[1 .. k], ys[k + 1]) /\ ys[k + 1] \in S
    <3>1. DOMAIN ys = 1 .. Len(ys) /\ 1 .. k + 1 \in SUBSET DOMAIN ys /\ ys[k + 1] \in S
      BY <1>9
    <3> DEFINE s == 1 .. k + 1
    <3>2. s # {} /\ Max(s) = k + 1 /\ s \ {k + 1} = 1 .. k
      BY Prefix
    <3>3. s \in SUBSET DOMAIN ys
      BY <3>1
    <3> HIDE DEF s
    <3>4. g[s] = AddPath(g[s \ {Max(s)}], ys[Max(s)])
      BY <1>7, <3>2, <3>3
    <3> QED
      BY <3>1, <3>2, <3>4 DEF s
  <2>2. g[1 .. k + 1] \in V /\ Range(g[1 .. k + 1]) = Range(g[1 .. k]) \cup {ys[k + 1]}
    <3> DEFINE before == g[1 .. k]
               y == ys[k + 1]
    <3>1. before \in Seq(S) /\ y \in S
      BY <1>9, <2>1 DEF V
    <3> HIDE DEF before, y
    <3>2. AddPath(before, y) \in Seq(S) /\ Range(AddPath(before, y)) = Range(before) \cup {y}
      BY <3>1, AddPathRange, Zenon
    <3> QED
      BY <2>1, <3>2, Zenon DEF V, before, y
  <2>3. \A i \in 1 .. k + 1 : i = k + 1 \/ i \in 1 .. k
    OBVIOUS
  <2> QED
    BY <1>9, <2>2, <2>3
<1>10. T = Nat
  <2>1. 0 \in T
    <3>1. 1 .. 0 = {}
      OBVIOUS
    <3> QED
      BY <1>3, <1>8, <3>1
  <2>2. ASSUME NEW k \in T
        PROVE  k + 1 \in T
    <3> HIDE DEF Good
    <3> QED
      BY <1>9, <2>2
  <2> HIDE DEF T
  <2>3. T \subseteq Nat
    BY DEF T
  <2> QED
    BY <2>1, <2>2, <2>3, Induction
<1>11. Good(Len(ys)) /\ DOMAIN ys = 1 .. Len(ys)
  <2> HIDE DEF Good
  <2> QED
    BY <1>10
<1>12. \A x \in Range(ys) : \E i \in 1 .. Len(ys) : ys[i] = x
  BY DEF Range
<1> DEFINE r == g[1 .. Len(ys)]
<1>13. r = FoldLeft(AddPath, xs, ys)
  BY <1>7, <1>11
<1>14. r \in Seq(S) /\ Range(xs) \subseteq Range(r) /\ \A i \in 1 .. Len(ys) : ys[i] \in Range(r)
  BY <1>11 DEF V
<1> HIDE DEF r
<1> QED
  BY <1>12, <1>13, <1>14

\* disableAction takes out every mention of the linter and nothing else.
LEMMA WithoutRange ==
  ASSUME NEW S, NEW s \in Seq(S), NEW l
  PROVE  Without(s, l) \in Seq(S) /\ Range(Without(s, l)) = Range(s) \ {l}
<1> DEFINE ss == [k \in DOMAIN s |-> IF s[k] = l THEN <<>> ELSE <<s[k]>>]
<1>1. DOMAIN s = 1 .. Len(s) /\ Len(s) \in Nat
  OBVIOUS
<1>2. \A k \in 1 .. Len(s) : (IF s[k] = l THEN <<>> ELSE <<s[k]>>) \in Seq(S)
  OBVIOUS
<1>3. ss \in Seq(Seq(S)) /\ Len(ss) = Len(s)
  <2>1. ss \in [1 .. Len(s) -> Seq(S)]
    BY <1>1, <1>2
  <2> QED
    BY <1>1, <2>1
<1>4. \A k \in 1 .. Len(s) : Range(ss[k]) = {s[k]} \ {l}
  <2>1. \A x \in S : Range(<<x>>) = {x}
    BY DEF Range
  <2>2. Range(<<>>) = {}
    BY DEF Range
  <2> QED
    BY <1>1, <2>1, <2>2
<1> HIDE DEF ss
<1>5. FlattenSeq(ss) \in Seq(S)
      /\ \A x : x \in Range(FlattenSeq(ss)) <=> \E k \in 1 .. Len(s) : x \in Range(ss[k])
  BY <1>3, FlattenType, FlattenRange
<1>6. \A x : x \in Range(s) <=> \E k \in 1 .. Len(s) : s[k] = x
  BY InRange
<1>7. Range(FlattenSeq(ss)) = Range(s) \ {l}
  <2>1. ASSUME NEW x
        PROVE  x \in Range(FlattenSeq(ss)) <=> x \in Range(s) \ {l}
    <3>1. x \in Range(FlattenSeq(ss)) <=> \E k \in 1 .. Len(s) : x \in {s[k]} \ {l}
      <4>1. \A k \in 1 .. Len(s) : x \in Range(ss[k]) <=> x \in {s[k]} \ {l}
        BY <1>4
      <4>2. x \in Range(FlattenSeq(ss)) <=> \E k \in 1 .. Len(s) : x \in Range(ss[k])
        BY <1>5
      <4> QED
        BY <4>1, <4>2, Zenon
    <3> QED
      BY <1>6, <3>1
  <2> QED
    BY <2>1
<1> QED
  BY <1>5, <1>7 DEF Without, ss

-----------------------------------------------------------------------------
(***************************************************************************)
(* The installation.                                                       *)
(***************************************************************************)
\* Fixing GOBIN before GOPATH changes keeps the directory that is installed to.
LEMMA SameInstallDir ==
  ASSUME NEW i \in Invocations
  PROVE  InstallDir(InstallEnv(i.env)) = InstallDir(i.env)
<1>1. i.env \in [gopath : Seq(STRING) \ {<<>>}, gobin : Seq(STRING),
                 path : Seq(Seq(STRING)), go : BOOLEAN]
  BY StartupAssumption
<1>2. Bin(Head(i.env.gopath)) # <<>>
  BY DEF Bin
<1>3. InstallDir(i.env) # <<>>
  BY <1>2, Zenon DEF InstallDir
<1>4. InstallEnv(i.env).gobin = InstallDir(i.env)
  BY <1>1 DEF InstallEnv
<1> QED
  BY <1>3, <1>4, Zenon DEF InstallDir

\* The directory that is installed to is one of those that a later run searches.
LEMMA InstallDirSearched ==
  ASSUME NEW i \in Invocations
  PROVE  Contains(SearchPath(i.env), InstallDir(i.env))
<1> DEFINE e == i.env
           g == e.gopath
           b == e.gobin
           Names == STRING \cup {"bin"}
           S == Seq(Names)
           bins == [k \in DOMAIN g |-> Bin(g[k])]
           gobins == IF b = <<>> THEN <<>> ELSE <<b>>
<1>1. g \in Seq(STRING) /\ g # <<>> /\ b \in S /\ e.path \in Seq(S)
  <2>1. \A s \in Seq(STRING) : s \in Seq(Names)
    OBVIOUS
  <2>2. \A p \in Seq(Seq(STRING)) : p \in Seq(S)
    BY <2>1
  <2> QED
    BY <2>1, <2>2, StartupAssumption
<1> HIDE DEF e, g, b
<1>2. \A p \in STRING : Bin(p) \in S
  BY DEF Bin
<1> HIDE DEF S
<1>3. bins \in Seq(S) /\ Len(bins) = Len(g) /\ bins[1] = Bin(Head(g)) /\ 1 \in 1 .. Len(bins)
  <2>1. DOMAIN g = 1 .. Len(g) /\ 1 \in 1 .. Len(g) /\ Head(g) = g[1] /\ Len(g) \in Nat
        /\ \A k \in DOMAIN g : g[k] \in STRING
    BY <1>1
  <2>2. bins \in [1 .. Len(g) -> S]
    BY <1>2, <2>1
  <2>3. bins \in Seq(S) /\ Len(bins) = Len(g)
    BY <2>1, <2>2
  <2> QED
    BY <2>1, <2>3
<1>4. gobins \in Seq(S) /\ (b # <<>> => Len(gobins) = 1 /\ gobins[1] = b)
  BY <1>1
<1> HIDE DEF bins, gobins
<1>5. bins \o gobins \in Seq(S) /\ Range(bins \o gobins) = Range(bins) \cup Range(gobins)
  BY <1>3, <1>4, RangeOfConcat, ConcatProperties
<1>6. InstallDir(e) \in Range(bins \o gobins)
  <2>1. CASE b # <<>>
    <3>1. b \in Range(gobins)
      <4>2. Len(gobins) = 1 /\ gobins[1] = b
        BY <1>4, <2>1, Zenon
      <4>1. 1 \in 1 .. Len(gobins)
        BY <4>2
      <4> QED
        BY <1>4, <4>1, <4>2, InRange
    <3> QED
      BY <1>5, <2>1, <3>1 DEF InstallDir, b
  <2>2. CASE b = <<>>
    <3>1. bins[1] \in Range(bins)
      BY <1>3, InRange
    <3> QED
      BY <1>3, <1>5, <2>2, <3>1 DEF InstallDir, b, g
  <2> QED
    BY <2>1, <2>2
<1>7. SearchPath(e) = FoldLeft(AddPath, e.path, bins \o gobins)
  BY DEF SearchPath, bins, gobins, b, g
<1>8. SearchPath(e) \in Seq(S) /\ Range(bins \o gobins) \subseteq Range(SearchPath(e))
  BY <1>1, <1>5, <1>7, AllAdded
<1> QED
  BY <1>6, <1>8, InRange DEF e

\* Every step keeps the invariant of the installation.
LEMMA InstallInductive ==
  ASSUME InstallInv, [Next]_vars
  PROVE  InstallInv'
<1> USE DEF InstallInv, Installing
<1>1. CASE Parse /\ UNCHANGED <<env, installVars, linters>>
  BY <1>1 DEF Parse, Reset, SetValue, LoadDefaultConfig, Act, ParseEnds, installVars
<1>2. CASE PrepareInstall
  <2>1. InstallDir(InstallEnv(run.env)) = InstallDir(run.env)
    BY SameInstallDir
  <2> QED
    BY <1>2, <2>1 DEF PrepareInstall, installVars
<1>3. ASSUME NEW some \in SUBSET Builtin, NEW ok \in BOOLEAN, InstallTogether(some, ok)
      PROVE  InstallInv'
  BY <1>3 DEF InstallTogether
<1>4. ASSUME NEW l \in Builtin, NEW ok \in BOOLEAN, InstallOne(l, ok)
      PROVE  InstallInv'
  BY <1>4 DEF InstallOne, Failing
<1>5. CASE InstallEnds
  BY <1>5 DEF InstallEnds, installVars
<1>6. CASE ConfigureEnvironment \/ ProcessConfig \/ LintersFromConfig \/ ValidateLinters
  BY <1>6 DEF ConfigureEnvironment, ProcessConfig, LintersFromConfig, ValidateLinters, installVars
<1>7. CASE UNCHANGED vars
  BY <1>7 DEF vars, installVars
<1> QED
  BY <1>1, <1>2, <1>3, <1>4, <1>5, <1>6, <1>7 DEF Next

\* An installation that reports success has installed every linter, to a directory that
\* is on the PATH which a later run sets up from the same environment (linters.go:143-166,
\* main.go:441-499).
THEOREM InstallsWhereSearched == Spec => []InstalledIsFound
<1>1. Init => InstallInv
  BY DEF Init, ParseInit, InstallInv, Installing
<1>2. InstallInv /\ [Next]_vars => InstallInv'
  BY InstallInductive
<1>3. InstallInv => InstalledIsFound
  <2> SUFFICES ASSUME InstallInv, at = "installed"
               PROVE  installed = Builtin /\ Contains(SearchPath(run.env), InstallDir(env))
    BY DEF InstalledIsFound
  <2>1. run \in Invocations /\ installed = Builtin /\ InstallDir(env) = InstallDir(run.env)
    BY DEF InstallInv, Installing
  <2> QED
    BY <2>1, InstallDirSearched
<1> QED
  BY <1>1, <1>2, <1>3, PTL DEF Spec

-----------------------------------------------------------------------------
(***************************************************************************)
(* The story.                                                              *)
(***************************************************************************)
\* The default file, if there is one, and then the flags.
LEMMA StoryIs ==
  ASSUME run \in Invocations
  PROVE  /\ Len(args) \in Nat /\ DOMAIN args = 1 .. Len(args)
         /\ First = IF DefaultFile = "none" THEN 0 ELSE 1
         /\ Len(Story) = First + Len(args) /\ DOMAIN Story = 1 .. Len(Story)
         /\ \A k \in 1 .. Len(args) : Story[First + k] = args[k] /\ IsFlag(args[k])
         /\ DefaultFile # "none" => Story[1] = [flag |-> "config", value |-> DefaultFile]
<1> DEFINE A == Range(args)
           word == [flag |-> "config", value |-> DefaultFile]
           S == A \cup {word}
           default == IF DefaultFile = "none" THEN <<>> ELSE <<word>>
<1>1. args \in Seq(A) /\ \A k \in DOMAIN args : IsFlag(args[k])
  BY ConfigurationAssumption DEF args
<1> HIDE DEF A, word
<1>2. args \in Seq(S) /\ Len(args) \in Nat /\ DOMAIN args = 1 .. Len(args)
  BY <1>1
<1>3. default \in Seq(S) /\ Len(default) = IF DefaultFile = "none" THEN 0 ELSE 1
  <2>1. word \in S
    OBVIOUS
  <2> HIDE DEF S
  <2>2. CASE DefaultFile = "none"
    BY <2>2
  <2>3. CASE DefaultFile # "none"
    <3>1. <<word>> \in Seq(S) /\ Len(<<word>>) = 1
      BY <2>1
    <3> QED
      BY <2>3, <3>1
  <2> QED
    BY <2>2, <2>3
<1>4. DefaultFile # "none" => default[1] = word
  OBVIOUS
<1>5. Story = default \o args
  BY DEF Story, word
<1> HIDE DEF default, S
<1>6. /\ Len(Story) = Len(default) + Len(args) /\ DOMAIN Story = 1 .. Len(Story)
      /\ \A k \in 1 .. Len(default) + Len(args) :
           Story[k] = IF k <= Len(default) THEN default[k] ELSE args[k - Len(default)]
  <2>1. Story \in Seq(S)
    BY <1>2, <1>3, <1>5, ConcatProperties
  <2>2. DOMAIN Story = 1 .. Len(Story)
    BY <2>1
  <2> QED
    BY <1>2, <1>3, <1>5, <2>2, ConcatProperties
<1>7. First = Len(default)
  BY <1>2, <1>3, <1>6 DEF First
<1>8. \A k \in 1 .. Len(args) : Story[First + k] = args[k]
  BY <1>2, <1>3, <1>6, <1>7
<1>9. DefaultFile # "none" => Story[1] = word
  BY <1>2, <1>3, <1>4, <1>6
<1> QED
  BY <1>1, <1>2, <1>3, <1>6, <1>7, <1>8, <1>9 DEF word

\* The last word is the next one.
LEMMA LastGrows ==
  ASSUME NEW n \in Nat, NEW S, S \subseteq 1 .. n + 1, n + 1 \in S
  PROVE  LastSuch(S) = n + 1
<1>1. \A m \in S : m <= n + 1
  OBVIOUS
<1>2. LastSuch(S) \in S /\ \A m \in S : m <= LastSuch(S)
  BY <1>1 DEF LastSuch
<1>3. LastSuch(S) \in 1 .. n + 1 /\ n + 1 <= LastSuch(S)
  BY <1>2
<1> QED
  BY <1>3

\* Whether a linter is asked for, with one word more.
LEMMA AskedStep ==
  ASSUME NEW n \in Nat, NEW l
  PROVE  AskedBy(n + 1, l) =
           IF Word(Story[n + 1], l) = "none" THEN AskedBy(n, l) ELSE Word(Story[n + 1], l) = "on"
<1> DEFINE S(m) == {k \in 1 .. m : Word(Story[k], l) # "none"}
<1>1. CASE Word(Story[n + 1], l) = "none"
  <2>1. S(n + 1) = S(n)
    BY <1>1
  <2> QED
    BY <1>1, <2>1, Zenon DEF AskedBy
<1>2. CASE Word(Story[n + 1], l) # "none"
  <2>1. n + 1 \in S(n + 1) /\ S(n + 1) \subseteq 1 .. n + 1
    BY <1>2
  <2>2. LastSuch(S(n + 1)) = n + 1 /\ S(n + 1) # {}
    <3> HIDE DEF S
    <3> QED
      BY <2>1, LastGrows
  <2> QED
    BY <1>2, <2>2, Zenon DEF AskedBy
<1> QED
  BY <1>1, <1>2

\* What defines a linter, with one word more.
LEMMA DefinedStep ==
  ASSUME NEW n \in Nat, NEW l
  PROVE  DefinedBy(n + 1, l) =
           IF Defines(Story[n + 1], l) = {} THEN DefinedBy(n, l) ELSE Defines(Story[n + 1], l)
<1> DEFINE S(m) == {k \in 1 .. m : Defines(Story[k], l) # {}}
<1>1. CASE Defines(Story[n + 1], l) = {}
  <2>1. S(n + 1) = S(n)
    BY <1>1
  <2> QED
    BY <1>1, <2>1, Zenon DEF DefinedBy
<1>2. CASE Defines(Story[n + 1], l) # {}
  <2>1. n + 1 \in S(n + 1) /\ S(n + 1) \subseteq 1 .. n + 1
    BY <1>2
  <2>2. LastSuch(S(n + 1)) = n + 1 /\ S(n + 1) # {}
    <3> HIDE DEF S
    <3> QED
      BY <2>1, LastGrows
  <2> QED
    BY <1>2, <2>2, Zenon DEF DefinedBy
<1> QED
  BY <1>1, <1>2

\* What has been said under a key, with one word more.
LEMMA SaidStep ==
  ASSUME NEW n \in Nat, NEW key
  PROVE  SaidBy(n + 1, key) =
           IF Story[n + 1].flag = "config" /\ key \in DOMAIN Files[Story[n + 1].value]
           THEN SaidBy(n, key) \cup {Files[Story[n + 1].value][key]} ELSE SaidBy(n, key)
<1> DEFINE S(m) == {k \in 1 .. m : Story[k].flag = "config" /\ key \in DOMAIN Files[Story[k].value]}
<1>1. S(n + 1) = IF Story[n + 1].flag = "config" /\ key \in DOMAIN Files[Story[n + 1].value]
                 THEN S(n) \cup {n + 1} ELSE S(n)
  OBVIOUS
<1> QED
  BY <1>1 DEF SaidBy

\* Before the first word.
LEMMA NothingSaid ==
  ASSUME NEW l, NEW key
  PROVE  SaidBy(0, key) = {} /\ AskedBy(0, l) = (l \in DefaultOn) /\ DefinedBy(0, l) = {}
<1>1. 1 .. 0 = {}
  OBVIOUS
<1> QED
  BY <1>1 DEF SaidBy, AskedBy, DefinedBy

\* A --config cannot be repeated, and with it no default file is looked for.
LEMMA OneFile ==
  ASSUME run \in Invocations, NoneRepeated(Len(args)),
         NEW k \in 1 .. Len(Story), Story[k].flag = "config"
  PROVE  /\ FileUsed = Story[k].value
         /\ \A j \in 1 .. Len(Story) : Story[j].flag = "config" => j = k
<1>1. /\ Len(args) \in Nat /\ DOMAIN args = 1 .. Len(args)
      /\ First = IF DefaultFile = "none" THEN 0 ELSE 1
      /\ Len(Story) = First + Len(args)
      /\ \A j \in 1 .. Len(args) : Story[First + j] = args[j]
      /\ DefaultFile # "none" => Story[1] = [flag |-> "config", value |-> DefaultFile]
  BY StoryIs
<1>2. ASSUME NEW i \in 1 .. Len(args), NEW j \in 1 .. Len(args),
             args[i].flag = "config", args[j].flag = "config"
      PROVE  i = j
  <2>1. "config" \notin Cumulative
    BY DEF Cumulative
  <2>2. ~ i < j /\ ~ j < i
    BY <1>1, <1>2, <2>1 DEF NoneRepeated, Repeated
  <2> QED
    BY <1>1, <2>2
<1>3. Given("config") => DefaultFile = "none"
  BY DEF DefaultFile, SearchesDefault
<1>4. \A j \in 1 .. Len(Story) : (j = 1 /\ First = 1) \/ (j - First \in 1 .. Len(args) /\ Story[j] = args[j - First])
  <2>1. \A j \in 1 .. Len(Story) : (j = 1 /\ First = 1) \/ (j - First \in 1 .. Len(args) /\ First + (j - First) = j)
    BY <1>1
  <2> QED
    BY <1>1, <2>1
<1>5. CASE k = 1 /\ First = 1
  <2>1. ~Given("config") /\ FileUsed = DefaultFile
    BY <1>1, <1>3, <1>5 DEF FileUsed
  <2>2. \A j \in 1 .. Len(args) : args[j].flag # "config"
    BY <1>1, <2>1 DEF Given
  <2> QED
    BY <1>1, <1>4, <1>5, <2>1, <2>2
<1>6. CASE k - First \in 1 .. Len(args) /\ Story[k] = args[k - First]
  <2> DEFINE i == k - First
             I == {j \in 1 .. Len(args) : args[j].flag = "config"}
  <2>1. Given("config") /\ First = 0 /\ i = k
    <3>1. Given("config")
      BY <1>1, <1>6 DEF Given
    <3> QED
      BY <1>1, <1>3, <3>1
  <2>2. I = {k}
    BY <1>2, <1>6, <2>1
  <2>3. SelectInSeq(args, LAMBDA e : e.flag = "config") = Min(I)
    BY <2>2 DEF SelectInSeq
  <2>4. Min(I) = k
    BY <2>2 DEF Min
  <2>5. FileUsed = args[k].value
    BY <2>1, <2>3, <2>4 DEF FileUsed
  <2> QED
    BY <1>2, <1>4, <1>6, <2>1, <2>5
<1> QED
  BY <1>4, <1>5, <1>6

\* When all has been said, the file has said what it says.
LEMMA SaysIs ==
  ASSUME run \in Invocations, NoneRepeated(Len(args)), AllUsable(Len(Story)), NEW key
  PROVE  Says(key) = SaidBy(Len(Story), key)
<1>1. CASE \E k \in 1 .. Len(Story) : Story[k].flag = "config"
  <2>1. PICK k \in 1 .. Len(Story) : Story[k].flag = "config"
    BY <1>1
  <2>2. FileUsed = Story[k].value /\ \A j \in 1 .. Len(Story) : Story[j].flag = "config" => j = k
    BY <2>1, OneFile
  <2>3. FileUsed \in DOMAIN Files
    BY <2>1, <2>2 DEF AllUsable, Unusable
  <2>4. Says(key) = IF key \in DOMAIN Files[FileUsed] THEN {Files[FileUsed][key]} ELSE {}
    BY <2>3 DEF Says
  <2>5. {j \in 1 .. Len(Story) : Story[j].flag = "config" /\ key \in DOMAIN Files[Story[j].value]}
          = IF key \in DOMAIN Files[FileUsed] THEN {k} ELSE {}
    BY <2>1, <2>2
  <2> QED
    BY <2>2, <2>4, <2>5 DEF SaidBy
<1>2. CASE \A k \in 1 .. Len(Story) : Story[k].flag # "config"
  <2>1. /\ Len(args) \in Nat /\ DOMAIN args = 1 .. Len(args)
        /\ First = IF DefaultFile = "none" THEN 0 ELSE 1
        /\ Len(Story) = First + Len(args)
        /\ \A j \in 1 .. Len(args) : Story[First + j] = args[j]
        /\ DefaultFile # "none" => Story[1] = [flag |-> "config", value |-> DefaultFile]
    BY StoryIs
  <2>2. DefaultFile = "none"
    BY <1>2, <2>1
  <2>3. ~Given("config")
    BY <1>2, <2>1, <2>2 DEF Given
  <2>4. FileUsed \notin DOMAIN Files
    BY <2>2, <2>3, ConfigurationAssumption DEF FileUsed
  <2>5. Says(key) = {}
    BY <2>4 DEF Says
  <2>6. SaidBy(Len(Story), key) = {}
    BY <1>2 DEF SaidBy
  <2> QED
    BY <2>5, <2>6
<1> QED
  BY <1>1, <1>2

-----------------------------------------------------------------------------
(***************************************************************************)
(* What an action does.                                                    *)
(***************************************************************************)
LEMMA ConfigKeys ==
  ASSUME NEW c, DOMAIN c = DOMAIN Default
  PROVE  {"enable", "disable", "fast", "severity", "exclude", "linters"} \subseteq DOMAIN c
  BY DEF Default

\* The value of a word for a linter, after the word e.
After(e, l, before) ==
  IF Word(e, l) = "on" THEN TRUE ELSE IF Word(e, l) = "off" THEN FALSE ELSE before

\* The actions of --enable, --disable and of those for all linters.
LEMMA EnableFlags ==
  ASSUME NEW c, IsConfig(c), NEW e, IsFlag(e), NEW l,
         e.flag \in {"enable", "disable", "enable-all", "disable-all"}
  PROVE  /\ Acted(c, e) = [c EXCEPT !.enable = Acted(c, e).enable]
         /\ Acted(c, e).enable \in Seq(STRING)
         /\ Range(Acted(c, e).enable) \subseteq
              Range(c.enable) \cup Builtin \cup (IF e.flag = "enable" THEN {e.value} ELSE {})
         /\ l \in Range(Acted(c, e).enable) <=> After(e, l, l \in Range(c.enable))
<1>1. "enable" \in DOMAIN c /\ c.enable \in Seq(STRING)
  BY ConfigKeys DEF IsConfig
<1>2. CASE e.flag = "enable"
  <2>1. Acted(c, e) = [c EXCEPT !.enable = Append(c.enable, e.value)] /\ e.value \in STRING
    BY <1>2 DEF Acted, IsFlag
  <2>2. Range(Append(c.enable, e.value)) = Range(c.enable) \cup {e.value}
    BY <1>1, <2>1, InRange
  <2>3. Word(e, l) = IF e.value = l THEN "on" ELSE "none"
    BY <1>2 DEF Word
  <2> QED
    BY <1>1, <1>2, <2>1, <2>2, <2>3 DEF After
<1>3. CASE e.flag = "disable"
  <2>1. Acted(c, e) = [c EXCEPT !.enable = Without(c.enable, e.value)]
    BY <1>3 DEF Acted
  <2>2. Without(c.enable, e.value) \in Seq(STRING)
        /\ Range(Without(c.enable, e.value)) = Range(c.enable) \ {e.value}
    BY <1>1, WithoutRange
  <2>3. Word(e, l) = IF e.value = l THEN "off" ELSE "none"
    BY <1>3 DEF Word
  <2> QED
    BY <1>1, <1>3, <2>1, <2>2, <2>3 DEF After
<1>4. CASE e.flag = "enable-all"
  <2>1. Acted(c, e) = [c EXCEPT !.enable = c.enable \o SetToSeq(Builtin)]
    BY <1>4 DEF Acted
  <2>2. SetToSeq(Builtin) \in Seq(Builtin) /\ Range(SetToSeq(Builtin)) = Builtin
        /\ Builtin \subseteq STRING
    BY SetToSeqRange, ConfigurationAssumption
  <2>3. SetToSeq(Builtin) \in Seq(STRING)
    <3> DEFINE q == SetToSeq(Builtin)
    <3>1. q \in [1 .. Len(q) -> Builtin] /\ Len(q) \in Nat
      BY <2>2
    <3> HIDE DEF q
    <3>3. \A k \in 1 .. Len(q) : q[k] \in STRING
      BY <2>2, <3>1
    <3>4. q = [k \in 1 .. Len(q) |-> q[k]]
      BY <3>1
    <3>2. q \in Seq(STRING)
      BY <3>1, <3>3, <3>4, IsASeq
    <3> QED
      BY <3>2 DEF q
  <2>4. c.enable \o SetToSeq(Builtin) \in Seq(STRING)
        /\ Range(c.enable \o SetToSeq(Builtin)) = Range(c.enable) \cup Builtin
    BY <1>1, <2>2, <2>3, RangeOfConcat, ConcatProperties
  <2>5. Word(e, l) = IF l \in Builtin THEN "on" ELSE "none"
    BY <1>4 DEF Word
  <2> QED
    BY <1>1, <1>4, <2>1, <2>4, <2>5 DEF After
<1>5. CASE e.flag = "disable-all"
  <2>1. Acted(c, e) = [c EXCEPT !.enable = <<>>]
    BY <1>5 DEF Acted
  <2>2. Word(e, l) = "off"
    BY <1>5 DEF Word
  <2>3. Range(<<>>) = {}
    BY DEF Range
  <2> QED
    BY <1>1, <1>5, <2>1, <2>2, <2>3 DEF After
<1> QED
  BY <1>2, <1>3, <1>4, <1>5

\* The action of --linter.
LEMMA LinterFlag ==
  ASSUME NEW c, IsConfig(c), NEW e, IsFlag(e), ~BadSpec(e), NEW l, e.flag = "linter"
  PROVE  /\ Acted(c, e) = [c EXCEPT !.linters = Acted(c, e).linters]
         /\ \A m \in DOMAIN Acted(c, e).linters : Acted(c, e).linters[m] \in Definitions
         /\ SetFor(Acted(c, e), l) = IF Defines(e, l) = {} THEN SetFor(c, l) ELSE Defines(e, l)
<1> DEFINE name == e.value.name
           new == [pattern |-> e.value.pattern, fast |-> name \in FastBuiltin]
           d == Acted(c, e)
<1>1. "linters" \in DOMAIN c /\ \A m \in DOMAIN c.linters : c.linters[m] \in Definitions
  BY ConfigKeys DEF IsConfig
<1>2. Override(e) = [x \in {name} |-> new]
  BY DEF Override
<1>3. d = [c EXCEPT !.linters = Updated(c.linters, Override(e))]
  BY DEF Acted
<1>4. d.linters = [x \in DOMAIN c.linters \cup {name} |-> IF x = name THEN new ELSE c.linters[x]]
  BY <1>1, <1>2, <1>3 DEF Updated
<1>5. new \in Definitions
  BY DEF Definitions, IsFlag
<1>6. Defines(e, l) = IF name = l THEN {new} ELSE {}
  BY DEF Defines
<1>7. d = [c EXCEPT !.linters = d.linters]
  BY <1>1, <1>3
<1> HIDE DEF d, new, name
<1>8. SetFor(d, l) = IF name = l THEN {new} ELSE SetFor(c, l)
  <2>1. CASE name = l
    BY <1>4, <2>1 DEF SetFor
  <2>2. CASE name # l
    BY <1>4, <2>2 DEF SetFor
  <2> QED
    BY <2>1, <2>2
<1> QED
  BY <1>1, <1>4, <1>5, <1>6, <1>7, <1>8 DEF d

\* A flag that is no --config, and has no action on the values that are set already.
LEMMA FlagActs ==
  ASSUME NEW c, IsConfig(c), NEW e, IsFlag(e), ~Unusable(e), NEW l, e.flag # "config"
  PROVE  /\ IsConfig(Acted(c, e))
         /\ Acted(c, e).disable = c.disable /\ Acted(c, e).fast = c.fast
         /\ Acted(c, e).exclude = c.exclude /\ Acted(c, e).severity = c.severity
         /\ Range(Acted(c, e).enable) \subseteq
              Range(c.enable) \cup Builtin \cup (IF e.flag = "enable" THEN {e.value} ELSE {})
         /\ l \in Range(Acted(c, e).enable) <=> After(e, l, l \in Range(c.enable))
         /\ SetFor(Acted(c, e), l) = IF Defines(e, l) = {} THEN SetFor(c, l) ELSE Defines(e, l)
<1> DEFINE d == Acted(c, e)
<1>1. {"enable", "disable", "fast", "severity", "exclude", "linters"} \subseteq DOMAIN c
  BY ConfigKeys DEF IsConfig
<1>2. CASE e.flag \in {"enable", "disable", "enable-all", "disable-all"}
  <2> DEFINE v == d.enable
  <2>1. d = [c EXCEPT !.enable = v] /\ v \in Seq(STRING)
        /\ Range(v) \subseteq
             Range(c.enable) \cup Builtin \cup (IF e.flag = "enable" THEN {e.value} ELSE {})
        /\ (l \in Range(v) <=> After(e, l, l \in Range(c.enable)))
    BY <1>2, EnableFlags
  <2>2. Defines(e, l) = {}
    BY <1>2 DEF Defines
  <2> HIDE DEF d, v
  <2>3. d.linters = c.linters /\ d.disable = c.disable /\ d.fast = c.fast /\ d.exclude = c.exclude
        /\ d.severity = c.severity /\ d.enable = v /\ DOMAIN d = DOMAIN c
    BY <1>1, <2>1
  <2> QED
    BY <2>1, <2>2, <2>3 DEF d, IsConfig, SetFor
<1>3. CASE e.flag = "linter"
  <2> DEFINE v == d.linters
  <2>1. d = [c EXCEPT !.linters = v] /\ (\A m \in DOMAIN v : v[m] \in Definitions)
        /\ SetFor(d, l) = IF Defines(e, l) = {} THEN SetFor(c, l) ELSE Defines(e, l)
    BY <1>3, LinterFlag DEF Unusable
  <2>2. Word(e, l) = "none"
    BY <1>3 DEF Word
  <2> HIDE DEF d, v
  <2>3. d.enable = c.enable /\ d.disable = c.disable /\ d.fast = c.fast /\ d.exclude = c.exclude
        /\ d.severity = c.severity /\ d.linters = v /\ DOMAIN d = DOMAIN c
    BY <1>1, <2>1
  <2> QED
    BY <2>1, <2>2, <2>3 DEF d, IsConfig, After
<1>4. CASE e.flag \notin {"enable", "disable", "enable-all", "disable-all", "linter"}
  <2>1. d = c /\ Word(e, l) = "none" /\ Defines(e, l) = {}
    BY <1>4 DEF Acted, Word, Defines
  <2> QED
    BY <2>1 DEF After
<1> QED
  BY <1>2, <1>3, <1>4

\* loadConfigFile.
LEMMA FileActs ==
  ASSUME NEW c, IsConfig(c), NEW e, e.flag = "config", ~Unusable(e), NEW l,
         NEW f, f = Files[e.value], NEW d, d = Acted(c, e)
  PROVE  /\ IsConfig(d)
         /\ d.disable = IF "Disable" \in DOMAIN f THEN f.Disable ELSE c.disable
         /\ d.fast = IF "Fast" \in DOMAIN f THEN f.Fast ELSE c.fast
         /\ d.exclude = IF "Exclude" \in DOMAIN f THEN f.Exclude ELSE c.exclude
         /\ d.severity = IF "Severity" \in DOMAIN f THEN Updated(c.severity, f.Severity)
                         ELSE c.severity
         /\ Range(d.enable) \subseteq Range(IF "Enable" \in DOMAIN f THEN f.Enable ELSE c.enable)
         /\ l \notin Range(d.disable) =>
              (l \in Range(d.enable) <=> After(e, l, l \in Range(c.enable)))
         /\ SetFor(d, l) = IF Defines(e, l) = {} THEN SetFor(c, l) ELSE Defines(e, l)
<1> DEFINE p == Decoded(c, f)
           xs == IF "Enable" \in DOMAIN f THEN f.Enable ELSE c.enable
           ys == IF "Disable" \in DOMAIN f THEN f.Disable ELSE c.disable
           zs == IF "Exclude" \in DOMAIN f THEN f.Exclude ELSE c.exclude
           ls == IF "Linters" \in DOMAIN f THEN Updated(c.linters, f.Linters) ELSE c.linters
           rest == FoldLeft(RemoveFirst, xs, ys)
<1>1. e.value \in DOMAIN Files
  BY DEF Unusable
<1>2. IsFile(f)
  BY <1>1, ConfigurationAssumption
<1>3. /\ {"enable", "disable", "fast", "severity", "exclude", "linters"} \subseteq DOMAIN c
      /\ c.enable \in Seq(STRING) /\ c.disable \in Seq(STRING) /\ c.exclude \in Seq(STRING)
      /\ \A m \in DOMAIN c.linters : c.linters[m] \in Definitions
  BY ConfigKeys DEF IsConfig
<1>4. xs \in Seq(STRING) /\ ys \in Seq(STRING) /\ zs \in Seq(STRING)
  BY <1>2, <1>3 DEF IsFile
<1>5. \A m \in DOMAIN ls : ls[m] \in Definitions
  BY <1>2, <1>3 DEF IsFile, Updated
<1>6. /\ DOMAIN p = DOMAIN c /\ p.enable = xs /\ p.disable = ys /\ p.exclude = zs /\ p.linters = ls
      /\ p.fast = IF "Fast" \in DOMAIN f THEN f.Fast ELSE c.fast
      /\ p.severity = IF "Severity" \in DOMAIN f THEN Updated(c.severity, f.Severity) ELSE c.severity
  BY <1>3 DEF Decoded
<1>7. d = [p EXCEPT !.enable = FoldLeft(RemoveFirst, p.enable, p.disable)]
  BY DEF Acted, Loaded
<1> HIDE DEF p, rest
<1>8. /\ DOMAIN d = DOMAIN c /\ d.enable = rest /\ d.disable = ys /\ d.exclude = zs /\ d.linters = ls
      /\ d.fast = IF "Fast" \in DOMAIN f THEN f.Fast ELSE c.fast
      /\ d.severity = IF "Severity" \in DOMAIN f THEN Updated(c.severity, f.Severity) ELSE c.severity
  <2>1. FoldLeft(RemoveFirst, p.enable, p.disable) = rest
    BY <1>6 DEF rest
  <2> QED
    BY <1>3, <1>6, <1>7, <2>1
<1> HIDE DEF xs, ys, zs, ls
<1>9. rest \in Seq(STRING) /\ Range(rest) \subseteq Range(xs) /\ Range(xs) \ Range(ys) \subseteq Range(rest)
  BY <1>4, RemovedAll DEF rest
<1>10. IsConfig(d)
  BY <1>4, <1>5, <1>8, <1>9 DEF IsConfig
<1>11. l \in Range(xs) <=> After(e, l, l \in Range(c.enable))
  <2>1. CASE "Enable" \in DOMAIN f
    <3>1. Word(e, l) = IF Contains(f.Enable, l) THEN "on" ELSE "off"
      BY <2>1 DEF Word
    <3>2. Contains(xs, l) <=> l \in Range(xs)
      BY <1>4, InRange
    <3> QED
      BY <2>1, <3>1, <3>2 DEF After, xs
  <2>2. CASE "Enable" \notin DOMAIN f
    <3>1. Word(e, l) = "none"
      BY <2>2 DEF Word
    <3> QED
      BY <2>2, <3>1 DEF After, xs
  <2> QED
    BY <2>1, <2>2
<1>12. SetFor(d, l) = IF Defines(e, l) = {} THEN SetFor(c, l) ELSE Defines(e, l)
  <2>1. CASE "Linters" \in DOMAIN f
    <3>1. Defines(e, l) = {f.Linters[m] : m \in {l} \cap DOMAIN f.Linters}
      BY <2>1 DEF Defines
    <3>2. ls = Updated(c.linters, f.Linters)
      BY <2>1 DEF ls
    <3>3. CASE l \in DOMAIN f.Linters
      <4>1. l \in DOMAIN ls /\ ls[l] = f.Linters[l]
        BY <3>2, <3>3 DEF Updated
      <4> QED
        BY <1>8, <3>1, <3>3, <4>1 DEF SetFor
    <3>4. CASE l \notin DOMAIN f.Linters
      <4>1. (l \in DOMAIN ls <=> l \in DOMAIN c.linters)
            /\ (l \in DOMAIN ls => ls[l] = c.linters[l])
        BY <3>2, <3>4 DEF Updated
      <4>2. Defines(e, l) = {}
        BY <3>1, <3>4
      <4>3. {ls[m] : m \in {l} \cap DOMAIN ls} = {c.linters[m] : m \in {l} \cap DOMAIN c.linters}
        BY <4>1
      <4> QED
        BY <1>8, <4>2, <4>3 DEF SetFor
    <3> QED
      BY <3>3, <3>4
  <2>2. CASE "Linters" \notin DOMAIN f
    <3>1. Defines(e, l) = {} /\ ls = c.linters
      BY <2>2 DEF Defines, ls
    <3> QED
      BY <1>8, <3>1 DEF SetFor
  <2> QED
    BY <2>1, <2>2
<1> QED
  BY <1>8, <1>9, <1>10, <1>11, <1>12 DEF xs, ys, zs

-----------------------------------------------------------------------------
(***************************************************************************)
(* The configuration says what has been said.                              *)
(***************************************************************************)
\* One flag more.
LEMMA HeardByFlag ==
  ASSUME NEW c, IsConfig(c), NEW n \in Nat, Heard(c, n), NEW e, e = Story[n + 1],
         e.flag # "config", IsFlag(e), ~Unusable(e), e.flag = "enable" => e.value \in Named
  PROVE  IsConfig(Acted(c, e)) /\ Heard(Acted(c, e), n + 1)
<1> DEFINE d == Acted(c, e)
<1>1. \A key : SaidBy(n + 1, key) = SaidBy(n, key)
  BY SaidStep
<1>2. ASSUME NEW l
      PROVE  /\ IsConfig(d) /\ d.disable = c.disable /\ d.fast = c.fast
             /\ d.exclude = c.exclude /\ d.severity = c.severity
             /\ Range(d.enable) \subseteq
                  Range(c.enable) \cup Builtin \cup (IF e.flag = "enable" THEN {e.value} ELSE {})
             /\ l \in Range(d.enable) <=> After(e, l, l \in Range(c.enable))
             /\ SetFor(d, l) = IF Defines(e, l) = {} THEN SetFor(c, l) ELSE Defines(e, l)
  BY FlagActs
<1> HIDE DEF d
<1>3. IsConfig(d) /\ d.disable = c.disable /\ d.fast = c.fast
      /\ d.exclude = c.exclude /\ d.severity = c.severity
  BY <1>2
<1>4. Range(d.enable) \subseteq Named
  BY <1>2 DEF Heard, ListsHeard, Named
<1>5. ASSUME NEW l \in Named \ Range(d.disable)
      PROVE  l \in Range(d.enable) <=> AskedBy(n + 1, l)
  <2>1. l \in Range(c.enable) <=> AskedBy(n, l)
    BY <1>3, <1>5 DEF Heard, ListsHeard
  <2>2. l \in Range(d.enable) <=> After(e, l, l \in Range(c.enable))
    BY <1>2
  <2>3. AskedBy(n + 1, l) = IF Word(e, l) = "none" THEN AskedBy(n, l) ELSE Word(e, l) = "on"
    BY AskedStep
  <2>4. Word(e, l) \in {"on", "off", "none"}
    BY DEF Word
  <2> QED
    BY <2>1, <2>2, <2>3, <2>4 DEF After
<1>6. ListsHeard(d, n + 1)
  BY <1>1, <1>3, <1>4, <1>5 DEF Heard, ListsHeard
<1>7. LintersHeard(d, n + 1)
  BY <1>2, DefinedStep DEF Heard, LintersHeard
<1>8. ValuesHeard(d, n + 1)
  BY <1>1, <1>3 DEF Heard, ValuesHeard, FastSet, ExcludeSet, SeveritySet
<1> QED
  BY <1>3, <1>6, <1>7, <1>8 DEF Heard, d

\* The file.
LEMMA HeardByFile ==
  ASSUME run \in Invocations, NoneRepeated(Len(args)),
         NEW c, IsConfig(c), NEW n \in Nat, n + 1 <= Len(Story), Heard(c, n),
         NEW e, e = Story[n + 1], e.flag = "config", ~Unusable(e)
  PROVE  IsConfig(Acted(c, e)) /\ Heard(Acted(c, e), n + 1)
<1> DEFINE f == Files[e.value]
           d == Acted(c, e)
<1>1. Len(Story) \in Nat
  BY StoryIs
<1>2. FileUsed = e.value /\ \A j \in 1 .. Len(Story) : Story[j].flag = "config" => j = n + 1
  BY <1>1, OneFile
<1>3. e.value \in DOMAIN Files
  BY DEF Unusable
<1>4. \A key : SaidBy(n, key) = {}
  <2>1. \A j \in 1 .. n : Story[j].flag # "config"
    BY <1>1, <1>2
  <2> QED
    BY <2>1 DEF SaidBy
<1>5. \A key : SaidBy(n + 1, key) = IF key \in DOMAIN f THEN {f[key]} ELSE {}
  BY <1>4, SaidStep
<1>6. "Enable" \in DOMAIN f => Range(f.Enable) \subseteq Named
  BY <1>2, <1>3 DEF Named, Says
<1>7. ASSUME NEW l
      PROVE  /\ IsConfig(d)
             /\ d.disable = IF "Disable" \in DOMAIN f THEN f.Disable ELSE c.disable
             /\ d.fast = IF "Fast" \in DOMAIN f THEN f.Fast ELSE c.fast
             /\ d.exclude = IF "Exclude" \in DOMAIN f THEN f.Exclude ELSE c.exclude
             /\ d.severity = IF "Severity" \in DOMAIN f THEN Updated(c.severity, f.Severity)
                             ELSE c.severity
             /\ Range(d.enable) \subseteq Range(IF "Enable" \in DOMAIN f THEN f.Enable ELSE c.enable)
             /\ l \notin Range(d.disable) =>
                  (l \in Range(d.enable) <=> After(e, l, l \in Range(c.enable)))
             /\ SetFor(d, l) = IF Defines(e, l) = {} THEN SetFor(c, l) ELSE Defines(e, l)
  <2>1. f = Files[e.value] /\ d = Acted(c, e)
    OBVIOUS
  <2> HIDE DEF d, f
  <2> QED
    BY <2>1, FileActs
<1> HIDE DEF d, f
<1>8. /\ IsConfig(d)
      /\ d.disable = IF "Disable" \in DOMAIN f THEN f.Disable ELSE c.disable
      /\ d.fast = IF "Fast" \in DOMAIN f THEN f.Fast ELSE c.fast
      /\ d.exclude = IF "Exclude" \in DOMAIN f THEN f.Exclude ELSE c.exclude
      /\ d.severity = IF "Severity" \in DOMAIN f THEN Updated(c.severity, f.Severity) ELSE c.severity
      /\ Range(d.enable) \subseteq Range(IF "Enable" \in DOMAIN f THEN f.Enable ELSE c.enable)
  BY <1>7
<1>9. c.disable = <<>> /\ Range(c.disable) = {}
  BY <1>4 DEF Heard, ListsHeard, Range
<1>10. Range(d.enable) \subseteq Named
  BY <1>6, <1>8 DEF Heard, ListsHeard
<1>11. ASSUME NEW l \in Named \ Range(d.disable)
       PROVE  l \in Range(d.enable) <=> AskedBy(n + 1, l)
  <2>1. l \in Range(c.enable) <=> AskedBy(n, l)
    BY <1>9 DEF Heard, ListsHeard
  <2>2. l \in Range(d.enable) <=> After(e, l, l \in Range(c.enable))
    BY <1>7
  <2>3. AskedBy(n + 1, l) = IF Word(e, l) = "none" THEN AskedBy(n, l) ELSE Word(e, l) = "on"
    BY AskedStep
  <2>4. Word(e, l) \in {"on", "off", "none"}
    BY DEF Word
  <2> QED
    BY <2>1, <2>2, <2>3, <2>4 DEF After
<1>12. ListsHeard(d, n + 1)
  BY <1>5, <1>8, <1>9, <1>10, <1>11 DEF ListsHeard
<1>13. LintersHeard(d, n + 1)
  BY <1>7, DefinedStep DEF Heard, LintersHeard
<1>14. ValuesHeard(d, n + 1)
  <2>1. FastSet(c, Len(args)) /\ ExcludeSet(c, Len(args))
        /\ \A l \in Builtin : SeveritySet(c, l, Len(args))
    BY <1>4 DEF Heard, ValuesHeard
  <2>2. IF SaidBy(n + 1, "Fast") # {} THEN d.fast \in SaidBy(n + 1, "Fast")
        ELSE FastSet(d, Len(args))
    BY <1>5, <1>8, <2>1 DEF FastSet
  <2>3. IF SaidBy(n + 1, "Exclude") # {} THEN d.exclude \in SaidBy(n + 1, "Exclude")
        ELSE ExcludeSet(d, Len(args))
    BY <1>5, <1>8, <2>1 DEF ExcludeSet
  <2>4. ASSUME NEW l \in Builtin
        PROVE  IF \E s \in SaidBy(n + 1, "Severity") : l \in DOMAIN s
               THEN l \in DOMAIN d.severity
                    /\ \E s \in SaidBy(n + 1, "Severity") : d.severity[l] = s[l]
               ELSE SeveritySet(d, l, Len(args))
    <3>1. CASE "Severity" \in DOMAIN f /\ l \in DOMAIN f.Severity
      BY <1>5, <1>8, <3>1 DEF Updated
    <3>2. CASE ~("Severity" \in DOMAIN f /\ l \in DOMAIN f.Severity)
      <4>1. (l \in DOMAIN d.severity <=> l \in DOMAIN c.severity)
            /\ (l \in DOMAIN c.severity => d.severity[l] = c.severity[l])
        BY <1>8, <3>2 DEF Updated
      <4>2. SeveritySet(d, l, Len(args))
        BY <2>1, <4>1 DEF SeveritySet
      <4> QED
        BY <1>5, <3>2, <4>2
    <3> QED
      BY <3>1, <3>2
  <2> QED
    BY <2>2, <2>3, <2>4 DEF ValuesHeard
<1> QED
  BY <1>8, <1>12, <1>13, <1>14 DEF Heard, d

-----------------------------------------------------------------------------
(***************************************************************************)
(* The values of the flags.                                                *)
(***************************************************************************)
\* One element more.
LEMMA OneElement ==
  ASSUME NEW S
  PROVE  /\ \A x \in S : <<x>> \in Seq(S)
         /\ \A s \in Seq(S) : \A x \in S : s \o <<x>> = Append(s, x)
  BY AppendIsConcat

\* The values of --exclude, with one flag more.
LEMMA ExcludeStep ==
  ASSUME run \in Invocations, NEW n \in Nat, n + 1 <= Len(args)
  PROVE  ExcludeFlags(n + 1) =
           IF args[n + 1].flag = "exclude" THEN Append(ExcludeFlags(n), args[n + 1].value)
           ELSE ExcludeFlags(n)
<1> DEFINE w(k) == IF args[k].flag = "exclude" THEN <<args[k].value>> ELSE <<>>
           ss == [k \in 1 .. n |-> w(k)]
           ts == [k \in 1 .. n + 1 |-> w(k)]
           S == Seq(STRING)
<1>1. /\ Len(args) \in Nat /\ DOMAIN args = 1 .. Len(args)
      /\ \A k \in 1 .. Len(args) : IsFlag(args[k])
  BY StoryIs
<1>2. \A k \in 1 .. n + 1 : args[k].flag = "exclude" => args[k].value \in STRING
  BY <1>1 DEF IsFlag
<1>20. \A x \in STRING : <<x>> \in S
  BY OneElement
<1>21. <<>> \in S
  OBVIOUS
<1>3. \A k \in 1 .. n + 1 : w(k) \in S
  <2> HIDE DEF S
  <2> QED
    BY <1>2, <1>20, <1>21
<1> HIDE DEF w
<1>4. ss \in Seq(S) /\ Len(ss) = n /\ \A k \in 1 .. n : ss[k] = w(k)
  <2> HIDE DEF S
  <2>1. ss \in [1 .. n -> S]
    BY <1>3
  <2> QED
    BY <2>1
<1>5. w(n + 1) \in S
  BY <1>3
<1>6. ts = Append(ss, w(n + 1))
  <2> HIDE DEF S
  <2> DEFINE as == Append(ss, w(n + 1))
  <2>1. as \in Seq(S) /\ Len(as) = n + 1 /\ as[n + 1] = w(n + 1)
        /\ \A k \in 1 .. n : as[k] = w(k)
    BY <1>4, <1>5
  <2>2. as = [k \in 1 .. n + 1 |-> as[k]]
    <3> HIDE DEF as
    <3> QED
      BY <2>1, LenProperties
  <2>3. \A k \in 1 .. n + 1 : as[k] = w(k)
    BY <2>1
  <2> HIDE DEF as
  <2>4. as = ts
    BY <2>2, <2>3
  <2> QED
    BY <2>4 DEF as
<1> HIDE DEF ss, ts
<1>7. FlattenSeq(ts) = FlattenSeq(ss) \o w(n + 1) /\ FlattenSeq(ss) \in S
  BY <1>4, <1>5, <1>6, FlattenAppend, FlattenType
<1>8. ExcludeFlags(n) = FlattenSeq(ss) /\ ExcludeFlags(n + 1) = FlattenSeq(ts)
  BY Zenon DEF ExcludeFlags, ss, ts, w
<1>9. CASE args[n + 1].flag = "exclude"
  <2>1. w(n + 1) = <<args[n + 1].value>> /\ args[n + 1].value \in STRING
    BY <1>2, <1>9 DEF w
  <2>2. \A s \in S : \A x \in STRING : s \o <<x>> = Append(s, x)
    BY OneElement
  <2> HIDE DEF S
  <2> QED
    BY <1>7, <1>8, <1>9, <2>1, <2>2
<1>10. CASE args[n + 1].flag # "exclude"
  <2>1. w(n + 1) = <<>>
    BY <1>10 DEF w
  <2>2. FlattenSeq(ss) \o <<>> = FlattenSeq(ss)
    BY <1>7, ConcatEmptySeq
  <2> QED
    BY <1>7, <1>8, <1>10, <2>1, <2>2
<1> QED
  BY <1>9, <1>10

\* Before the first flag.
LEMMA NoFlag ==
  ExcludeFlags(0) = <<>>
<1> DEFINE w(k) == IF args[k].flag = "exclude" THEN <<args[k].value>> ELSE <<>>
           ss == [k \in 1 .. 0 |-> w(k)]
<1>1. ss = <<>>
  <2> HIDE DEF w
  <2>1. 1 .. 0 = {}
    OBVIOUS
  <2> QED
    BY <2>1
<1>2. ExcludeFlags(0) = FlattenSeq(ss)
  BY Zenon DEF ExcludeFlags
<1> HIDE DEF ss
<1> QED
  BY <1>1, <1>2, FlattenNothing

\* The severity that the flags set, with one flag more.
LEMMA SeverityStep ==
  ASSUME NEW c, "severity" \in DOMAIN c, NEW n \in Nat, NEW l, SeveritySet(c, l, n)
  PROVE  SeveritySet(Assigned(c, args[n + 1]), l, n + 1)
<1> DEFINE e == args[n + 1]
           d == Assigned(c, e)
           F(m) == {k \in 1 .. m : args[k].flag = "severity" /\ l \in DOMAIN args[k].value}
<1>1. SeveritySet(c, l, n) =
        IF F(n) = {} THEN l \in DOMAIN c.severity <=> l \in DefaultErr /\ ~Given("severity")
        ELSE /\ l \in DOMAIN c.severity
             /\ \E k \in F(n) : (\A j \in F(n) : j <= k) /\ c.severity[l] = args[k].value[l]
  BY Zenon DEF SeveritySet
<1>2. CASE e.flag = "severity" /\ l \in DOMAIN e.value
  <2>1. d.severity = Updated(c.severity, e.value)
    BY <1>2 DEF Assigned
  <2>2. l \in DOMAIN d.severity /\ d.severity[l] = e.value[l]
    BY <1>2, <2>1 DEF Updated
  <2>3. n + 1 \in F(n + 1) /\ \A j \in F(n + 1) : j <= n + 1
    BY <1>2
  <2> HIDE DEF d
  <2>4. F(n + 1) # {}
    BY <2>3
  <2>5. \E k \in F(n + 1) : (\A j \in F(n + 1) : j <= k) /\ d.severity[l] = args[k].value[l]
    <3> HIDE DEF F
    <3> QED
      BY <2>2, <2>3 DEF e
  <2> QED
    BY <2>2, <2>4, <2>5, Zenon DEF SeveritySet, d
<1>3. CASE ~(e.flag = "severity" /\ l \in DOMAIN e.value)
  <2>1. F(n + 1) = F(n)
    BY <1>3
  <2>2. (l \in DOMAIN d.severity <=> l \in DOMAIN c.severity)
        /\ (l \in DOMAIN c.severity => d.severity[l] = c.severity[l])
    <3>1. CASE e.flag = "severity"
      <4>1. d.severity = Updated(c.severity, e.value) /\ l \notin DOMAIN e.value
        BY <1>3, <3>1 DEF Assigned
      <4> QED
        BY <4>1 DEF Updated
    <3>2. CASE e.flag # "severity"
      <4>1. d.severity = c.severity
        BY <3>2 DEF Assigned
      <4> QED
        BY <4>1
    <3> QED
      BY <3>1, <3>2
  <2>3. SeveritySet(d, l, n + 1) =
          IF F(n + 1) = {} THEN l \in DOMAIN d.severity <=> l \in DefaultErr /\ ~Given("severity")
          ELSE /\ l \in DOMAIN d.severity
               /\ \E k \in F(n + 1) :
                    (\A j \in F(n + 1) : j <= k) /\ d.severity[l] = args[k].value[l]
    BY Zenon DEF SeveritySet
  <2> HIDE DEF d, F
  <2>4. SeveritySet(d, l, n + 1)
    BY <1>1, <2>1, <2>2, <2>3
  <2> QED
    BY <2>4 DEF d
<1> QED
  BY <1>2, <1>3

-----------------------------------------------------------------------------
(***************************************************************************)
(* The steps of reading the command line and the files.                    *)
(***************************************************************************)
\* What has been said does not change while it is acted upon.
LEMMA Stays ==
  ASSUME run' = run
  PROVE  /\ IsSet(config, next - 1)' <=> IsSet(config', next' - 1)
         /\ IsHeard(config, First + next - 1)' <=> IsHeard(config', First + next' - 1)
         /\ IsHeard(config, Len(Story))' <=> IsHeard(config', Len(Story))
<1>1. args' = args
  BY DEF args
<1>2. Story' = Story
  BY DEF Story, DefaultFile, Found, SearchesDefault, Given, args, SelectInSeq
<1>3. Named' = Named
  BY DEF Named, Says, FileUsed, DefaultFile, Found, SearchesDefault, Given, args, SelectInSeq
<1>4. First' = First
  BY <1>1, <1>2 DEF First
<1>5. (Given("severity"))' = Given("severity")
  BY <1>1 DEF Given
<1>6. \A m : ExcludeFlags(m)' = ExcludeFlags(m)
  BY <1>1 DEF ExcludeFlags
<1>7. \A m : NoneRepeated(m)' = NoneRepeated(m)
  BY <1>1 DEF NoneRepeated, Repeated
<1>8. \A n : AllUsable(n)' = AllUsable(n)
  BY <1>2 DEF AllUsable
<1>9. \A n, key : SaidBy(n, key)' = SaidBy(n, key)
  BY <1>2 DEF SaidBy
<1>10. \A n, l : AskedBy(n, l)' = AskedBy(n, l)
  BY <1>2 DEF AskedBy
<1>11. \A n, l : DefinedBy(n, l)' = DefinedBy(n, l)
  BY <1>2 DEF DefinedBy
<1>12. IsSet(config, next - 1)' <=> IsSet(config', next' - 1)
  BY <1>1, <1>5, <1>6, <1>7 DEF IsSet, Unheard, FastSet, ExcludeSet, SeveritySet
<1>13. IsHeard(config, First + next - 1)' <=> IsHeard(config', First + next' - 1)
  BY <1>1, <1>2, <1>3, <1>4, <1>5, <1>6, <1>7, <1>8, <1>9, <1>10, <1>11
  DEF IsHeard, Heard, ListsHeard, LintersHeard, ValuesHeard, FastSet, ExcludeSet, SeveritySet
<1>14. IsHeard(config, Len(Story))' <=> IsHeard(config', Len(Story))
  BY <1>1, <1>2, <1>3, <1>4, <1>5, <1>6, <1>7, <1>8, <1>9, <1>10, <1>11
  DEF IsHeard, Heard, ListsHeard, LintersHeard, ValuesHeard, FastSet, ExcludeSet, SeveritySet
<1> QED
  BY <1>12, <1>13, <1>14

\* Setting the value of one flag.
LEMMA SetStep ==
  ASSUME run \in Invocations, NEW c, IsConfig(c), NEW n \in Nat, n + 1 <= Len(args),
         IsSet(c, n), ~Repeated(n + 1), NEW e, e = args[n + 1], NEW d, d = Assigned(c, e)
  PROVE  IsConfig(d) /\ IsSet(d, n + 1)
<1>1. /\ {"enable", "disable", "fast", "severity", "exclude", "linters",
          "install", "vendored"} \subseteq DOMAIN c
      /\ c.enable \in Seq(STRING) /\ c.disable \in Seq(STRING) /\ c.exclude \in Seq(STRING)
      /\ \A l \in DOMAIN c.linters : c.linters[l] \in Definitions
  BY DEF IsConfig, Default
<1>2. IsFlag(e) /\ Len(args) \in Nat
  BY StoryIs
<1>3. /\ DOMAIN d = DOMAIN c /\ d.enable = c.enable /\ d.disable = c.disable
      /\ d.linters = c.linters
      /\ d.fast = IF e.flag = "fast" THEN e.value ELSE c.fast
      /\ d.exclude = IF e.flag = "exclude" THEN Append(c.exclude, e.value) ELSE c.exclude
  <2>1. CASE e.flag \in {"fast", "severity", "exclude", "install", "vendored-linters"}
    BY <1>1, <2>1 DEF Assigned
  <2>2. CASE e.flag \notin {"fast", "severity", "exclude", "install", "vendored-linters"}
    BY <2>2 DEF Assigned
  <2> QED
    BY <2>1, <2>2
<1>4. d.exclude \in Seq(STRING)
  <2> DEFINE Texts == STRING
  <2>1. c.exclude \in Seq(Texts) /\ (e.flag = "exclude" => e.value \in Texts)
    BY <1>1, <1>2 DEF IsFlag
  <2> HIDE DEF Texts
  <2>2. d.exclude \in Seq(Texts)
    BY <1>3, <2>1
  <2> QED
    BY <2>2 DEF Texts
<1>5. IsConfig(d)
  BY <1>1, <1>3, <1>4 DEF IsConfig
<1>6. Unheard(d) /\ NoneRepeated(n + 1)
  <2>1. \A k \in 1 .. n + 1 : k \in 1 .. n \/ k = n + 1
    OBVIOUS
  <2> QED
    BY <1>3, <2>1 DEF IsSet, Unheard, NoneRepeated
<1>7. FastSet(d, n + 1)
  <2>1. CASE e.flag = "fast"
    <3>1. \A k \in 1 .. n : args[k].flag # "fast"
      BY <2>1 DEF Repeated, Cumulative
    <3>2. \A k \in 1 .. n + 1 : k \in 1 .. n \/ k = n + 1
      OBVIOUS
    <3> QED
      BY <1>3, <2>1, <3>1, <3>2 DEF FastSet
  <2>2. CASE e.flag # "fast"
    <3>1. \A k \in 1 .. n + 1 : k \in 1 .. n \/ k = n + 1
      OBVIOUS
    <3> QED
      BY <1>3, <2>2, <3>1 DEF IsSet, FastSet
  <2> QED
    BY <2>1, <2>2
<1>8. ExcludeSet(d, n + 1)
  BY <1>3, ExcludeStep DEF IsSet, ExcludeSet
<1>9. \A l \in Builtin : SeveritySet(d, l, n + 1)
  BY <1>1, SeverityStep DEF IsSet
<1> QED
  BY <1>5, <1>6, <1>7, <1>8, <1>9 DEF IsSet

\* When the values are set, nothing has been said.
LEMMA HeardFirst ==
  ASSUME NEW c, IsSet(c, Len(args))
  PROVE  IsHeard(c, 0)
<1>1. IsFiniteSet(DefaultOn) /\ DefaultOn \subseteq Builtin
  BY ConfigurationAssumption, FS_Subset
<1>2. Range(c.enable) = DefaultOn
  <2>1. c.enable = SetToSeq(DefaultOn)
    BY DEF IsSet, Unheard, Default
  <2> QED
    BY <1>1, <2>1, SetToSeqRange
<1>3. c.disable = <<>> /\ c.linters = <<>>
  BY DEF IsSet, Unheard
<1>4. ListsHeard(c, 0)
  BY <1>1, <1>2, <1>3, NothingSaid DEF ListsHeard, Named
<1>5. LintersHeard(c, 0)
  BY <1>3, NothingSaid DEF LintersHeard, SetFor
<1>6. ValuesHeard(c, 0)
  BY NothingSaid DEF ValuesHeard, IsSet
<1> QED
  BY <1>4, <1>5, <1>6 DEF IsHeard, Heard, IsSet, AllUsable

\* One word more.
LEMMA HeardNext ==
  ASSUME run \in Invocations, NEW c, IsConfig(c), NEW n \in Nat, n + 1 <= Len(Story),
         IsHeard(c, n), NEW e, e = Story[n + 1], ~Unusable(e)
  PROVE  IsConfig(Acted(c, e)) /\ IsHeard(Acted(c, e), n + 1)
<1>1. /\ Len(args) \in Nat /\ DOMAIN args = 1 .. Len(args)
      /\ First = IF DefaultFile = "none" THEN 0 ELSE 1
      /\ Len(Story) = First + Len(args)
      /\ \A k \in 1 .. Len(args) : Story[First + k] = args[k] /\ IsFlag(args[k])
      /\ DefaultFile # "none" => Story[1] = [flag |-> "config", value |-> DefaultFile]
  BY StoryIs
<1>2. AllUsable(n + 1)
  BY DEF IsHeard, AllUsable
<1>3. CASE e.flag = "config"
  <2>1. IsConfig(Acted(c, e)) /\ Heard(Acted(c, e), n + 1)
    BY <1>3, HeardByFile DEF IsHeard
  <2> QED
    BY <1>2, <2>1 DEF IsHeard
<1>4. CASE e.flag # "config"
  <2>1. n + 1 - First \in 1 .. Len(args) /\ e = args[n + 1 - First]
    <3>1. n + 1 - First \in 1 .. Len(args)
      BY <1>1, <1>4
    <3> QED
      BY <1>1, <3>1
  <2>2. IsFlag(e) /\ (e.flag = "enable" => e.value \in Named)
    BY <1>1, <2>1 DEF Named
  <2>3. IsConfig(Acted(c, e)) /\ Heard(Acted(c, e), n + 1)
    BY <1>4, <2>2, HeardByFlag DEF IsHeard
  <2> QED
    BY <1>2, <2>3 DEF IsHeard
<1> QED
  BY <1>3, <1>4

\* The values of the flags replace the defaults.
LEMMA ClearedIsSet ==
  IsConfig(Default) /\ IsConfig(Cleared(Default)) /\ IsSet(Cleared(Default), 0)
<1> DEFINE d == Cleared(Default)
<1>1. IsFiniteSet(DefaultOn) /\ DefaultOn \subseteq Builtin /\ Builtin \subseteq STRING
  BY ConfigurationAssumption, FS_Subset
<1>2. SetToSeq(DefaultOn) \in Seq(DefaultOn)
  BY <1>1, SetToSeqRange
<1>3. SetToSeq(DefaultOn) \in Seq(STRING)
  <2> DEFINE q == SetToSeq(DefaultOn)
  <2>1. q \in [1 .. Len(q) -> DefaultOn] /\ Len(q) \in Nat
    BY <1>2
  <2> HIDE DEF q
  <2>2. \A k \in 1 .. Len(q) : q[k] \in STRING
    BY <1>1, <2>1
  <2>3. q = [k \in 1 .. Len(q) |-> q[k]]
    BY <2>1
  <2>4. q \in Seq(STRING)
    BY <2>1, <2>2, <2>3, IsASeq
  <2> QED
    BY <2>4 DEF q
<1>4. IsConfig(Default)
  BY <1>3 DEF IsConfig, Default
<1>5. /\ DOMAIN d = DOMAIN Default /\ d.enable = Default.enable /\ d.disable = <<>>
      /\ d.linters = <<>> /\ d.exclude = <<>>
      /\ d.severity = IF Given("severity") THEN <<>> ELSE [l \in DefaultErr |-> "error"]
  BY DEF Cleared, Default
<1>6. IsConfig(d)
  BY <1>4, <1>5 DEF IsConfig
<1>7. 1 .. 0 = {}
  OBVIOUS
<1>8. Unheard(d) /\ NoneRepeated(0) /\ FastSet(d, 0) /\ ExcludeSet(d, 0)
  BY <1>5, <1>7, NoFlag DEF Unheard, NoneRepeated, FastSet, ExcludeSet
<1>9. \A l : l \in DOMAIN d.severity <=> l \in DefaultErr /\ ~Given("severity")
  BY <1>5
<1> HIDE DEF d
<1>10. \A l \in Builtin : SeveritySet(d, l, 0)
  BY <1>7, <1>9 DEF SeveritySet
<1> QED
  BY <1>4, <1>6, <1>8, <1>10 DEF IsSet, d

\* Every step of kingpin.Parse keeps what is known of the configuration.
LEMMA ParseKeeps ==
  ASSUME ReadInv, Parse, DOMAIN linters' = {}
  PROVE  ReadInv'
<1>1. /\ run \in Invocations /\ next \in 1 .. Len(args) + 1 /\ IsConfig(config)
      /\ at = "start" => config = Default
      /\ at = "setting" => IsSet(config, next - 1)
      /\ at = "acting" => IsHeard(config, First + next - 1)
  BY DEF ReadInv
<1>2. run' = run
  BY DEF Parse, Reset, SetValue, LoadDefaultConfig, Act, ParseEnds
<1>3. args' = args
  BY <1>2 DEF args
<1>4. /\ IsSet(config, next - 1)' <=> IsSet(config', next' - 1)
      /\ IsHeard(config, First + next - 1)' <=> IsHeard(config', First + next' - 1)
      /\ IsHeard(config, Len(Story))' <=> IsHeard(config', Len(Story))
  BY <1>2, Stays
<1>5. IsConfig(config)' = IsConfig(config')
  BY DEF IsConfig
<1>6. /\ Len(args) \in Nat /\ DOMAIN args = 1 .. Len(args)
      /\ First = IF DefaultFile = "none" THEN 0 ELSE 1
      /\ Len(Story) = First + Len(args)
      /\ \A k \in 1 .. Len(args) : Story[First + k] = args[k] /\ IsFlag(args[k])
      /\ DefaultFile # "none" => Story[1] = [flag |-> "config", value |-> DefaultFile]
  BY <1>1, StoryIs
<1>7. SUFFICES /\ IsConfig(config') /\ next' \in 1 .. Len(args) + 1
               /\ \/ at' = "fatal"
                  \/ at' = "setting" /\ IsSet(config', next' - 1)
                  \/ at' = "acting" /\ IsHeard(config', First + next' - 1)
                  \/ at' = "parsed" /\ IsHeard(config', Len(Story))
  BY <1>1, <1>2, <1>3, <1>4, <1>5 DEF ReadInv, IsRead, Installing, Choosing
<1>8. CASE Reset
  BY <1>1, <1>6, <1>8, ClearedIsSet DEF Reset
<1>9. CASE SetValue
  <2> DEFINE n == next - 1
  <2>1. n \in Nat /\ n + 1 = next /\ n + 1 <= Len(args) /\ IsSet(config, n) /\ next' = next + 1
    BY <1>1, <1>6, <1>9 DEF SetValue
  <2>2. CASE Repeated(next)
    BY <1>1, <1>6, <1>9, <2>1, <2>2 DEF SetValue
  <2>3. CASE ~Repeated(next)
    <3>1. config' = Assigned(config, args[n + 1]) /\ at' = "setting"
      BY <1>9, <2>1, <2>3 DEF SetValue
    <3>2. IsConfig(config') /\ IsSet(config', n + 1)
      <4> HIDE DEF n
      <4> QED
        BY <1>1, <2>1, <2>3, <3>1, SetStep
    <3> QED
      BY <1>1, <1>6, <2>1, <3>1, <3>2
  <2> QED
    BY <2>2, <2>3
<1>10. CASE LoadDefaultConfig
  <2>1. next - 1 = Len(args) /\ at = "setting" /\ next' = 1
    BY <1>1, <1>6, <1>10 DEF LoadDefaultConfig
  <2>2. IsHeard(config, 0)
    BY <1>1, <2>1, HeardFirst
  <2>3. CASE DefaultFile = "none"
    <3>1. at' = "acting" /\ config' = config
      BY <1>10, <2>3, ConfigurationAssumption DEF LoadDefaultConfig
    <3>2. First + next' - 1 = 0 /\ next' \in 1 .. Len(args) + 1
      BY <1>6, <2>1, <2>3
    <3> QED
      BY <1>1, <2>2, <3>1, <3>2
  <2>4. CASE DefaultFile # "none" /\ DefaultFile \in DOMAIN Files
    <3> DEFINE e == Story[1]
    <3>1. e.flag = "config" /\ e.value = DefaultFile
      BY <1>6, <2>4
    <3>2. ~Unusable(e) /\ Acted(config, e) = Loaded(config, DefaultFile)
      BY <2>4, <3>1 DEF Unusable, BadSpec, Acted
    <3>3. config' = Acted(config, e) /\ at' = "acting"
      BY <1>10, <2>4, <3>2 DEF LoadDefaultConfig
    <3>4. IsConfig(config') /\ IsHeard(config', 1)
      <4>1. 0 + 1 <= Len(Story) /\ e = Story[0 + 1]
        BY <1>6, <2>4
      <4> HIDE DEF e
      <4>2. IsConfig(config') /\ IsHeard(config', 0 + 1)
        BY <1>1, <2>2, <3>2, <3>3, <4>1, HeardNext
      <4> QED
        BY <4>2
    <3> QED
      BY <1>6, <2>1, <2>4, <3>3, <3>4
  <2>5. CASE DefaultFile # "none" /\ DefaultFile \notin DOMAIN Files
    BY <1>1, <1>6, <1>10, <2>1, <2>5 DEF LoadDefaultConfig
  <2> QED
    BY <2>3, <2>4, <2>5
<1>11. CASE Act
  <2> DEFINE n == First + next - 1
             e == args[next]
  <2>1. n \in Nat /\ n + 1 = First + next /\ n + 1 <= Len(Story) /\ next' = next + 1
        /\ IsHeard(config, n) /\ next \in 1 .. Len(args)
    BY <1>1, <1>6, <1>11 DEF Act
  <2>2. CASE Unusable(e)
    BY <1>1, <1>6, <1>11, <2>1, <2>2 DEF Act
  <2>3. CASE ~Unusable(e)
    <3>1. config' = Acted(config, e) /\ at' = "acting"
      BY <1>11, <2>3 DEF Act
    <3>2. e = Story[n + 1]
      BY <1>6, <2>1
    <3>3. IsConfig(config') /\ IsHeard(config', n + 1)
      <4> HIDE DEF n, e
      <4> QED
        BY <1>1, <2>1, <2>3, <3>1, <3>2, HeardNext
    <3> QED
      BY <1>6, <2>1, <3>1, <3>3
  <2> QED
    BY <2>2, <2>3
<1>12. CASE ParseEnds
  BY <1>1, <1>6, <1>12 DEF ParseEnds
<1> QED
  BY <1>8, <1>9, <1>10, <1>11, <1>12 DEF Parse

\* The other steps leave the configuration as it was read.
LEMMA OthersKeep ==
  ASSUME ReadInv, IsRead, UNCHANGED <<run, config, next>>,
         at' \in {"parsed", "fatal", "panic"} \cup Installing \cup Choosing
  PROVE  ReadInv'
<1>1. args' = args
  BY DEF args
<1>2. IsHeard(config, Len(Story))' <=> IsHeard(config', Len(Story))
  BY Stays
<1>3. IsConfig(config)' = IsConfig(config')
  BY DEF IsConfig
<1> QED
  BY <1>1, <1>2, <1>3 DEF ReadInv, Installing, Choosing

-----------------------------------------------------------------------------
(***************************************************************************)
(* The choice of the linters.                                              *)
(***************************************************************************)
\* Every step keeps what is known of the choice.
LEMMA ChoiceInductive ==
  ASSUME ChoiceInv, [Next]_vars
  PROVE  ChoiceInv'
<1>1. DOMAIN <<>> = {}
  OBVIOUS
<1>2. CASE at \in {"start", "setting", "acting"} /\ Parse /\ UNCHANGED linters
  BY <1>1, <1>2 DEF ChoiceInv, Parse, Reset, SetValue, LoadDefaultConfig, Act, ParseEnds
<1>3. CASE /\ at \in {"parsed", "configured"} \cup Installing /\ UNCHANGED linters
           /\ at' \in {"parsed", "configured", "processed", "fatal", "panic"} \cup Installing
  BY <1>1, <1>3 DEF ChoiceInv, Installing
<1>4. CASE LintersFromConfig
  <2>1. at = "processed" /\ linters = <<>> /\ UNCHANGED config
    BY <1>4 DEF LintersFromConfig, ChoiceInv
  <2>2. CASE at' = "panic" /\ UNCHANGED linters
    BY <1>1, <2>1, <2>2 DEF ChoiceInv
  <2>3. CASE at' = "chosen" /\ linters' = [l \in Chosen(Range(config.enable)) |-> Setting(l)]
    <3>1. (Chosen(Range(config.enable)))' = Chosen(Range(config.enable))
      BY <2>1 DEF Chosen, Setting
    <3>2. \A l : Setting(l)' = Setting(l)
      BY <2>1 DEF Setting
    <3>3. (linters = [l \in Chosen(Range(config.enable)) |-> Setting(l)])'
      BY <2>3, <3>1, <3>2
    <3> QED
      BY <2>3, <3>3 DEF ChoiceInv
  <2> QED
    BY <1>4, <2>2, <2>3 DEF LintersFromConfig
<1>5. CASE ValidateLinters
  <2>1. (Chosen(Range(config.enable)))' = Chosen(Range(config.enable))
    BY <1>5 DEF ValidateLinters, Chosen, Setting
  <2>2. \A l : Setting(l)' = Setting(l)
    BY <1>5 DEF ValidateLinters, Setting
  <2>3. IsBad' = IsBad
    BY <1>5 DEF ValidateLinters, IsBad, Unknown
  <2> QED
    BY <1>5, <2>1, <2>2, <2>3 DEF ValidateLinters, ChoiceInv, IsBad
<1>6. CASE UNCHANGED vars
  <2>1. (Chosen(Range(config.enable)))' = Chosen(Range(config.enable))
    BY <1>6 DEF Chosen, Setting, vars
  <2>2. \A l : Setting(l)' = Setting(l)
    BY <1>6 DEF Setting, vars
  <2>3. IsBad' = IsBad
    BY <1>6 DEF IsBad, Unknown, vars
  <2> QED
    BY <1>6, <2>1, <2>2, <2>3 DEF ChoiceInv, vars
<1>7. CASE Next
  <2>1. CASE Parse /\ UNCHANGED <<env, installVars, linters>>
    BY <1>2, <2>1 DEF Parse, Reset, SetValue, LoadDefaultConfig, Act, ParseEnds
  <2>2. CASE PrepareInstall
    BY <1>3, <2>2 DEF PrepareInstall, Installing
  <2>3. ASSUME NEW some \in SUBSET Builtin, NEW ok \in BOOLEAN, InstallTogether(some, ok)
        PROVE  ChoiceInv'
    BY <1>3, <2>3 DEF InstallTogether, Installing
  <2>4. ASSUME NEW l \in Builtin, NEW ok \in BOOLEAN, InstallOne(l, ok)
        PROVE  ChoiceInv'
    BY <1>3, <2>4 DEF InstallOne, Installing
  <2>5. CASE InstallEnds \/ ConfigureEnvironment \/ ProcessConfig
    BY <1>3, <2>5 DEF InstallEnds, ConfigureEnvironment, ProcessConfig, Installing
  <2>7. CASE Ended /\ UNCHANGED vars
    BY <1>6, <2>7
  <2> QED
    BY <1>4, <1>5, <1>7, <2>1, <2>2, <2>3, <2>4, <2>5, <2>7 DEF Next
<1> QED
  BY <1>6, <1>7

\* Every step keeps the invariant.
LEMMA StartupInductive ==
  ASSUME Inv, [Next]_vars
  PROVE  Inv'
<1>1. ReadInv /\ ChoiceInv /\ ChoiceInv'
  BY ChoiceInductive DEF Inv
<1>2. CASE Parse /\ UNCHANGED linters
  <2>1. at \in {"start", "setting", "acting"}
    BY <1>2 DEF Parse, Reset, SetValue, LoadDefaultConfig, Act, ParseEnds
  <2>2. DOMAIN linters' = {}
    BY <1>1, <1>2, <2>1 DEF ChoiceInv
  <2> QED
    BY <1>1, <1>2, <2>2, ParseKeeps DEF Inv
<1>3. CASE /\ at \in {"parsed"} \cup Installing \cup Choosing /\ UNCHANGED <<run, config, next>>
           /\ at' \in {"parsed", "fatal", "panic"} \cup Installing \cup Choosing
  BY <1>1, <1>3, OthersKeep DEF Inv, IsRead
<1>4. CASE UNCHANGED vars
  <2>1. args' = args /\ (DOMAIN linters)' = DOMAIN linters
    BY <1>4 DEF args, vars
  <2>2. /\ IsSet(config, next - 1)' <=> IsSet(config', next' - 1)
        /\ IsHeard(config, First + next - 1)' <=> IsHeard(config', First + next' - 1)
        /\ IsHeard(config, Len(Story))' <=> IsHeard(config', Len(Story))
    BY <1>4, Stays DEF vars
  <2>3. IsConfig(config)' = IsConfig(config')
    BY DEF IsConfig
  <2>4. ReadInv'
    BY <1>1, <1>4, <2>1, <2>2, <2>3 DEF ReadInv, IsRead, Installing, Choosing, vars
  <2> QED
    BY <1>1, <2>4 DEF Inv
<1>5. CASE Next
  <2>1. CASE PrepareInstall
    BY <1>3, <2>1 DEF PrepareInstall, Installing
  <2>2. ASSUME NEW some \in SUBSET Builtin, NEW ok \in BOOLEAN, InstallTogether(some, ok)
        PROVE  Inv'
    BY <1>3, <2>2 DEF InstallTogether, Installing
  <2>3. ASSUME NEW l \in Builtin, NEW ok \in BOOLEAN, InstallOne(l, ok)
        PROVE  Inv'
    BY <1>3, <2>3 DEF InstallOne, Installing
  <2>4. CASE InstallEnds \/ ConfigureEnvironment \/ ProcessConfig
    BY <1>3, <2>4 DEF InstallEnds, ConfigureEnvironment, ProcessConfig, Installing, Choosing
  <2>5. CASE LintersFromConfig \/ ValidateLinters
    BY <1>3, <2>5 DEF LintersFromConfig, ValidateLinters, Choosing
  <2> QED
    BY <1>2, <1>4, <1>5, <2>1, <2>2, <2>3, <2>4, <2>5 DEF Next
<1> QED
  BY <1>4, <1>5

\* What has been said is what the configuration says, the linters are chosen from it.
THEOREM InvCorrect == Spec => []Inv
<1>1. Init => Inv
  <2> SUFFICES ASSUME Init
               PROVE  Inv
    OBVIOUS
  <2>1. run \in Invocations /\ config = Default /\ at = "start" /\ next = 1 /\ linters = <<>>
    BY DEF Init, ParseInit
  <2>2. Len(args) \in Nat /\ IsConfig(config)
    BY <2>1, StoryIs, ClearedIsSet
  <2>3. DOMAIN linters = {}
    BY <2>1
  <2> QED
    BY <2>1, <2>2, <2>3 DEF Inv, ReadInv, ChoiceInv, IsRead, Installing, Choosing
<1>2. Inv /\ [Next]_vars => Inv'
  BY StartupInductive
<1> QED
  BY <1>1, <1>2, PTL DEF Spec

-----------------------------------------------------------------------------
(***************************************************************************)
(* What follows from the invariant.                                        *)
(***************************************************************************)
\* Every value is the one that the last to speak has given, where a file speaks after all
\* flags, wherever --config stands (kingpin app.go:232-255, 654-677).
THEOREM LastToSpeakWins == Spec => []ValuesInForce
<1>1. Inv => ValuesInForce
  <2> SUFFICES ASSUME Inv, at = "parsed"
               PROVE  FastInForce /\ ExcludeInForce /\ \A l \in Builtin : SeverityInForce(l)
    BY DEF ValuesInForce
  <2>1. run \in Invocations /\ IsHeard(config, Len(Story))
    BY DEF Inv, ReadInv, IsRead
  <2>2. ValuesHeard(config, Len(Story)) /\ \A key : Says(key) = SaidBy(Len(Story), key)
    BY <2>1, SaysIs DEF IsHeard, Heard
  <2>3. DOMAIN args = 1 .. Len(args)
    BY <2>1, StoryIs
  <2>4. FastInForce
    BY <2>2, <2>3 DEF ValuesHeard, FastSet, FastInForce
  <2>5. ExcludeInForce
    BY <2>2 DEF ValuesHeard, ExcludeSet, ExcludeInForce
  <2>6. ASSUME NEW l \in Builtin
        PROVE  SeverityInForce(l)
    <3> DEFINE flags == {k \in DOMAIN args : args[k].flag = "severity" /\ l \in DOMAIN args[k].value}
               isSet == l \in DOMAIN config.severity
    <3>1. CASE \E s \in Says("Severity") : l \in DOMAIN s
      BY <2>2, <3>1 DEF ValuesHeard, SeverityInForce
    <3>2. CASE ~ \E s \in Says("Severity") : l \in DOMAIN s
      <4>1. SeveritySet(config, l, Len(args))
        BY <2>2, <3>2 DEF ValuesHeard
      <4>2. IF flags = {} THEN isSet <=> l \in DefaultErr /\ ~Given("severity")
            ELSE isSet /\ \E k \in flags :
                            (\A j \in flags : j <= k) /\ config.severity[l] = args[k].value[l]
        BY <2>3, <4>1, Zenon DEF SeveritySet
      <4>3. SeverityInForce(l) =
              IF flags # {}
              THEN isSet /\ \E k \in flags : /\ \A m \in flags : m <= k
                                             /\ config.severity[l] = args[k].value[l]
              ELSE isSet <=> l \in DefaultErr /\ ~Given("severity")
        BY <3>2, Zenon DEF SeverityInForce
      <4> HIDE DEF flags, isSet
      <4> QED
        BY <4>2, <4>3
    <3> QED
      BY <3>1, <3>2
  <2> QED
    BY <2>4, <2>5, <2>6
<1> QED
  BY <1>1, InvCorrect, PTL

\* A linter that is wanted, and what is wrong with one.
Wanted(l) == /\ l \in Named /\ AskedFor(l) /\ l \notin Range(config.disable)
             /\ config.fast => IsFastLinter(l)
WrongLinter(l) == (l \notin Builtin /\ Definition(l) = {}) \/ \E d \in Definition(l) : d.pattern = "bad"

\* The settings that a linter gets.
LEMMA SettingIs ==
  ASSUME NEW l, SetFor(config, l) = Definition(l),
         \A m \in DOMAIN config.linters : config.linters[m] \in Definitions
  PROVE  /\ Setting(l).fast <=> IsFastLinter(l)
         /\ LET given == {d \in Definition(l) : d.pattern # "none"}
            IN  IF given = {} THEN Setting(l).pattern = TablePattern(l)
                ELSE \E d \in given : Setting(l).pattern = d.pattern
         /\ IsNil(Setting(l)) <=> \E d \in Definition(l) : d.pattern = "bad"
         /\ l \in DOMAIN config.linters <=> Definition(l) # {}
<1>1. CASE l \in DOMAIN config.linters
  <2>1. Definition(l) = {config.linters[l]} /\ config.linters[l] \in Definitions
    BY <1>1 DEF SetFor
  <2>2. Setting(l) = [pattern |-> IF config.linters[l].pattern = "none" THEN TablePattern(l)
                                  ELSE config.linters[l].pattern,
                      fast |-> l \in FastBuiltin \/ config.linters[l].fast]
    BY <1>1 DEF Setting
  <2>3. Setting(l).fast <=> IsFastLinter(l)
    <3>1. Setting(l).fast <=> l \in FastBuiltin \/ config.linters[l].fast
      <4>1. Setting(l).fast = (l \in FastBuiltin \/ config.linters[l].fast)
        BY <2>2
      <4> QED
        BY <4>1, Zenon
    <3> QED
      BY <2>1, <3>1, Zenon DEF IsFastLinter
  <2> DEFINE given == {d \in Definition(l) : d.pattern # "none"}
  <2>4. IF given = {} THEN Setting(l).pattern = TablePattern(l)
        ELSE \E d \in given : Setting(l).pattern = d.pattern
    BY <2>1, <2>2
  <2>5. IsNil(Setting(l)) <=> \E d \in Definition(l) : d.pattern = "bad"
    BY <2>1, <2>2 DEF IsNil, TablePattern
  <2> QED
    BY <1>1, <2>1, <2>3, <2>4, <2>5
<1>2. CASE l \notin DOMAIN config.linters
  <2>1. Definition(l) = {}
    BY <1>2 DEF SetFor
  <2>2. Setting(l) = [pattern |-> TablePattern(l), fast |-> l \in FastBuiltin]
    BY <1>2 DEF Setting
  <2> QED
    <3>1. Setting(l).fast <=> IsFastLinter(l)
      <4>1. Setting(l).fast = (l \in FastBuiltin)
        BY <2>2
      <4> QED
        BY <2>1, <4>1, Zenon DEF IsFastLinter
    <3>2. Setting(l).pattern = TablePattern(l) /\ ~IsNil(Setting(l))
      BY <2>2 DEF IsNil, TablePattern
    <3> QED
      BY <1>2, <2>1, <3>1, <3>2
<1> QED
  BY <1>1, <1>2

\* The linters that are chosen are those that are wanted, with the settings given to them.
LEMMA ChosenIs ==
  ASSUME Inv, DOMAIN linters # {} \/ at = "linting"
  PROVE  /\ \A l : l \in DOMAIN linters <=> Wanted(l)
         /\ \A l \in DOMAIN linters : linters[l] = Setting(l)
         /\ \A l \in Named : SetFor(config, l) = Definition(l)
         /\ IsConfig(config)
         /\ Range(config.disable) = UNION {Range(list) : list \in Says("Disable")}
         /\ Says("Disable") \subseteq Seq(STRING)
<1>1. run \in Invocations /\ IsConfig(config) /\ IsHeard(config, Len(Story))
      /\ linters = [l \in Chosen(Range(config.enable)) |-> Setting(l)]
  BY DEF Inv, ReadInv, ChoiceInv, IsRead, Choosing
<1>2. ListsHeard(config, Len(Story)) /\ LintersHeard(config, Len(Story))
      /\ \A key : Says(key) = SaidBy(Len(Story), key)
  BY <1>1, SaysIs DEF IsHeard, Heard
<1>3. DOMAIN Story = 1 .. Len(Story)
  BY <1>1, StoryIs
<1>4. \A l : AskedFor(l) = AskedBy(Len(Story), l)
  BY <1>3, Zenon DEF AskedFor, AskedBy
<1>5. \A l : Definition(l) = DefinedBy(Len(Story), l)
  BY <1>3, Zenon DEF Definition, DefinedBy
<1>6. \A l \in Named : SetFor(config, l) = Definition(l)
  BY <1>2, <1>5 DEF LintersHeard
<1>7. ASSUME NEW l
      PROVE  l \in DOMAIN linters <=> Wanted(l)
  <2>1. l \in DOMAIN linters <=> /\ l \in Range(config.enable) /\ l \notin Range(config.disable)
                                 /\ config.fast => Setting(l).fast
    BY <1>1 DEF Chosen
  <2>2. l \in Named => (Setting(l).fast <=> IsFastLinter(l))
    BY <1>1, <1>6, SettingIs DEF IsConfig
  <2> QED
    BY <1>2, <1>4, <2>1, <2>2 DEF Wanted, ListsHeard
<1>8. \E list : Says("Disable") \subseteq {list}
  BY DEF Says
<1>9. Range(config.disable) = UNION {Range(list) : list \in Says("Disable")}
      /\ Says("Disable") \subseteq Seq(STRING)
  <2>1. CASE Says("Disable") = {}
    <3>1. config.disable = <<>>
      BY <1>2, <2>1 DEF ListsHeard
    <3> QED
      BY <2>1, <3>1 DEF Range
  <2>2. CASE Says("Disable") # {}
    <3>1. Says("Disable") = {config.disable}
      BY <1>2, <1>8, <2>2 DEF ListsHeard
    <3> QED
      BY <1>1, <3>1 DEF IsConfig
  <2> QED
    BY <2>1, <2>2
<1>10. \A l \in DOMAIN linters : linters[l] = Setting(l)
  BY <1>1
<1> QED
  BY <1>1, <1>6, <1>7, <1>9, <1>10

\* A linter is run if and only if the last word about it, from the defaults, the file or a
\* flag, asks for it, no file disables it, and it is fast if only fast ones are wanted; it
\* is run with the last pattern given for it (main.go:116-143, 386-399, config.go:153-160).
THEOREM LastWordDecides == Spec => []RunsWhatWasAsked
<1>1. Inv => RunsWhatWasAsked
  <2> SUFFICES ASSUME Inv, at = "linting"
               PROVE  /\ DOMAIN linters =
                           {l \in Named : /\ AskedFor(l)
                                          /\ \A list \in Says("Disable") : ~Contains(list, l)
                                          /\ config.fast => IsFastLinter(l)}
                      /\ \A l \in DOMAIN linters :
                           LET given == {d \in Definition(l) : d.pattern # "none"}
                           IN  IF given = {} THEN linters[l].pattern = TablePattern(l)
                               ELSE \E d \in given : linters[l].pattern = d.pattern
    BY DEF RunsWhatWasAsked
  <2>1. /\ \A l : l \in DOMAIN linters <=> Wanted(l)
        /\ \A l \in DOMAIN linters : linters[l] = Setting(l)
        /\ \A l \in Named : SetFor(config, l) = Definition(l)
        /\ IsConfig(config)
        /\ Range(config.disable) = UNION {Range(list) : list \in Says("Disable")}
        /\ Says("Disable") \subseteq Seq(STRING)
    BY ChosenIs
  <2>2. \A list \in Says("Disable") : \A l : Contains(list, l) <=> l \in Range(list)
    BY <2>1, InRange
  <2>3. \A l : l \notin Range(config.disable) <=> \A list \in Says("Disable") : ~Contains(list, l)
    BY <2>1, <2>2
  <2>4. \A l : Wanted(l) <=> /\ l \in Named /\ AskedFor(l)
                             /\ \A list \in Says("Disable") : ~Contains(list, l)
                             /\ config.fast => IsFastLinter(l)
    BY <2>3, Zenon DEF Wanted
  <2>5. ASSUME NEW l \in DOMAIN linters
        PROVE  LET given == {d \in Definition(l) : d.pattern # "none"}
               IN  IF given = {} THEN linters[l].pattern = TablePattern(l)
                   ELSE \E d \in given : linters[l].pattern = d.pattern
    <3>1. SetFor(config, l) = Definition(l) /\ linters[l] = Setting(l)
      BY <2>1, <2>5 DEF Wanted
    <3>2. \A m \in DOMAIN config.linters : config.linters[m] \in Definitions
      BY <2>1 DEF IsConfig
    <3> QED
      BY <3>1, <3>2, SettingIs
  <2> QED
    BY <2>1, <2>4, <2>5
<1> QED
  BY <1>1, InvCorrect, PTL

\* No linter is run whose name is neither in the table nor defined, and none whose pattern
\* does not compile; one of these that is wanted stops the program (linters.go:75, 188-201,
\* main.go:390).
THEOREM BadLinterStops == Spec => []StopsForBadLinters
<1>1. Inv => StopsForBadLinters
  <2> SUFFICES ASSUME Inv, at \in {"linting", "fatal", "panic"}, DOMAIN linters # {}
               PROVE  (at = "linting") = \A l \in Named : Wanted(l) => ~WrongLinter(l)
    BY Zenon DEF StopsForBadLinters, Wanted, WrongLinter
  <2>1. /\ \A l : l \in DOMAIN linters <=> Wanted(l)
        /\ \A l \in DOMAIN linters : linters[l] = Setting(l)
        /\ \A l \in Named : SetFor(config, l) = Definition(l)
        /\ IsConfig(config)
    BY ChosenIs
  <2>2. at = "linting" <=> ~IsBad
    BY DEF Inv, ChoiceInv
  <2>3. ASSUME NEW l \in DOMAIN linters
        PROVE  /\ IsNil(linters[l]) <=> \E d \in Definition(l) : d.pattern = "bad"
               /\ l \in DOMAIN config.linters <=> Definition(l) # {}
    <3>1. SetFor(config, l) = Definition(l) /\ linters[l] = Setting(l)
      BY <2>1, <2>3 DEF Wanted
    <3>2. \A m \in DOMAIN config.linters : config.linters[m] \in Definitions
      BY <2>1 DEF IsConfig
    <3> QED
      BY <3>1, <3>2, SettingIs
  <2>4. IsBad <=> \E l \in DOMAIN linters : WrongLinter(l)
    BY <2>3 DEF IsBad, Unknown, WrongLinter
  <2>5. (\E l \in DOMAIN linters : WrongLinter(l)) <=> ~ \A l \in Named : Wanted(l) => ~WrongLinter(l)
    BY <2>1 DEF Wanted
  <2> QED
    BY <2>2, <2>4, <2>5
<1> QED
  BY <1>1, InvCorrect, PTL
===============================================================================
