--------------------------- MODULE Partition_proofs ---------------------------
(***************************************************************************)
(* Proofs about Partition, for any directories and files, lengths, limits  *)
(* and GOPATH, and about Paths, for any tree, links, arguments and --skip. *)
(* The inductive invariant of both together is RunInv, at the end.         *)
(***************************************************************************)
EXTENDS Paths, SequenceLemmas

-----------------------------------------------------------------------------
(***************************************************************************)
(* The length of a command line, one argument at a time.                   *)
(***************************************************************************)
\* f[i] is the length with the first i of the arguments xs, for the first n.
IsSum(f, xs, n) ==
  f = [i \in 0 .. n |-> IF i = 0 THEN BaseBytes ELSE f[i - 1] + Bytes[xs[i]]]

\* Its elements.
LEMMA SumStep ==
  ASSUME NEW f, NEW xs, NEW n \in Nat, IsSum(f, xs, n)
  PROVE  /\ f[0] = BaseBytes
         /\ \A k \in Nat : k + 1 <= n => f[k + 1] = f[k] + Bytes[xs[k + 1]]
<1>1. \A i \in 0 .. n : f[i] = IF i = 0 THEN BaseBytes ELSE f[i - 1] + Bytes[xs[i]]
  BY Zenon DEF IsSum
<1>2. f[0] = BaseBytes
  <2>1. 0 \in 0 .. n
    OBVIOUS
  <2>2. QED
    BY <1>1, <2>1, Zenon
<1>3. ASSUME NEW k \in Nat, k + 1 <= n
      PROVE  f[k + 1] = f[k] + Bytes[xs[k + 1]]
  <2>1. PICK i \in 0 .. n : i = k + 1
    BY <1>3
  <2>2. i - 1 = k /\ i # 0
    BY <2>1
  <2>3. f[i] = f[i - 1] + Bytes[xs[i]]
    BY <1>1, <2>2
  <2>4. QED
    BY <2>1, <2>2, <2>3, Zenon
<1>4. QED
  BY <1>2, <1>3

\* There is such a function for every n.
LEMMA SumExists ==
  ASSUME NEW xs, NEW n \in Nat
  PROVE  \E f : IsSum(f, xs, n)
<1> DEFINE T == {k \in Nat : \E f : IsSum(f, xs, k)}
<1>1. 0 \in T
  <2> DEFINE g == [i \in 0 .. 0 |-> BaseBytes]
  <2>1. \A i \in 0 .. 0 : i = 0
    OBVIOUS
  <2>2. g = [i \in 0 .. 0 |-> IF i = 0 THEN BaseBytes ELSE g[i - 1] + Bytes[xs[i]]]
    BY <2>1
  <2>3. IsSum(g, xs, 0)
    BY <2>2, Zenon DEF IsSum
  <2>4. QED
    <3> HIDE DEF g
    <3>1. QED
      BY <2>3
<1>2. ASSUME NEW k \in T
      PROVE  k + 1 \in T
  <2>1. PICK f : IsSum(f, xs, k)
    OBVIOUS
  <2> DEFINE At(i) == IF i = 0 THEN BaseBytes ELSE f[i - 1] + Bytes[xs[i]]
             g == [i \in 0 .. k + 1 |-> At(i)]
  <2>2. \A i \in 0 .. k : i \in 0 .. k + 1 /\ f[i] = At(i)
    <3>1. 0 .. k \subseteq 0 .. k + 1
      OBVIOUS
    <3>2. QED
      BY <2>1, <3>1, Zenon DEF IsSum
  <2>3. \A i \in 0 .. k : g[i] = f[i]
    <3> HIDE DEF At
    <3>1. QED
      BY <2>2, Zenon
  <2>4. \A i \in 0 .. k + 1 : i # 0 => i - 1 \in 0 .. k
    OBVIOUS
  <2>5. \A i \in 0 .. k + 1 : At(i) = IF i = 0 THEN BaseBytes ELSE g[i - 1] + Bytes[xs[i]]
    <3> HIDE DEF g
    <3>1. QED
      BY <2>3, <2>4, Zenon
  <2>6. g = [i \in 0 .. k + 1 |-> IF i = 0 THEN BaseBytes ELSE g[i - 1] + Bytes[xs[i]]]
    <3> DEFINE h == g
    <3> HIDE DEF h, At
    <3>1. h = [i \in 0 .. k + 1 |-> IF i = 0 THEN BaseBytes ELSE h[i - 1] + Bytes[xs[i]]]
      BY <2>5, Zenon DEF h
    <3>2. QED
      BY <3>1 DEF h
  <2>7. IsSum(g, xs, k + 1)
    BY <2>6, Zenon DEF IsSum
  <2>8. QED
    <3> HIDE DEF g
    <3>1. QED
      BY <2>7
<1>3. T = Nat
  <2> HIDE DEF T
  <2>1. T \subseteq Nat
    BY DEF T
  <2>2. QED
    BY <1>1, <1>2, <2>1, Induction
<1>4. QED
  BY <1>3

\* One more argument does not change it on the others.
LEMMA SumUnique ==
  ASSUME NEW xs, NEW ys, NEW f, NEW g, NEW m \in Nat,
         IsSum(f, xs, m), IsSum(g, ys, m + 1), \A i \in 1 .. m : xs[i] = ys[i]
  PROVE  f[m] = g[m]
<1> DEFINE T == {k \in Nat : k <= m => f[k] = g[k]}
<1>1. /\ f[0] = BaseBytes /\ g[0] = BaseBytes
      /\ \A k \in Nat : k + 1 <= m => f[k + 1] = f[k] + Bytes[xs[k + 1]]
      /\ \A k \in Nat : k + 1 <= m + 1 => g[k + 1] = g[k] + Bytes[ys[k + 1]]
  BY SumStep
<1>2. 0 \in T
  BY <1>1
<1>3. ASSUME NEW k \in T
      PROVE  k + 1 \in T
  <2>1. SUFFICES ASSUME k + 1 <= m
                 PROVE  f[k + 1] = g[k + 1]
    OBVIOUS
  <2>2. k \in Nat /\ k + 1 <= m + 1 /\ xs[k + 1] = ys[k + 1] /\ f[k] = g[k]
    BY <2>1
  <2>3. f[k + 1] = f[k] + Bytes[xs[k + 1]] /\ g[k + 1] = g[k] + Bytes[ys[k + 1]]
    BY <1>1, <2>1, <2>2
  <2>4. QED
    BY <2>2, <2>3, Zenon
<1>4. T = Nat
  <2> HIDE DEF T
  <2>1. T \subseteq Nat
    BY DEF T
  <2>2. QED
    BY <1>2, <1>3, <2>1, Induction
<1>5. QED
  BY <1>4

\* What BytesOf computes.
LEMMA BytesOfIs ==
  ASSUME NEW xs, Len(xs) \in Nat
  PROVE  \E f : IsSum(f, xs, Len(xs)) /\ BytesOf(xs) = f[Len(xs)]
<1> DEFINE h == CHOOSE f : IsSum(f, xs, Len(xs))
<1>1. IsSum(h, xs, Len(xs))
  BY SumExists
<1>2. BytesOf(xs) = h[Len(xs)]
  BY DEF BytesOf, IsSum
<1>3. QED
  BY <1>1, <1>2

\* The base has its own length, and an argument adds the length it has.
LEMMA BytesOfArgs ==
  /\ BytesOf(<<>>) = BaseBytes
  /\ \A xs \in Seq(Args), x \in Args : BytesOf(Append(xs, x)) = BytesOf(xs) + Bytes[x]
<1>1. BytesOf(<<>>) = BaseBytes
  <2>1. Len(<<>>) = 0
    OBVIOUS
  <2>2. PICK f : IsSum(f, <<>>, 0) /\ BytesOf(<<>>) = f[0]
    BY <2>1, BytesOfIs
  <2>3. QED
    BY <2>2, SumStep
<1>2. ASSUME NEW xs \in Seq(Args), NEW x \in Args
      PROVE  BytesOf(Append(xs, x)) = BytesOf(xs) + Bytes[x]
  <2> DEFINE ys == Append(xs, x)
             n == Len(xs)
  <2>1. n \in Nat /\ Len(ys) = n + 1 /\ ys[n + 1] = x /\ \A i \in 1 .. n : xs[i] = ys[i]
    OBVIOUS
  <2> HIDE DEF ys
  <2>2. PICK g : IsSum(g, ys, n + 1) /\ BytesOf(ys) = g[n + 1]
    BY <2>1, BytesOfIs
  <2>3. PICK f : IsSum(f, xs, n) /\ BytesOf(xs) = f[n]
    BY <2>1, BytesOfIs
  <2> HIDE DEF n
  <2>4. g[n + 1] = g[n] + Bytes[ys[n + 1]]
    <3>1. n + 1 \in Nat /\ n + 1 <= n + 1
      BY <2>1
    <3>2. QED
      BY <2>1, <2>2, <3>1, SumStep
  <2>5. f[n] = g[n]
    <3>1. n \in Nat
      BY <2>1
    <3>2. IsSum(f, xs, n) /\ IsSum(g, ys, n + 1)
      BY <2>2, <2>3
    <3>3. \A i \in 1 .. n : xs[i] = ys[i]
      BY <2>1
    <3>4. QED
      BY <3>1, <3>2, <3>3, SumUnique
  <2>6. QED
    BY <2>1, <2>2, <2>3, <2>4, <2>5 DEF ys
<1>3. QED
  BY <1>1, <1>2

-----------------------------------------------------------------------------
(***************************************************************************)
(* Types.                                                                  *)
(***************************************************************************)
Part == [args : Seq(Args), shared : BOOLEAN]

\* The files of several directories are those of all but the last and those of the last.
LEMMA FilesInDirs ==
  /\ FilesIn(<<>>) = <<>>
  /\ \A ds \in Seq(Dirs) : FilesIn(ds) \in Seq(Files)
  /\ \A ds \in Seq(Dirs), d \in Dirs : FilesIn(Append(ds, d)) = FilesIn(ds) \o FilesOf[d]
<1>1. FilesOf \in [Dirs -> Seq(Files)] /\ Maps(FilesOf, Dirs, Seq(Files))
  BY PartitionAssumption DEF Maps
<1>2. FilesIn(<<>>) = <<>>
  <2>1. [k \in DOMAIN <<>> |-> FilesOf[<<>>[k]]] = <<>>
    OBVIOUS
  <2>2. QED
    BY <2>1, FlattenNothing DEF FilesIn
<1>3. ASSUME NEW ds \in Seq(Dirs), NEW d \in Dirs
      PROVE  /\ FilesIn(ds) \in Seq(Files)
             /\ FilesIn(Append(ds, d)) = FilesIn(ds) \o FilesOf[d]
  <2>1. /\ Each(FilesOf, ds) \in Seq(Seq(Files))
        /\ Each(FilesOf, Append(ds, d)) = Append(Each(FilesOf, ds), FilesOf[d])
    BY <1>1, EachAppend
  <2>2. FilesOf[d] \in Seq(Files)
    BY <1>1
  <2>3. FlattenSeq(Append(Each(FilesOf, ds), FilesOf[d])) = FlattenSeq(Each(FilesOf, ds)) \o FilesOf[d]
    BY <2>1, <2>2, FlattenAppend
  <2>4. FlattenSeq(Each(FilesOf, ds)) \in Seq(Files)
    BY <2>1, FlattenType
  <2>5. \A es : FilesIn(es) = FlattenSeq(Each(FilesOf, es))
    BY DEF FilesIn, Each
  <2>6. QED
    BY <2>1, <2>3, <2>4, <2>5
<1>4. ASSUME NEW ds \in Seq(Dirs)
      PROVE  FilesIn(ds) \in Seq(Files)
  <2>1. CASE ds = <<>>
    BY <1>2, <2>1, EmptySeq
  <2>2. CASE ds # <<>>
    <3>1. ds[1] \in Dirs
      BY <2>2
    <3>2. QED
      BY <1>3, <3>1
  <2>3. QED
    BY <2>1, <2>2
<1>5. QED
  BY <1>2, <1>3, <1>4

\* The arguments of command lines, and of one command line more.
ArgsOf(ps) == FlattenSeq([k \in DOMAIN ps |-> ps[k].args])

\* One more command line adds its arguments at the end.
LEMMA ArgsOfParts ==
  /\ ArgsOf(<<>>) = <<>>
  /\ \A ps \in Seq(Part), part \in Part : ArgsOf(Append(ps, part)) = ArgsOf(ps) \o part.args
  /\ \A ps \in Seq(Part) : ArgsOf(ps) \in Seq(Args)
<1> DEFINE f == [part \in Part |-> part.args]
<1>1. Maps(f, Part, Seq(Args))
  BY DEF Part, Maps
<1>2. ASSUME NEW ps \in Seq(Part)
      PROVE  ArgsOf(ps) = FlattenSeq(Each(f, ps))
  <2>1. Each(f, ps) = [k \in DOMAIN ps |-> ps[k].args]
    BY DEF Each
  <2>2. QED
    BY <2>1, Zenon DEF ArgsOf
<1>3. ArgsOf(<<>>) = <<>>
  <2>1. [k \in DOMAIN <<>> |-> <<>>[k].args] = <<>>
    OBVIOUS
  <2>2. QED
    BY <2>1, FlattenNothing DEF ArgsOf
<1>4. ASSUME NEW ps \in Seq(Part), NEW part \in Part
      PROVE  /\ ArgsOf(ps) \in Seq(Args)
             /\ ArgsOf(Append(ps, part)) = ArgsOf(ps) \o part.args
  <2>1. f[part] = part.args /\ part.args \in Seq(Args) /\ Append(ps, part) \in Seq(Part)
    BY DEF Part
  <2> HIDE DEF f
  <2>2. Each(f, ps) \in Seq(Seq(Args)) /\ Each(f, Append(ps, part)) = Append(Each(f, ps), f[part])
    BY <1>1, EachAppend
  <2>3. FlattenSeq(Append(Each(f, ps), part.args)) = FlattenSeq(Each(f, ps)) \o part.args
    BY <2>1, <2>2, FlattenAppend
  <2>4. FlattenSeq(Each(f, ps)) \in Seq(Args)
    BY <2>2, FlattenType
  <2>5. QED
    BY <1>2, <2>1, <2>2, <2>3, <2>4
<1>5. ASSUME NEW ps \in Seq(Part)
      PROVE  ArgsOf(ps) \in Seq(Args)
  <2>1. CASE ps = <<>>
    BY <1>3, <2>1, EmptySeq
  <2>2. CASE ps # <<>>
    <3>1. ps[1] \in Part
      BY <2>2
    <3>2. QED
      BY <1>4, <3>1
  <2>3. QED
    BY <2>1, <2>2
<1>6. QED
  BY <1>3, <1>4, <1>5

\* An absolute entry of GOPATH is found if there is one.
LEMMA AbsoluteEntry ==
  ASSUME gopath \in GoPaths, FirstAbsolute # 0
  PROVE  gopath[FirstAbsolute] \in Roots
<1> DEFINE I == {i \in 1 .. Len(gopath) : gopath[i] \in Roots}
<1>1. FirstAbsolute = IF I # {} THEN Min(I) ELSE 0
  BY DEF FirstAbsolute, SelectInSeq
<1>2. I # {} /\ FirstAbsolute = Min(I)
  BY <1>1
<1>3. I \subseteq Nat
  <2>1. gopath \in Seq(Range(gopath))
    BY PartitionAssumption
  <2>2. Len(gopath) \in Nat
    BY <2>1, LenProperties
  <2>3. QED
    BY <2>2
<1>4. Min(I) \in I
  <2> HIDE DEF I
  <2>1. \E k \in I : \A n \in I : k <= n
    BY <1>2, <1>3, Smallest
  <2>2. QED
    BY <2>1 DEF Min
<1>5. QED
  BY <1>2, <1>4

\* What the strategies hand on are arguments.
LEMMA ArgsTypes ==
  ASSUME TypeOK, ~Fails(strategy, paths)
  PROVE  /\ ArgsFor(strategy, paths) \in Seq(Args)
         /\ strategy \notin Sized => ArgsFor(strategy, paths) = paths
<1>1. paths \in Seq(Dirs) /\ Dirs \subseteq Args /\ Files \subseteq Args
  BY DEF TypeOK, Args
<1>2. CASE strategy = "files"
  <2>1. FilesIn(paths) \in Seq(Files)
    BY <1>1, FilesInDirs
  <2>2. QED
    BY <1>1, <1>2, <2>1, SeqMonotonic DEF ArgsFor, Sized
<1>3. CASE strategy = "packages"
  <2>1. ASSUME NEW k \in DOMAIN paths
        PROVE  PackageOf(paths[k]) \in Args
    <3>1. ~NotInGoPath(paths[k]) /\ paths[k] \in Dirs
      BY <1>1, <1>3 DEF Fails
    <3>2. CASE paths[k] \in Absolute
      <4>1. FirstAbsolute # 0
        BY <3>1, <3>2 DEF NotInGoPath
      <4>2. gopath[FirstAbsolute] \in Roots
        BY <4>1, AbsoluteEntry DEF TypeOK
      <4>3. <<gopath[FirstAbsolute], paths[k]>> \in DOMAIN RelTo
        BY <3>2, <4>2, PartitionAssumption
      <4>4. RelTo[<<gopath[FirstAbsolute], paths[k]>>] \in Range(RelTo)
        BY <4>3 DEF Range
      <4>5. QED
        BY <3>2, <4>4 DEF PackageOf, Args
    <3>3. CASE paths[k] \notin Absolute
      BY <1>1, <3>1, <3>3 DEF PackageOf
    <3>4. QED
      BY <3>2, <3>3
  <2>2. [k \in DOMAIN paths |-> PackageOf(paths[k])] \in Seq(Args)
    <3>1. DOMAIN paths = 1 .. Len(paths) /\ Len(paths) \in Nat
      BY <1>1
    <3>2. QED
      BY <2>1, <3>1, IsASeq
  <2>3. QED
    BY <1>3, <2>2 DEF ArgsFor, Sized
<1>4. CASE strategy \notin {"files", "packages"}
  <2>1. paths \in Seq(Args)
    BY <1>1, SeqMonotonic
  <2>2. QED
    BY <1>4, <2>1 DEF ArgsFor
<1>5. QED
  BY <1>2, <1>3, <1>4

-----------------------------------------------------------------------------
(***************************************************************************)
(* The invariant.                                                          *)
(***************************************************************************)
\* What the strategies hand on depends on the input only.
LEMMA InputKept ==
  ASSUME UNCHANGED input
  PROVE  /\ IsNothing(strategy, paths)' = IsNothing(strategy, paths)
         /\ Fails(strategy, paths)' = Fails(strategy, paths)
         /\ ArgsFor(strategy, paths)' = ArgsFor(strategy, paths)
         /\ Wanted' = Wanted
<1>1. strategy' = strategy /\ spare' = spare /\ gopath' = gopath /\ paths' = paths
  BY DEF input
<1>2. FirstAbsolute' = FirstAbsolute
  BY <1>1 DEF FirstAbsolute, SelectInSeq, Min
<1>3. \A d : PackageOf(d)' = PackageOf(d) /\ NotInGoPath(d)' = NotInGoPath(d)
  BY <1>1, <1>2 DEF PackageOf, NotInGoPath
<1>4. FilesIn(paths)' = FilesIn(paths)
  BY <1>1 DEF FilesIn
<1>5. ArgsFor(strategy, paths)' = ArgsFor(strategy, paths)
  BY <1>1, <1>3, <1>4 DEF ArgsFor
<1>6. IsNothing(strategy, paths)' = IsNothing(strategy, paths)
  BY <1>1, <1>5 DEF IsNothing
<1>7. Fails(strategy, paths)' = Fails(strategy, paths)
  BY <1>1, <1>3 DEF Fails
<1>8. Wanted' = Wanted
  BY <1>1, <1>4, <1>5 DEF Wanted
<1>9. QED
  BY <1>5, <1>6, <1>7, <1>8

\* It holds before the strategy is called.
LEMMA InvInit == Idle /\ paths \in Seq(Dirs) => Inv
<1>1. SUFFICES ASSUME Idle, paths \in Seq(Dirs)
               PROVE  Inv
  OBVIOUS
<1>2. TypeOK
  <2>1. spare \in Nat /\ <<>> \in Seq(Args) /\ <<>> \in Seq(Part) /\ Len(<<>>) = 0
    BY <1>1, PartitionAssumption, EmptySeq DEF Idle
  <2>2. QED
    BY <1>1, <2>1 DEF Idle, TypeOK, Part
<1>3. Unbegun /\ Filling /\ InTurn /\ SharedInTurn /\ FilledToLimit /\ NothingLost
  BY <1>1 DEF Idle, Unbegun, Filling, InTurn, SharedInTurn, FilledToLimit, NothingLost
<1>4. QED
  BY <1>2, <1>3 DEF Inv

\* Before it begins, the paths are of no consequence.
LEMMA StartStep ==
  ASSUME Inv, at = "start", paths' \in Seq(Dirs),
         UNCHANGED <<strategy, spare, gopath, at, args, current, size, parts, tail>>
  PROVE  Inv'
<1>1. TypeOK'
  BY DEF Inv, TypeOK
<1>2. Unbegun' /\ Filling' /\ InTurn' /\ SharedInTurn' /\ FilledToLimit' /\ NothingLost'
  BY DEF Inv, Unbegun, Filling, InTurn, SharedInTurn, FilledToLimit, NothingLost, Run
<1>3. QED
  BY <1>1, <1>2 DEF Inv

\* Fail, and NothingToDo, which leaves no command line.
LEMMA FailStep == Inv /\ Fail => Inv'
<1>1. SUFFICES ASSUME Inv, Fail
               PROVE  Inv'
  OBVIOUS
<1>2. TypeOK' /\ Unbegun'
  BY <1>1 DEF Inv, Fail, input, TypeOK, Unbegun
<1>3. Filling' /\ InTurn' /\ SharedInTurn' /\ FilledToLimit' /\ NothingLost'
  BY <1>1 DEF Inv, Fail, input, Unbegun, Filling, InTurn, SharedInTurn, FilledToLimit, NothingLost
<1>4. QED
  BY <1>2, <1>3 DEF Inv

\* Without arguments there is no command line (partition.go:100-103).
LEMMA NothingToDoStep == Inv /\ NothingToDo => Inv'
<1>1. SUFFICES ASSUME Inv, NothingToDo
               PROVE  Inv'
  OBVIOUS
<1>2. parts = <<>> /\ parts' = <<>> /\ at' = "done"
  BY <1>1 DEF Inv, NothingToDo, Unbegun
<1>3. TypeOK' /\ Unbegun'
  BY <1>1 DEF Inv, NothingToDo, input, TypeOK, Unbegun
<1>4. Filling' /\ InTurn' /\ SharedInTurn' /\ FilledToLimit'
  BY <1>1, <1>2 DEF Filling, InTurn, SharedInTurn, FilledToLimit
<1>5. NothingLost'
  <2>1. Given' = <<>>
    BY <1>2, ArgsOfParts DEF Given, ArgsOf
  <2>2. strategy \in Sized /\ ArgsFor(strategy, paths) = <<>>
    BY <1>1 DEF NothingToDo, IsNothing, Sized
  <2>3. Wanted' = <<>>
    <3>1. Wanted = ArgsFor(strategy, paths)
      BY <2>2 DEF Wanted, Sized
    <3>2. Wanted' = Wanted
      BY <1>1, InputKept DEF NothingToDo
    <3>3. QED
      BY <2>2, <3>1, <3>2
  <2>4. QED
    BY <1>2, <2>1, <2>3 DEF NothingLost
<1>6. QED
  BY <1>3, <1>4, <1>5 DEF Inv

\* Begin: the first command line is the base.
LEMMA BeginStep == Inv /\ Begin => Inv'
<1>1. SUFFICES ASSUME Inv, Begin
               PROVE  Inv'
  OBVIOUS
<1>2. /\ at' = "adding" /\ ~Fails(strategy, paths) /\ ~IsNothing(strategy, paths)
      /\ strategy' = strategy /\ spare' = spare /\ gopath' = gopath /\ paths' = paths
      /\ args' = ArgsFor(strategy, paths) /\ size' = BaseBytes
      /\ current = <<>> /\ current' = <<>> /\ parts' = <<>> /\ tail' = <<>>
  BY <1>1 DEF Inv, Begin, input, Unbegun
<1>3. TypeOK
  BY <1>1 DEF Inv
<1>4. /\ ArgsFor(strategy, paths) \in Seq(Args)
      /\ strategy \notin Sized => ArgsFor(strategy, paths) = paths
  BY <1>2, <1>3, ArgsTypes
<1>5. TypeOK'
  <2>1. BaseBytes \in Nat
    BY PartitionAssumption
  <2>2. <<>> \in Seq(Args) /\ <<>> \in Seq(Part) /\ Len(<<>>) = 0 /\ spare \in Nat
    BY <1>3, PartitionAssumption, EmptySeq DEF TypeOK
  <2>3. QED
    BY <1>2, <1>3, <1>4, <2>1, <2>2 DEF TypeOK, Part
<1>6. Given' = <<>>
  BY <1>2, ArgsOfParts DEF Given, ArgsOf
<1>7. Filling'
  <2>1. Given' \o current' \o args' = ArgsFor(strategy, paths)
    BY <1>2, <1>4, <1>6, ConcatEmptySeq
  <2>2. size' = BytesOf(current') /\ size' <= MaxBytes
    BY <1>2, BytesOfArgs, PartitionAssumption
  <2>3. /\ IsNothing(strategy, paths)' = IsNothing(strategy, paths)
        /\ Fails(strategy, paths)' = Fails(strategy, paths)
        /\ ArgsFor(strategy, paths)' = ArgsFor(strategy, paths)
    BY <1>1, InputKept DEF Begin
  <2>4. QED
    BY <1>2, <2>1, <2>2, <2>3 DEF Filling
<1>8. InTurn'
  <2>1. SUFFICES ASSUME strategy \notin Sized
                 PROVE  InTurn'
    BY <1>2 DEF InTurn
  <2>2. args' = paths /\ paths \in Seq(Dirs)
    BY <1>2, <1>3, <1>4, <2>1 DEF TypeOK
  <2>3. SubSeq(paths, 1, Len(paths)) = paths /\ SubSeq(paths, 1, 0) = <<>> /\ Len(paths) \in Nat
    BY <2>2
  <2>4. FilesIn(SubSeq(paths, 1, 0)) = <<>>
    BY <2>3, FilesInDirs
  <2>5. /\ 0 \in 0 .. Len(paths) /\ args' = SubSeq(paths, 0 + 1, Len(paths))
        /\ Given' = IF strategy = "files-by-package" THEN FilesIn(SubSeq(paths, 1, 0))
                    ELSE SubSeq(paths, 1, 0)
        /\ \A n \in DOMAIN parts' : parts'[n].args # <<>>
    BY <1>2, <1>6, <2>2, <2>3, <2>4
  <2>6. QED
    BY <1>2, <2>5 DEF InTurn
<1>9. Unbegun' /\ SharedInTurn' /\ FilledToLimit' /\ NothingLost'
  BY <1>2 DEF Unbegun, SharedInTurn, FilledToLimit, NothingLost
<1>10. QED
  BY <1>5, <1>7, <1>8, <1>9 DEF Inv

\* Add: the argument goes on the line being filled or begins the next.
LEMMA AddStep ==
  ASSUME Inv, NEW arg, Add(arg)
  PROVE  Inv'
<1> DEFINE line == [args |-> current, shared |-> FALSE]
<1>1. /\ at = "adding" /\ strategy \in Sized /\ args # <<>> /\ arg = Head(args)
      /\ args' = Tail(args) /\ at' = at /\ tail' = tail /\ UNCHANGED input
      /\ strategy' = strategy /\ spare' = spare /\ gopath' = gopath /\ paths' = paths
  BY DEF Add, input
<1>2. /\ args \in Seq(Args) /\ current \in Seq(Args) /\ parts \in Seq(Part) /\ size \in Nat
      /\ arg \in Args /\ args' \in Seq(Args) /\ args = <<arg>> \o args'
  <2>1. args \in Seq(Args) /\ current \in Seq(Args) /\ parts \in Seq(Part) /\ size \in Nat
    BY DEF Inv, TypeOK, Part
  <2>2. QED
    BY <1>1, <2>1
<1>3. /\ size = BytesOf(current) /\ size <= MaxBytes
      /\ Given \o current \o args = ArgsFor(strategy, paths)
      /\ current = <<>> => parts = <<>>
      /\ parts # <<>> => BytesOf(Append(parts[Len(parts)].args, current[1])) > MaxBytes
      /\ \A k \in DOMAIN parts : parts[k].args # <<>>
      /\ ~IsNothing(strategy, paths)' /\ ~Fails(strategy, paths)'
      /\ ArgsFor(strategy, paths)' = ArgsFor(strategy, paths)
  BY <1>1, InputKept DEF Inv, Filling
<1>4. /\ Bytes[arg] \in Nat /\ BaseBytes \in Nat /\ MaxBytes \in Nat
      /\ BaseBytes + Bytes[arg] <= MaxBytes
  BY <1>2, PartitionAssumption
<1>5. Given \in Seq(Args)
  BY <1>2, ArgsOfParts DEF Given, ArgsOf
<1>6. FilledToLimit
  BY DEF Inv
<1>7. CASE Exceeds(arg)
  <2>1. /\ parts' = Append(parts, line) /\ current' = <<arg>> /\ size' = BaseBytes + Bytes[arg]
    BY <1>7 DEF Add, Restarted
  <2>2. size + Bytes[arg] > MaxBytes
    BY <1>7 DEF Exceeds
  <2>3. current # <<>>
    <3>1. SUFFICES ASSUME current = <<>>
                   PROVE  FALSE
      OBVIOUS
    <3>2. size = BaseBytes
      BY <1>3, <3>1, BytesOfArgs
    <3>3. QED
      BY <1>4, <2>2, <3>2
  <2>4. line \in Part /\ line.args = current /\ line.shared = FALSE
    BY <1>2 DEF Part
  <2> HIDE DEF line
  <2>5. /\ parts' \in Seq(Part) /\ Len(parts') = Len(parts) + 1 /\ Len(parts) \in Nat
        /\ DOMAIN parts = 1 .. Len(parts) /\ DOMAIN parts' = 1 .. Len(parts) + 1
        /\ \A k \in DOMAIN parts : parts'[k] = parts[k]
        /\ parts'[Len(parts) + 1] = line
    BY <1>2, <2>1, <2>4
  <2>6. TypeOK'
    <3>1. current' \in Seq(Args) /\ size' \in Nat
      BY <1>2, <1>4, <2>1
    <3>2. QED
      BY <1>1, <1>2, <2>5, <3>1 DEF Inv, TypeOK, Part
  <2>7. BytesOf(Append(current, arg)) > MaxBytes
    BY <1>2, <1>3, <2>2, BytesOfArgs
  <2>8. Filling'
    <3>1. Given' = Given \o current
      BY <1>2, <2>1, <2>4, ArgsOfParts DEF Given, ArgsOf
    <3>2. Given' \o current' \o args' = ArgsFor(strategy, paths)
      <4>1. Given' \o <<arg>> \o args' = Given \o current \o (<<arg>> \o args')
        BY <1>2, <1>5, <3>1
      <4>2. QED
        BY <1>2, <1>3, <2>1, <4>1
    <3>3. size' = BytesOf(current') /\ size' <= MaxBytes
      <4>1. Append(<<>>, arg) = <<arg>> /\ <<>> \in Seq(Args)
        BY <1>2
      <4>2. BytesOf(<<arg>>) = BaseBytes + Bytes[arg]
        BY <1>2, <4>1, BytesOfArgs
      <4>3. QED
        BY <1>4, <2>1, <4>2
    <3>4. parts'[Len(parts')].args = current /\ current'[1] = arg /\ current' # <<>>
      BY <2>1, <2>4, <2>5
    <3>5. BytesOf(Append(parts'[Len(parts')].args, current'[1])) > MaxBytes
      BY <2>7, <3>4
    <3>6. \A k \in DOMAIN parts' : parts'[k].args # <<>>
      BY <1>3, <2>3, <2>4, <2>5
    <3>7. QED
      BY <1>1, <1>3, <3>2, <3>3, <3>4, <3>5, <3>6 DEF Filling
  <2>9. FilledToLimit'
    <3>1. \A k \in DOMAIN parts' : BytesOf(parts'[k].args) <= MaxBytes
      <4>1. BytesOf(line.args) <= MaxBytes
        BY <1>3, <2>4
      <4>2. QED
        BY <1>1, <1>6, <2>5, <4>1 DEF FilledToLimit
    <3>2. ASSUME NEW k \in 1 .. Len(parts') - 1
          PROVE  BytesOf(Append(parts'[k].args, parts'[k + 1].args[1])) > MaxBytes
      <4>1. CASE k = Len(parts)
        <5>1. parts # <<>> /\ parts'[k] = parts[Len(parts)] /\ parts'[k + 1].args = current
          BY <2>4, <2>5, <4>1
        <5>2. QED
          BY <1>3, <5>1
      <4>2. CASE k # Len(parts)
        <5>1. k \in 1 .. Len(parts) - 1 /\ parts'[k] = parts[k] /\ parts'[k + 1] = parts[k + 1]
          <6>1. k \in 1 .. Len(parts) - 1 /\ k \in DOMAIN parts /\ k + 1 \in DOMAIN parts
            <7>1. \A n \in Nat : \A j \in 1 .. (n + 1) - 1 :
                    j # n => j \in 1 .. n - 1 /\ j \in 1 .. n /\ j + 1 \in 1 .. n
              OBVIOUS
            <7>2. k \in 1 .. (Len(parts) + 1) - 1
              BY <2>5
            <7>3. QED
              BY <2>5, <4>2, <7>1, <7>2
          <6>2. QED
            BY <2>5, <6>1
        <5>2. QED
          BY <1>1, <1>6, <5>1 DEF FilledToLimit
      <4>3. QED
        BY <4>1, <4>2
    <3>3. QED
      BY <3>1, <3>2 DEF FilledToLimit
  <2>10. SharedInTurn'
    BY <1>1, <2>4, <2>5 DEF Inv, SharedInTurn
  <2>11. Unbegun' /\ InTurn' /\ NothingLost'
    BY <1>1 DEF Unbegun, InTurn, NothingLost
  <2>12. QED
    BY <2>6, <2>8, <2>9, <2>10, <2>11 DEF Inv
<1>8. CASE ~Exceeds(arg)
  <2>1. parts' = parts /\ current' = Append(current, arg) /\ size' = size + Bytes[arg]
    BY <1>8 DEF Add
  <2>2. size + Bytes[arg] <= MaxBytes
    BY <1>2, <1>4, <1>8 DEF Exceeds
  <2>3. TypeOK'
    <3>1. current' \in Seq(Args) /\ size' \in Nat
      BY <1>2, <1>4, <2>1
    <3>2. QED
      BY <1>1, <1>2, <2>1, <3>1 DEF Inv, TypeOK
  <2>4. Filling'
    <3>1. Given' = Given
      BY <2>1 DEF Given
    <3>2. Given' \o current' \o args' = ArgsFor(strategy, paths)
      <4>1. Given \o Append(current, arg) \o args' = Given \o current \o (<<arg>> \o args')
        <5>1. Append(current, arg) = current \o <<arg>> /\ <<arg>> \in Seq(Args)
          BY <1>2
        <5>2. Given \o (current \o <<arg>>) = (Given \o current) \o <<arg>>
              /\ Given \o current \in Seq(Args)
          BY <1>2, <1>5, <5>1, ConcatAssociative, ConcatProperties
        <5>3. ((Given \o current) \o <<arg>>) \o args' = (Given \o current) \o (<<arg>> \o args')
          BY <1>2, <5>1, <5>2, ConcatAssociative
        <5>4. QED
          BY <5>1, <5>2, <5>3, Zenon
      <4>2. QED
        BY <1>2, <1>3, <2>1, <3>1, <4>1
    <3>3. size' = BytesOf(current') /\ size' <= MaxBytes
      BY <1>2, <1>3, <2>1, <2>2, BytesOfArgs
    <3>4. current' # <<>> /\ (parts # <<>> => current'[1] = current[1])
      <4>1. Append(current, arg) # <<>>
            /\ (current # <<>> => Append(current, arg)[1] = current[1])
        <5>1. /\ Len(Append(current, arg)) = Len(current) + 1 /\ Len(current) \in Nat
              /\ Len(current) = 0 <=> current = <<>>
              /\ \A i \in 1 .. Len(current) : Append(current, arg)[i] = current[i]
          BY <1>2, AppendProperties, LenProperties, EmptySeq
        <5>2. Len(Append(current, arg)) # 0
          BY <5>1
        <5>3. current # <<>> => 1 \in 1 .. Len(current)
          BY <5>1
        <5>4. QED
          BY <5>1, <5>2, <5>3
      <4>2. QED
        BY <1>3, <2>1, <4>1
    <3>5. QED
      BY <1>1, <1>3, <2>1, <3>2, <3>3, <3>4 DEF Filling
  <2>5. FilledToLimit' /\ SharedInTurn'
    BY <1>1, <1>6, <2>1 DEF Inv, FilledToLimit, SharedInTurn
  <2>6. Unbegun' /\ InTurn' /\ NothingLost'
    BY <1>1 DEF Unbegun, InTurn, NothingLost
  <2>7. QED
    BY <2>3, <2>4, <2>5, <2>6 DEF Inv
<1>9. QED
  BY <1>7, <1>8

\* End: the line being filled is the last.
LEMMA EndStep == Inv /\ End => Inv'
<1>1. SUFFICES ASSUME Inv, End
               PROVE  Inv'
  OBVIOUS
<1> DEFINE line == [args |-> current, shared |-> FALSE]
<1>2. /\ at = "adding" /\ strategy \in Sized /\ args = <<>> /\ at' = "done"
      /\ parts' = Append(parts, line) /\ tail' = tail /\ args' = args
      /\ current' = current /\ size' = size /\ UNCHANGED input
      /\ strategy' = strategy /\ spare' = spare /\ gopath' = gopath /\ paths' = paths
  BY <1>1 DEF End, input
<1>3. current \in Seq(Args) /\ parts \in Seq(Part)
  BY <1>1 DEF Inv, TypeOK, Part
<1>4. /\ BytesOf(current) <= MaxBytes
      /\ Given \o current \o args = ArgsFor(strategy, paths)
      /\ current = <<>> => parts = <<>>
      /\ parts # <<>> => BytesOf(Append(parts[Len(parts)].args, current[1])) > MaxBytes
      /\ \A k \in DOMAIN parts : parts[k].args # <<>>
      /\ ~IsNothing(strategy, paths)
  BY <1>1, <1>2 DEF Inv, Filling
<1>5. line \in Part /\ line.args = current /\ line.shared = FALSE
  BY <1>3 DEF Part
<1> HIDE DEF line
<1>6. /\ parts' \in Seq(Part) /\ Len(parts') = Len(parts) + 1 /\ Len(parts) \in Nat
      /\ DOMAIN parts = 1 .. Len(parts) /\ DOMAIN parts' = 1 .. Len(parts) + 1
      /\ \A k \in DOMAIN parts : parts'[k] = parts[k]
      /\ parts'[Len(parts) + 1] = line
  BY <1>2, <1>3, <1>5
<1>7. TypeOK'
  BY <1>1, <1>2, <1>6 DEF Inv, TypeOK, Part
<1>8. Given \in Seq(Args) /\ Given' = Given \o current
  BY <1>2, <1>3, <1>5, ArgsOfParts DEF Given, ArgsOf
<1>9. FilledToLimit'
  <2>1. FilledToLimit
    BY <1>1 DEF Inv
  <2>2. \A k \in DOMAIN parts' : BytesOf(parts'[k].args) <= MaxBytes
    BY <1>2, <1>4, <1>5, <1>6, <2>1 DEF FilledToLimit
  <2>3. ASSUME NEW k \in 1 .. Len(parts') - 1
        PROVE  BytesOf(Append(parts'[k].args, parts'[k + 1].args[1])) > MaxBytes
    <3>1. CASE k = Len(parts)
      <4>1. parts # <<>> /\ parts'[k] = parts[Len(parts)] /\ parts'[k + 1].args = current
        BY <1>5, <1>6, <3>1
      <4>2. QED
        BY <1>4, <4>1
    <3>2. CASE k # Len(parts)
      <4>1. \A n \in Nat : \A j \in 1 .. (n + 1) - 1 :
              j # n => j \in 1 .. n - 1 /\ j \in 1 .. n /\ j + 1 \in 1 .. n
        OBVIOUS
      <4>2. k \in 1 .. (Len(parts) + 1) - 1
        BY <1>6
      <4>3. k \in 1 .. Len(parts) - 1 /\ parts'[k] = parts[k] /\ parts'[k + 1] = parts[k + 1]
        BY <1>6, <3>2, <4>1, <4>2
      <4>4. QED
        BY <1>2, <2>1, <4>3 DEF FilledToLimit
    <3>3. QED
      BY <3>1, <3>2
  <2>4. QED
    BY <2>2, <2>3 DEF FilledToLimit
<1>10. NothingLost'
  <2>1. Given' = Wanted'
    <3>1. Given \o current \o <<>> = Given \o current
      BY <1>3, <1>8, ConcatEmptySeq, ConcatProperties
    <3>2. Wanted = ArgsFor(strategy, paths)
      BY <1>2 DEF Wanted, Sized
    <3>3. Wanted' = Wanted
      BY <1>2, InputKept
    <3>4. QED
      BY <1>2, <1>4, <1>8, <3>1, <3>2, <3>3
  <2>2. (\E k \in DOMAIN parts' : parts'[k].args = <<>>) => current = <<>>
    BY <1>4, <1>5, <1>6
  <2>3. current = <<>> => strategy = "directories" /\ paths = <<>>
    <3>1. SUFFICES ASSUME current = <<>>
                   PROVE  strategy = "directories" /\ paths = <<>>
      OBVIOUS
    <3>2. parts = <<>>
      BY <1>4, <3>1
    <3>3. Given = <<>>
      BY <3>2, ArgsOfParts DEF Given, ArgsOf
    <3>4. ArgsFor(strategy, paths) = <<>>
      BY <1>2, <1>4, <3>1, <3>3, ConcatEmptySeq
    <3>5. strategy = "directories"
      BY <1>2, <1>4, <3>4 DEF IsNothing, Sized
    <3>6. QED
      BY <3>4, <3>5 DEF ArgsFor
  <2>4. QED
    BY <1>2, <2>1, <2>2, <2>3 DEF NothingLost
<1>11. Unbegun' /\ Filling' /\ InTurn'
  BY <1>2 DEF Unbegun, Filling, InTurn
<1>12. SharedInTurn'
  BY <1>1, <1>2, <1>5, <1>6 DEF Inv, SharedInTurn
<1>13. QED
  BY <1>7, <1>9, <1>10, <1>11, <1>12 DEF Inv

\* EndDirectories: every directory has been taken.
LEMMA EndDirectoriesStep == Inv /\ EndDirectories => Inv'
<1>1. SUFFICES ASSUME Inv, EndDirectories
               PROVE  Inv'
  OBVIOUS
<1>2. /\ at = "adding" /\ strategy \notin Sized /\ args = <<>> /\ at' = "done"
      /\ parts' = parts /\ tail' = tail /\ args' = args
      /\ current' = current /\ size' = size /\ UNCHANGED input
      /\ strategy' = strategy /\ spare' = spare /\ gopath' = gopath /\ paths' = paths
  BY <1>1 DEF EndDirectories, input
<1>3. paths \in Seq(Dirs)
  BY <1>1 DEF Inv, TypeOK
<1>4. PICK k \in 0 .. Len(paths) :
        /\ args = SubSeq(paths, k + 1, Len(paths))
        /\ Given = IF strategy = "files-by-package" THEN FilesIn(SubSeq(paths, 1, k))
                   ELSE SubSeq(paths, 1, k)
        /\ \A n \in DOMAIN parts : parts[n].args # <<>>
  BY <1>1, <1>2 DEF Inv, InTurn
<1>5. SubSeq(paths, 1, k) = paths
  <2>1. k = Len(paths)
    <3>1. Len(paths) \in Nat /\ k \in Nat /\ k <= Len(paths)
      BY <1>3
    <3>2. SUFFICES ASSUME k < Len(paths)
                   PROVE  FALSE
      BY <3>1
    <3>3. Len(SubSeq(paths, k + 1, Len(paths))) # 0
      BY <1>3, <3>1, <3>2
    <3>4. SubSeq(paths, k + 1, Len(paths)) = <<>>
      BY <1>2, <1>4, Zenon
    <3>5. QED
      BY <3>3, <3>4
  <2>2. QED
    BY <1>3, <2>1
<1>6. NothingLost'
  <2>1. Given' = Given
    BY <1>2 DEF Given
  <2>2. Wanted' = Wanted
    BY <1>2, InputKept
  <2>3. Wanted = IF strategy = "files-by-package" THEN FilesIn(paths) ELSE paths
    BY <1>2 DEF Wanted, Sized
  <2>4. QED
    BY <1>2, <1>4, <1>5, <2>1, <2>2, <2>3 DEF NothingLost
<1>7. TypeOK' /\ Unbegun' /\ Filling' /\ InTurn'
  BY <1>1, <1>2 DEF Inv, TypeOK, Unbegun, Filling, InTurn
<1>8. SharedInTurn' /\ FilledToLimit'
  BY <1>1, <1>2 DEF Inv, SharedInTurn, FilledToLimit
<1>9. QED
  BY <1>6, <1>7, <1>8 DEF Inv

\* What is left of a sequence when one more element has been taken, and what has been taken.
LEMMA TakeOne ==
  ASSUME NEW S, NEW xs \in Seq(S), NEW k \in 0 .. Len(xs), SubSeq(xs, k + 1, Len(xs)) # <<>>
  PROVE  /\ k + 1 \in 0 .. Len(xs) /\ xs[k + 1] \in S
         /\ Head(SubSeq(xs, k + 1, Len(xs))) = xs[k + 1]
         /\ Tail(SubSeq(xs, k + 1, Len(xs))) = SubSeq(xs, k + 2, Len(xs))
         /\ SubSeq(xs, 1, k) \in Seq(S)
         /\ SubSeq(xs, 1, k + 1) = Append(SubSeq(xs, 1, k), xs[k + 1])
<1>1. k \in Nat /\ Len(xs) \in Nat /\ k <= Len(xs)
  OBVIOUS
<1>2. k < Len(xs)
  <2>1. SUFFICES ASSUME k = Len(xs)
                 PROVE  FALSE
    BY <1>1
  <2>2. Len(SubSeq(xs, k + 1, Len(xs))) = 0 /\ SubSeq(xs, k + 1, Len(xs)) \in Seq(S)
    BY <1>1, <2>1
  <2>3. QED
    BY <2>2, EmptySeq
<1>3. k + 1 \in 1 .. Len(xs) /\ xs[k + 1] \in S
  BY <1>1, <1>2
<1>4. /\ Head(SubSeq(xs, k + 1, Len(xs))) = xs[k + 1]
      /\ Tail(SubSeq(xs, k + 1, Len(xs))) = SubSeq(xs, k + 2, Len(xs))
  BY <1>1, <1>2
<1>5. /\ SubSeq(xs, 1, k) \in Seq(S)
      /\ SubSeq(xs, 1, k + 1) = Append(SubSeq(xs, 1, k), xs[k + 1])
  BY <1>1, <1>2
<1>6. QED
  BY <1>1, <1>3, <1>4, <1>5

\* append with room for its arguments: they are at the beginning of the array.
LEMMA WrittenOver ==
  ASSUME NEW S, NEW xs \in Seq(S), NEW ys \in Seq(S), NEW n \in Nat, Len(xs) <= n, Len(ys) <= n
  PROVE  LET zs == xs \o SubSeq(ys, Len(xs) + 1, Len(ys))
         IN  /\ zs \in Seq(S) /\ Len(zs) <= n
             /\ Len(xs) <= Len(zs) /\ SubSeq(zs, 1, Len(xs)) = xs
<1> DEFINE rest == SubSeq(ys, Len(xs) + 1, Len(ys))
           zs == xs \o rest
<1>1. Len(xs) \in Nat /\ Len(ys) \in Nat
  OBVIOUS
<1>2. rest \in Seq(S) /\ Len(rest) \in Nat /\ Len(xs) + Len(rest) <= n
  <2>1. rest \in Seq(S)
    BY <1>1
  <2>2. Len(rest) = IF Len(xs) + 1 <= Len(ys) THEN Len(ys) - Len(xs) ELSE 0
    BY <1>1
  <2>3. QED
    BY <1>1, <2>1, <2>2
<1> HIDE DEF rest
<1>3. zs \in Seq(S) /\ Len(zs) = Len(xs) + Len(rest) /\ \A i \in 1 .. Len(xs) : zs[i] = xs[i]
  BY <1>2, ConcatProperties
<1> HIDE DEF zs
<1>4. SubSeq(zs, 1, Len(xs)) = xs
  <2>1. Len(SubSeq(zs, 1, Len(xs))) = Len(xs) /\ SubSeq(zs, 1, Len(xs)) \in Seq(S)
    BY <1>1, <1>2, <1>3
  <2>2. \A i \in 1 .. Len(xs) : SubSeq(zs, 1, Len(xs))[i] = xs[i]
    BY <1>1, <1>2, <1>3
  <2>3. QED
    BY <2>1, <2>2, SeqEqual
<1>5. QED
  BY <1>1, <1>2, <1>3, <1>4 DEF zs, rest

\* AddDirectory: one directory gives a command line, or none if it has no files.
LEMMA AddDirectoryStep ==
  ASSUME Inv, NEW d, AddDirectory(d)
  PROVE  Inv'
<1> DEFINE xs   == LineOf(d)
           line == [args |-> xs, shared |-> FitsSpare(xs)]
<1>1. /\ at = "adding" /\ strategy \notin Sized /\ args # <<>> /\ d = Head(args)
      /\ args' = Tail(args) /\ at' = at /\ current' = current /\ size' = size /\ UNCHANGED input
      /\ strategy' = strategy /\ spare' = spare /\ gopath' = gopath /\ paths' = paths
  BY DEF AddDirectory, input
<1>2. /\ paths \in Seq(Dirs) /\ parts \in Seq(Part) /\ tail \in Seq(Args) /\ Len(tail) <= spare
      /\ spare \in Nat /\ strategy \in {"files-by-package", "single-directory"}
  BY <1>1, PartitionAssumption DEF Inv, TypeOK, Part, Strategies, Sized
<1>3. PICK k \in 0 .. Len(paths) :
        /\ args = SubSeq(paths, k + 1, Len(paths))
        /\ Given = IF strategy = "files-by-package" THEN FilesIn(SubSeq(paths, 1, k))
                   ELSE SubSeq(paths, 1, k)
        /\ \A n \in DOMAIN parts : parts[n].args # <<>>
  BY <1>1 DEF Inv, InTurn
<1>4. /\ k + 1 \in 0 .. Len(paths) /\ d \in Dirs
      /\ args' = SubSeq(paths, (k + 1) + 1, Len(paths))
      /\ SubSeq(paths, 1, k) \in Seq(Dirs)
      /\ SubSeq(paths, 1, k + 1) = Append(SubSeq(paths, 1, k), d)
  <2>1. SubSeq(paths, k + 1, Len(paths)) # <<>>
    BY <1>1, <1>3
  <2>2. /\ k + 1 \in 0 .. Len(paths) /\ paths[k + 1] \in Dirs
        /\ Head(SubSeq(paths, k + 1, Len(paths))) = paths[k + 1]
        /\ Tail(SubSeq(paths, k + 1, Len(paths))) = SubSeq(paths, k + 2, Len(paths))
        /\ SubSeq(paths, 1, k) \in Seq(Dirs)
        /\ SubSeq(paths, 1, k + 1) = Append(SubSeq(paths, 1, k), paths[k + 1])
    BY <1>2, <2>1, TakeOne
  <2>3. d = Head(SubSeq(paths, k + 1, Len(paths)))
        /\ args' = Tail(SubSeq(paths, k + 1, Len(paths)))
    BY <1>1, <1>3, Zenon
  <2>4. (k + 1) + 1 = k + 2
    OBVIOUS
  <2>5. QED
    BY <2>2, <2>3, <2>4
<1>5. xs \in Seq(Args) /\ (strategy = "files-by-package" => xs = FilesOf[d])
      /\ (strategy = "single-directory" => xs = <<d>>)
  <2>1. FilesOf[d] \in Seq(Files) /\ Files \subseteq Args /\ Dirs \subseteq Args
    BY <1>4, PartitionAssumption DEF Args
  <2>2. FilesOf[d] \in Seq(Args) /\ <<d>> \in Seq(Args)
    BY <1>4, <2>1, SeqMonotonic
  <2>3. QED
    BY <1>2, <2>2 DEF LineOf
<1>6. Given \in Seq(Args)
  BY <1>2, ArgsOfParts DEF Given, ArgsOf
<1>7. CASE xs = <<>>
  <2>1. parts' = parts /\ tail' = tail
    BY <1>7 DEF AddDirectory
  <2>2. TypeOK'
    <3>1. args' \in Seq(Args)
      BY <1>1 DEF Inv, TypeOK
    <3>2. QED
      BY <1>1, <2>1, <3>1 DEF Inv, TypeOK
  <2>3. InTurn'
    <3>1. strategy = "files-by-package" /\ FilesOf[d] = <<>>
      BY <1>2, <1>5, <1>7
    <3>2. Given' = Given
      BY <2>1 DEF Given
    <3>3. Given = FilesIn(SubSeq(paths, 1, k + 1))
      <4>1. FilesIn(SubSeq(paths, 1, k)) \in Seq(Files)
        BY <1>4, FilesInDirs
      <4>2. FilesIn(SubSeq(paths, 1, k + 1)) = FilesIn(SubSeq(paths, 1, k)) \o FilesOf[d]
        BY <1>4, FilesInDirs
      <4>3. QED
        BY <1>3, <3>1, <4>1, <4>2, ConcatEmptySeq
    <3>4. FilesIn(SubSeq(paths, 1, k + 1))' = FilesIn(SubSeq(paths, 1, k + 1))
      BY <1>1 DEF FilesIn
    <3>5. QED
      BY <1>1, <1>3, <1>4, <2>1, <3>1, <3>2, <3>3, <3>4 DEF InTurn
  <2>4. Unbegun' /\ Filling' /\ SharedInTurn' /\ FilledToLimit' /\ NothingLost'
    BY <1>1, <2>1 DEF Inv, Unbegun, Filling, SharedInTurn, FilledToLimit, NothingLost
  <2>5. QED
    BY <2>2, <2>3, <2>4 DEF Inv
<1>8. CASE xs # <<>>
  <2>1. /\ parts' = Append(parts, line)
        /\ tail' = IF FitsSpare(xs) THEN Overwritten(xs) ELSE tail
    BY <1>8 DEF AddDirectory
  <2>2. /\ line \in Part /\ line.args = xs /\ line.shared = FitsSpare(xs)
        /\ FitsSpare(xs) \in BOOLEAN /\ (FitsSpare(xs) <=> Len(xs) <= spare)
    BY <1>5 DEF Part, FitsSpare
  <2> HIDE DEF xs, line
  <2>3. /\ parts' \in Seq(Part) /\ Len(parts') = Len(parts) + 1 /\ Len(parts) \in Nat
        /\ DOMAIN parts = 1 .. Len(parts) /\ DOMAIN parts' = 1 .. Len(parts) + 1
        /\ \A n \in DOMAIN parts : parts'[n] = parts[n]
        /\ parts'[Len(parts) + 1] = line
    BY <1>2, <2>1, <2>2
  <2>4. /\ tail' \in Seq(Args) /\ Len(tail') <= spare
        /\ FitsSpare(xs) => Len(xs) <= Len(tail') /\ SubSeq(tail', 1, Len(xs)) = xs
    <3>1. CASE FitsSpare(xs)
      <4>1. Len(xs) <= spare
        BY <2>2, <3>1
      <4>2. LET zs == xs \o SubSeq(tail, Len(xs) + 1, Len(tail))
            IN  /\ zs \in Seq(Args) /\ Len(zs) <= spare
                /\ Len(xs) <= Len(zs) /\ SubSeq(zs, 1, Len(xs)) = xs
        BY <1>2, <1>5, <4>1, WrittenOver
      <4>3. tail' = xs \o SubSeq(tail, Len(xs) + 1, Len(tail))
        BY <2>1, <3>1 DEF Overwritten
      <4>4. QED
        BY <4>2, <4>3, Zenon
    <3>2. CASE ~FitsSpare(xs)
      BY <1>2, <2>1, <3>2
    <3>3. QED
      BY <3>1, <3>2
  <2>5. TypeOK'
    <3>1. args' \in Seq(Args)
      BY <1>1 DEF Inv, TypeOK
    <3>2. QED
      BY <1>1, <2>3, <2>4, <3>1 DEF Inv, TypeOK, Part
  <2>6. InTurn'
    <3>1. Given' = Given \o xs
      BY <1>2, <2>1, <2>2, ArgsOfParts DEF Given, ArgsOf
    <3>2. Given' = IF strategy = "files-by-package" THEN FilesIn(SubSeq(paths, 1, k + 1))
                   ELSE SubSeq(paths, 1, k + 1)
      <4>1. CASE strategy = "files-by-package"
        BY <1>3, <1>4, <1>5, <3>1, <4>1, FilesInDirs
      <4>2. CASE strategy = "single-directory"
        <5>1. Append(SubSeq(paths, 1, k), d) = SubSeq(paths, 1, k) \o <<d>>
          BY <1>4
        <5>2. QED
          BY <1>3, <1>4, <1>5, <3>1, <4>2, <5>1
      <4>3. QED
        BY <1>2, <4>1, <4>2
    <3>3. FilesIn(SubSeq(paths, 1, k + 1))' = FilesIn(SubSeq(paths, 1, k + 1))
      BY <1>1 DEF FilesIn
    <3>4. \A n \in DOMAIN parts' : parts'[n].args # <<>>
      BY <1>3, <1>8, <2>2, <2>3
    <3>5. QED
      BY <1>1, <1>4, <3>2, <3>3, <3>4 DEF InTurn
  <2>7. SharedInTurn'
    <3>1. SharedInTurn
      BY DEF Inv
    <3>2. SUFFICES ASSUME NEW n \in DOMAIN parts', parts'[n].shared
                   PROVE  /\ strategy \notin Sized /\ Len(parts'[n].args) <= spare
                          /\ \/ /\ Len(parts'[n].args) <= Len(tail')
                                /\ SubSeq(tail', 1, Len(parts'[n].args)) = parts'[n].args
                             \/ \E m \in n + 1 .. Len(parts') : parts'[m].shared
      BY <1>1 DEF SharedInTurn
    <3>3. CASE n = Len(parts) + 1
      <4>1. parts'[n].args = xs /\ FitsSpare(xs)
        BY <2>2, <2>3, <3>2, <3>3
      <4>2. QED
        BY <1>1, <2>2, <2>4, <4>1
    <3>4. CASE n # Len(parts) + 1
      <4>1. n \in DOMAIN parts /\ parts'[n] = parts[n] /\ parts[n].shared /\ n \in Nat
        BY <2>3, <3>2, <3>4
      <4>2. /\ Len(parts[n].args) <= spare
            /\ \/ Len(parts[n].args) <= Len(tail) /\ SubSeq(tail, 1, Len(parts[n].args)) = parts[n].args
               \/ \E m \in n + 1 .. Len(parts) : parts[m].shared
        BY <3>1, <4>1 DEF SharedInTurn
      <4>3. CASE FitsSpare(xs)
        <5>1. Len(parts) + 1 \in n + 1 .. Len(parts')
          BY <2>3, <4>1
        <5>2. parts'[Len(parts) + 1].shared
          BY <2>2, <2>3, <4>3
        <5>3. QED
          BY <1>1, <4>1, <4>2, <5>1, <5>2
      <4>4. CASE ~FitsSpare(xs)
        <5>1. tail' = tail
          BY <2>1, <4>4
        <5>2. ASSUME NEW m \in n + 1 .. Len(parts), parts[m].shared
              PROVE  m \in n + 1 .. Len(parts') /\ parts'[m].shared
          <6>1. m \in DOMAIN parts /\ m \in n + 1 .. Len(parts')
            BY <2>3, <4>1
          <6>2. QED
            BY <2>3, <5>2, <6>1
        <5>3. QED
          BY <1>1, <4>1, <4>2, <5>1, <5>2
      <4>5. QED
        BY <4>3, <4>4
    <3>5. QED
      BY <3>3, <3>4
  <2>8. Unbegun' /\ Filling' /\ FilledToLimit' /\ NothingLost'
    BY <1>1 DEF Unbegun, Filling, FilledToLimit, NothingLost
  <2>9. QED
    BY <2>5, <2>6, <2>7, <2>8 DEF Inv
<1>9. QED
  BY <1>7, <1>8

\* A step that leaves the partition alone.
LEMMA StutterStep == Inv /\ UNCHANGED vars => Inv'
<1>1. SUFFICES ASSUME Inv, UNCHANGED vars
               PROVE  Inv'
  OBVIOUS
<1>2. UNCHANGED input
  BY <1>1 DEF vars, input
<1>3. TypeOK' /\ Unbegun' /\ SharedInTurn' /\ FilledToLimit'
  BY <1>1 DEF Inv, vars, input, TypeOK, Unbegun, SharedInTurn, FilledToLimit
<1>4. Given' = Given
  BY <1>1 DEF vars, Given
<1>5. Filling' /\ NothingLost'
  BY <1>1, <1>2, <1>4, InputKept DEF Inv, vars, input, Filling, NothingLost
<1>6. InTurn'
  <2>1. \A k : FilesIn(SubSeq(paths, 1, k))' = FilesIn(SubSeq(paths, 1, k))
    BY <1>1 DEF vars, input, FilesIn
  <2>2. QED
    BY <1>1, <1>4, <2>1 DEF Inv, vars, input, InTurn
<1>7. QED
  BY <1>3, <1>5, <1>6 DEF Inv

\* Every step of the partition keeps the invariant.
LEMMA InvNext == Inv /\ Next => Inv'
<1>1. SUFFICES ASSUME Inv, Next
               PROVE  Inv'
  OBVIOUS
<1>2. CASE Fail
  BY <1>1, <1>2, FailStep
<1>3. CASE NothingToDo
  BY <1>1, <1>3, NothingToDoStep
<1>4. CASE Begin
  BY <1>1, <1>4, BeginStep
<1>5. CASE End
  BY <1>1, <1>5, EndStep
<1>6. CASE EndDirectories
  BY <1>1, <1>6, EndDirectoriesStep
<1>7. CASE Add(Head(args))
  BY <1>1, <1>7, AddStep
<1>8. CASE AddDirectory(Head(args))
  BY <1>1, <1>8, AddDirectoryStep
<1>9. CASE Returned
  BY <1>1, <1>9, StutterStep DEF Returned
<1>10. QED
  BY <1>1, <1>2, <1>3, <1>4, <1>5, <1>6, <1>7, <1>8, <1>9 DEF Next

-----------------------------------------------------------------------------
(***************************************************************************)
(* Theorems about Partition alone, for any list of paths.                  *)
(***************************************************************************)
LEMMA InvStart == Init => Inv
<1>1. Init => Idle /\ paths \in Seq(Dirs)
  BY PartitionAssumption DEF Init
<1>2. QED
  BY <1>1, InvInit

\* The sized strategies fill one line after the other with what they are handed, the
\* others take one directory after the other (partition.go:37-163).
THEOREM PartitionCorrect == Spec => []Inv
<1>1. Inv /\ [Next]_vars => Inv'
  BY InvNext, StutterStep
<1>2. QED
  BY <1>1, InvStart, PTL DEF Spec

\* Every command line is as long as the limit allows, and no longer.
THEOREM FilledIsFull == Spec => []FilledToLimit
<1>1. Inv => FilledToLimit
  BY DEF Inv
<1>2. QED
  BY <1>1, PartitionCorrect, PTL

\* Every argument is on exactly one command line, in order.
THEOREM NoneIsLost == Spec => []NothingLost
<1>1. Inv => NothingLost
  BY DEF Inv
<1>2. QED
  BY <1>1, PartitionCorrect, PTL

\* A line whose words the array of the base had room for keeps them until a later one
\* is written over it.
LEMMA Overwriting == Inv => RunAsBuilt
<1>1. SUFFICES ASSUME Inv, NEW k \in DOMAIN parts
               PROVE  \/ Run(parts[k]) = parts[k].args
                      \/ /\ strategy \notin Sized /\ Len(parts[k].args) <= spare
                         /\ \E m \in k + 1 .. Len(parts) : Len(parts[m].args) <= spare
  BY DEF RunAsBuilt
<1>2. SharedInTurn /\ parts \in Seq(Part)
  BY <1>1 DEF Inv, TypeOK, Part
<1>3. CASE ~parts[k].shared
  BY <1>3 DEF Run
<1>4. CASE parts[k].shared
  <2>1. /\ strategy \notin Sized /\ Len(parts[k].args) <= spare
        /\ \/ SubSeq(tail, 1, Len(parts[k].args)) = parts[k].args
           \/ \E m \in k + 1 .. Len(parts) : parts[m].shared
    BY <1>2, <1>4 DEF SharedInTurn
  <2>2. ASSUME NEW m \in k + 1 .. Len(parts), parts[m].shared
        PROVE  Len(parts[m].args) <= spare
    <3>1. k \in 1 .. Len(parts) /\ DOMAIN parts = 1 .. Len(parts)
      BY <1>2
    <3>2. m \in DOMAIN parts
      BY <3>1
    <3>3. QED
      BY <1>2, <2>2, <3>2 DEF SharedInTurn
  <2>3. QED
    BY <1>4, <2>1, <2>2 DEF Run
<1>5. QED
  BY <1>3, <1>4

\* A linter is run with the arguments its command line was built for, or a later line
\* is as short as the spare room of the array.
THEOREM RunsAsBuilt == Spec => []RunAsBuilt
  BY Overwriting, PartitionCorrect, PTL

-----------------------------------------------------------------------------
(***************************************************************************)
(* Paths.  A step of Clean or of the resolution of links is taken for each *)
(* name, so that a path with one name more is one step further.            *)
(***************************************************************************)
AnyPath == Seq(AllNames)
CleanF  == [x \in AnyPath \X AllNames |-> CleanStep(x[1], x[2])]
FollowF == [x \in AnyPath \X AllNames |-> Follow(x[1], x[2])]
Cleaned(p) == FoldLeft(CleanStep, <<>>, p)
Resolved(q) == FoldLeft(Follow, <<>>, q)

\* The steps give paths.
LEMMA StepTypes ==
  ASSUME NEW q \in AnyPath, NEW m \in AllNames
  PROVE  CleanStep(q, m) \in AnyPath /\ Follow(q, m) \in AnyPath
<1>1. Append(q, m) \in AnyPath /\ (q # <<>> => Front(q) \in AnyPath)
  BY DEF AnyPath, Front
<1>2. CleanStep(q, m) \in AnyPath
  BY <1>1 DEF CleanStep
<1>3. \A p \in DOMAIN Link : Link[p] \in AnyPath
  BY PathsAssumption DEF Tree, Directory, AnyPath
<1> QED
  BY <1>1, <1>2, <1>3 DEF Follow

\* The library's folds are these.
LEMMA Folds ==
  ASSUME NEW p \in AnyPath
  PROVE  /\ IsFolder(CleanF, <<>>, AnyPath, AllNames) /\ Cleaned(p) = FoldOf(CleanF, <<>>, p)
         /\ IsFolder(FollowF, <<>>, AnyPath, AllNames) /\ Resolved(p) = FoldOf(FollowF, <<>>, p)
<1>1. <<>> \in AnyPath /\ p \in Seq(AllNames)
  BY DEF AnyPath
<1>2. IsFolder(CleanF, <<>>, AnyPath, AllNames) /\ IsFolder(FollowF, <<>>, AnyPath, AllNames)
  BY <1>1, StepTypes DEF IsFolder, CleanF, FollowF
<1>3. Cleaned(p) = FoldOf(CleanF, <<>>, p)
  <2> DEFINE Steps(h) == h = [s \in SUBSET DOMAIN p |->
                IF s = {} THEN <<>> ELSE CleanStep(h[s \ {Max(s)}], p[Max(s)])]
             g == CHOOSE h : Steps(h)
  <2>1. PICK h : FoldsIn(h, CleanF, <<>>, p, AnyPath, AllNames)
    BY <1>1, <1>2, FoldInV
  <2>2. Steps(h)
    <3>1. \A s \in SUBSET DOMAIN p : s # {} =>
            CleanF[<<h[s \ {Max(s)}], p[Max(s)]>>] = CleanStep(h[s \ {Max(s)}], p[Max(s)])
      BY <2>1 DEF FoldsIn, CleanF
    <3> QED
      BY <2>1, <3>1 DEF FoldsIn, IsFold
  <2>3. Steps(g) /\ Cleaned(p) = g[DOMAIN p]
    BY <2>2 DEF Cleaned, FoldLeft, MapThenFoldSet
  <2> HIDE DEF g
  <2>4. g[{}] = <<>>
    BY <2>3
  <2>5. ASSUME NEW s \in SUBSET DOMAIN p, s # {}, g[s \ {Max(s)}] \in AnyPath, p[Max(s)] \in AllNames
        PROVE  g[s] = CleanF[<<g[s \ {Max(s)}], p[Max(s)]>>]
    <3>1. g[s] = CleanStep(g[s \ {Max(s)}], p[Max(s)])
      BY <2>3, <2>5
    <3> QED
      BY <2>5, <3>1 DEF CleanF
  <2>6. HasSteps(g, CleanF, <<>>, p, AnyPath, AllNames)
    BY <2>4, <2>5 DEF HasSteps
  <2> QED
    BY <1>1, <1>2, <2>3, <2>6, SameFold
<1>4. Resolved(p) = FoldOf(FollowF, <<>>, p)
  <2> DEFINE Steps(h) == h = [s \in SUBSET DOMAIN p |->
                IF s = {} THEN <<>> ELSE Follow(h[s \ {Max(s)}], p[Max(s)])]
             g == CHOOSE h : Steps(h)
  <2>1. PICK h : FoldsIn(h, FollowF, <<>>, p, AnyPath, AllNames)
    BY <1>1, <1>2, FoldInV
  <2>2. Steps(h)
    <3>1. \A s \in SUBSET DOMAIN p : s # {} =>
            FollowF[<<h[s \ {Max(s)}], p[Max(s)]>>] = Follow(h[s \ {Max(s)}], p[Max(s)])
      BY <2>1 DEF FoldsIn, FollowF
    <3> QED
      BY <2>1, <3>1 DEF FoldsIn, IsFold
  <2>3. Steps(g) /\ Resolved(p) = g[DOMAIN p]
    BY <2>2 DEF Resolved, FoldLeft, MapThenFoldSet
  <2> HIDE DEF g
  <2>4. g[{}] = <<>>
    BY <2>3
  <2>5. ASSUME NEW s \in SUBSET DOMAIN p, s # {}, g[s \ {Max(s)}] \in AnyPath, p[Max(s)] \in AllNames
        PROVE  g[s] = FollowF[<<g[s \ {Max(s)}], p[Max(s)]>>]
    <3>1. g[s] = Follow(g[s \ {Max(s)}], p[Max(s)])
      BY <2>3, <2>5
    <3> QED
      BY <2>5, <3>1 DEF FollowF
  <2>6. HasSteps(g, FollowF, <<>>, p, AnyPath, AllNames)
    BY <2>4, <2>5 DEF HasSteps
  <2> QED
    BY <1>1, <1>2, <2>3, <2>6, SameFold
<1> QED
  BY <1>2, <1>3, <1>4

\* One name more.
LEMMA OneName ==
  ASSUME NEW p \in AnyPath
  PROVE  /\ Cleaned(<<>>) = <<>> /\ Cleaned(p) \in AnyPath
         /\ Resolved(<<>>) = <<>> /\ Resolved(p) \in AnyPath
         /\ \A m \in AllNames :
              /\ Cleaned(Append(p, m)) = CleanStep(Cleaned(p), m)
              /\ Resolved(Append(p, m)) = Follow(Resolved(p), m)
<1> DEFINE F(f, q) == FoldOf(f, <<>>, q)
<1>1. p \in Seq(AllNames) /\ <<>> \in AnyPath /\ \A m \in AllNames : Append(p, m) \in AnyPath
  BY DEF AnyPath
<1>2. IsFolder(CleanF, <<>>, AnyPath, AllNames) /\ IsFolder(FollowF, <<>>, AnyPath, AllNames)
  BY Folds
<1>3. /\ F(CleanF, <<>>) = <<>> /\ F(CleanF, p) \in AnyPath
      /\ \A m \in AllNames : F(CleanF, Append(p, m)) = CleanF[<<F(CleanF, p), m>>]
  <2>1. F(CleanF, <<>>) = <<>> /\ F(CleanF, p) \in AnyPath
    BY <1>1, <1>2, FoldedType
  <2>2. ASSUME NEW m \in AllNames
        PROVE  F(CleanF, Append(p, m)) = CleanF[<<F(CleanF, p), m>>]
    BY <1>1, <1>2, FoldedAppend
  <2> QED
    BY <2>1, <2>2
<1>4. /\ F(FollowF, <<>>) = <<>> /\ F(FollowF, p) \in AnyPath
      /\ \A m \in AllNames : F(FollowF, Append(p, m)) = FollowF[<<F(FollowF, p), m>>]
  <2>1. F(FollowF, <<>>) = <<>> /\ F(FollowF, p) \in AnyPath
    BY <1>1, <1>2, FoldedType
  <2>2. ASSUME NEW m \in AllNames
        PROVE  F(FollowF, Append(p, m)) = FollowF[<<F(FollowF, p), m>>]
    BY <1>1, <1>2, FoldedAppend
  <2> QED
    BY <2>1, <2>2
<1>5. \A q \in AnyPath : Cleaned(q) = F(CleanF, q) /\ Resolved(q) = F(FollowF, q)
  BY Folds
<1> HIDE DEF F
<1>6. \A m \in AllNames : /\ CleanF[<<F(CleanF, p), m>>] = CleanStep(F(CleanF, p), m)
                          /\ FollowF[<<F(FollowF, p), m>>] = Follow(F(FollowF, p), m)
  BY <1>3, <1>4 DEF CleanF, FollowF
<1> QED
  BY <1>1, <1>3, <1>4, <1>5, <1>6

\* Names that can stand anywhere but at the front.
PlainNames == AllNames \ {"/", ".", ".."}
Rel == Seq(PlainNames)

\* Sequences with one element more.
LEMMA AppendConcat ==
  ASSUME NEW S, NEW p, NEW t, NEW x, p \in Seq(S), t \in Seq(S), x \in S
  PROVE  p \o Append(t, x) = Append(p \o t, x) /\ p \o t \in Seq(S) /\ p \o <<>> = p
  OBVIOUS

\* Plain names are put behind what has been cleaned before.
LEMMA CleanAfter ==
  ASSUME NEW p \in AnyPath, NEW rel \in Rel
  PROVE  Cleaned(p \o rel) = Cleaned(p) \o rel
<1> DEFINE G == {t \in Rel : Cleaned(p \o t) = Cleaned(p) \o t}
<1>1. \A t \in Rel : t \in AnyPath
  BY DEF Rel, AnyPath, PlainNames
<1>2. <<>> \in G
  <2>1. <<>> \in Rel /\ p \o <<>> = p
    BY DEF Rel, AnyPath
  <2>2. Cleaned(p) \in Seq(AllNames)
    BY OneName DEF AnyPath
  <2>3. Cleaned(p) \o <<>> = Cleaned(p)
    BY <2>2
  <2> QED
    BY <2>1, <2>3
<1>3. ASSUME NEW t \in Seq(PlainNames), NEW x \in PlainNames, t \in G
      PROVE  Append(t, x) \in G
  <2>1. t \in AnyPath /\ x \in AllNames /\ x \notin {"/", ".", ".."} /\ Append(t, x) \in Rel
    BY <1>1, <1>3 DEF PlainNames, Rel
  <2>2. p \o Append(t, x) = Append(p \o t, x) /\ p \o t \in AnyPath
    BY <2>1, AppendConcat DEF AnyPath
  <2>3. Cleaned(Append(p \o t, x)) = CleanStep(Cleaned(p \o t), x)
    BY <2>1, <2>2, OneName
  <2>4. Cleaned(p \o t) = Cleaned(p) \o t
    BY <1>3
  <2>5. CleanStep(Cleaned(p \o t), x) = Append(Cleaned(p \o t), x)
    BY <2>1 DEF CleanStep
  <2>6. Cleaned(p) \in AnyPath
    BY OneName
  <2>7. Cleaned(p) \o Append(t, x) = Append(Cleaned(p) \o t, x)
    BY <2>1, <2>6, AppendConcat DEF AnyPath
  <2> QED
    BY <2>1, <2>2, <2>3, <2>4, <2>5, <2>7
<1>4. Seq(PlainNames) \subseteq G
  <2> HIDE DEF G
  <2> QED
    BY <1>2, <1>3, Growing
<1> QED
  BY <1>4 DEF Rel

\* What two paths that are cleaned to the same have behind them is cleaned alike.
LEMMA CleanAlike ==
  ASSUME NEW p \in AnyPath, NEW q \in AnyPath, Cleaned(p) = Cleaned(q), NEW rest \in AnyPath
  PROVE  Cleaned(p \o rest) = Cleaned(q \o rest)
<1> DEFINE G == {t \in AnyPath : Cleaned(p \o t) = Cleaned(q \o t)}
<1>1. <<>> \in G
  BY DEF AnyPath
<1>2. ASSUME NEW t \in Seq(AllNames), NEW x \in AllNames, t \in G
      PROVE  Append(t, x) \in G
  <2>1. /\ p \o Append(t, x) = Append(p \o t, x) /\ p \o t \in AnyPath
        /\ q \o Append(t, x) = Append(q \o t, x) /\ q \o t \in AnyPath
    BY AppendConcat DEF AnyPath
  <2>2. /\ Cleaned(Append(p \o t, x)) = CleanStep(Cleaned(p \o t), x)
        /\ Cleaned(Append(q \o t, x)) = CleanStep(Cleaned(q \o t), x)
    BY <2>1, OneName
  <2>3. Append(t, x) \in AnyPath
    BY DEF AnyPath
  <2> QED
    BY <1>2, <2>1, <2>2, <2>3
<1>3. Seq(AllNames) \subseteq G
  <2> HIDE DEF G
  <2> QED
    BY <1>1, <1>2, Growing
<1> QED
  BY <1>3 DEF AnyPath


-----------------------------------------------------------------------------
(***************************************************************************)
(* What Clean gives: no ".", and ".." only in front, which it leaves as    *)
(* it is.                                                                  *)
(***************************************************************************)
IsClean(q) == \A k \in 1 .. Len(q) : q[k] # "." /\ (q[k] = ".." => \A j \in 1 .. k - 1 : q[j] = "..")

\* All names but the last, and the last.
LEMMA FrontIs ==
  ASSUME NEW S, NEW s, s \in Seq(S), s # <<>>
  PROVE  /\ Len(s) \in Nat \ {0} /\ Front(s) \in Seq(S) /\ Len(Front(s)) = Len(s) - 1
         /\ \A k \in 1 .. Len(s) - 1 : Front(s)[k] = s[k]
         /\ Last(s) \in S /\ s = Append(Front(s), Last(s)) /\ Last(s) = s[Len(s)]
<1>1. Len(s) \in Nat \ {0} /\ \A k \in 1 .. Len(s) : s[k] \in S
  OBVIOUS
<1> DEFINE n == Len(s)
           f == SubSeq(s, 1, n - 1)
<1>2. f \in Seq(S) /\ Len(f) = n - 1 /\ \A k \in 1 .. n - 1 : f[k] = s[k]
  <2>1. n - 1 \in Nat /\ \A k \in 1 .. n - 1 : k \in 1 .. n
    BY <1>1
  <2> HIDE DEF n
  <2>2. Len(f) = n - 1 /\ \A k \in 1 .. n - 1 : f[k] = s[k]
    BY <2>1
  <2>3. f \in Seq(S)
    BY <1>1, <2>1, <2>2, IsASeq DEF n
  <2> QED
    BY <2>2, <2>3
<1>3. Front(s) = f /\ Last(s) = s[n] /\ s[n] \in S
  BY <1>1 DEF Front, Last
<1>4. s = Append(f, s[n])
  <2>1. Append(f, s[n]) \in Seq(S) /\ Len(Append(f, s[n])) = n
    BY <1>1, <1>2
  <2>2. \A k \in 1 .. n : Append(f, s[n])[k] = s[k]
    BY <1>1, <1>2
  <2> QED
    BY <2>1, <2>2, SeqEqual
<1> QED
  BY <1>1, <1>2, <1>3, <1>4

\* A name more that is not "." and is ".." only behind others.
LEMMA CleanGrows ==
  ASSUME NEW q, NEW m, q \in AnyPath, m \in AllNames, IsClean(q), m # ".",
         m = ".." => q = <<>> \/ Last(q) = ".."
  PROVE  IsClean(Append(q, m))
<1> DEFINE t == Append(q, m)
<1>1. /\ Len(t) = Len(q) + 1 /\ t[Len(q) + 1] = m /\ Len(q) \in Nat
      /\ \A k \in 1 .. Len(q) : t[k] = q[k]
  BY DEF AnyPath
<1>2. m = ".." => \A j \in 1 .. Len(q) : q[j] = ".."
  <2>1. ASSUME m = "..", q # <<>>
        PROVE  \A j \in 1 .. Len(q) : q[j] = ".."
    <3>1. Last(q) = ".." /\ Len(q) \in 1 .. Len(q)
      BY <2>1, <1>1 DEF AnyPath
    <3> QED
      BY <3>1, <1>1 DEF Last, IsClean
  <2> QED
    BY <2>1, <1>1
<1>3. ASSUME NEW k \in 1 .. Len(t)
      PROVE  t[k] # "." /\ (t[k] = ".." => \A j \in 1 .. k - 1 : t[j] = "..")
  <2>1. CASE k = Len(q) + 1
    BY <2>1, <1>1, <1>2
  <2>2. CASE k \in 1 .. Len(q)
    BY <2>2, <1>1 DEF IsClean
  <2> QED
    BY <1>1, <2>1, <2>2
<1> QED
  BY <1>3 DEF IsClean, t

\* A step of Clean keeps it so.
LEMMA CleanStepClean ==
  ASSUME NEW q, NEW m, q \in AnyPath, m \in AllNames, IsClean(q)
  PROVE  IsClean(CleanStep(q, m))
<1>1. CASE m = "."
  BY <1>1 DEF CleanStep
<1>2. CASE m = ".." /\ q # <<>> /\ q # <<"/">> /\ Last(q) # ".."
  <2>1. CleanStep(q, m) = Front(q)
    BY <1>2 DEF CleanStep
  <2>2. Len(Front(q)) = Len(q) - 1 /\ \A k \in 1 .. Len(q) - 1 : Front(q)[k] = q[k]
    BY <1>2, FrontIs DEF AnyPath
  <2>3. Len(q) \in Nat
    BY DEF AnyPath
  <2> QED
    BY <2>1, <2>2, <2>3 DEF IsClean
<1>3. CASE m = ".." /\ q = <<"/">>
  BY <1>3 DEF CleanStep
<1>4. CASE m = ".." /\ q # <<>> /\ q # <<"/">> /\ Last(q) = ".."
  <2>1. CleanStep(q, m) = Append(q, m)
    BY <1>4 DEF CleanStep
  <2> QED
    BY <2>1, <1>4, CleanGrows
<1>5. CASE m # "." /\ (m = ".." => q = <<>>)
  <2>1. CleanStep(q, m) = Append(q, m)
    BY <1>5 DEF CleanStep
  <2> QED
    BY <2>1, <1>5, CleanGrows
<1> QED
  BY <1>1, <1>2, <1>3, <1>4, <1>5

\* What has been cleaned is clean.
LEMMA CleanedClean ==
  ASSUME NEW p \in AnyPath
  PROVE  IsClean(Cleaned(p))
<1> DEFINE G == {t \in AnyPath : IsClean(Cleaned(t))}
<1>1. <<>> \in G
  <2>1. <<>> \in AnyPath
    BY DEF AnyPath
  <2> QED
    BY <2>1, OneName DEF IsClean
<1>2. ASSUME NEW t \in Seq(AllNames), NEW x \in AllNames, t \in G
      PROVE  Append(t, x) \in G
  <2>1. Append(t, x) \in AnyPath /\ t \in AnyPath
    BY DEF AnyPath
  <2>2. Cleaned(Append(t, x)) = CleanStep(Cleaned(t), x) /\ Cleaned(t) \in AnyPath
    BY <2>1, OneName
  <2> QED
    BY <1>2, <2>1, <2>2, CleanStepClean
<1>3. Seq(AllNames) \subseteq G
  <2> HIDE DEF G
  <2> QED
    BY <1>1, <1>2, Growing
<1> QED
  BY <1>3 DEF AnyPath

\* What is clean is left as it is.
LEMMA CleanFixed ==
  ASSUME NEW q \in AnyPath, IsClean(q)
  PROVE  Cleaned(q) = q
<1> DEFINE G == {t \in AnyPath : IsClean(t) => Cleaned(t) = t}
<1>1. <<>> \in G
  <2>1. <<>> \in AnyPath
    BY DEF AnyPath
  <2> QED
    BY <2>1, OneName
<1>2. ASSUME NEW t \in Seq(AllNames), NEW x \in AllNames, t \in G
      PROVE  Append(t, x) \in G
  <2> DEFINE u == Append(t, x)
  <2>1. u \in AnyPath /\ t \in AnyPath
    BY DEF AnyPath
  <2>2. Cleaned(u) = CleanStep(Cleaned(t), x)
    BY <2>1, OneName
  <2>3. ASSUME IsClean(u)
        PROVE  Cleaned(u) = u
    <3>1. Len(u) = Len(t) + 1 /\ u[Len(t) + 1] = x /\ Len(t) \in Nat /\ \A k \in 1 .. Len(t) : u[k] = t[k]
      OBVIOUS
    <3>2. IsClean(t)
      BY <2>3, <3>1 DEF IsClean
    <3>3. x # "." /\ (x = ".." => \A j \in 1 .. Len(t) : t[j] = "..")
      <4>1. Len(t) + 1 \in 1 .. Len(u) /\ (Len(t) + 1) - 1 = Len(t)
        BY <3>1
      <4>2. u[Len(t) + 1] # "." /\ (u[Len(t) + 1] = ".." => \A j \in 1 .. Len(t) : u[j] = "..")
        BY <2>3, <4>1 DEF IsClean
      <4> QED
        BY <3>1, <4>2
    <3>4. CleanStep(t, x) = u
      <4>1. CASE x = ".." /\ t # <<>>
        <5>1. Len(t) \in 1 .. Len(t) /\ 1 \in 1 .. Len(t)
          BY <4>1, <3>1
        <5>2. Last(t) = ".." /\ t[1] = ".."
          BY <4>1, <5>1, <3>3 DEF Last
        <5>3. t # <<"/">>
          BY <5>2
        <5> QED
          BY <4>1, <5>2, <5>3 DEF CleanStep
      <4>2. CASE x # ".." \/ t = <<>>
        BY <4>2, <3>3 DEF CleanStep
      <4> QED
        BY <4>1, <4>2
    <3> QED
      BY <1>2, <2>2, <3>2, <3>4
  <2> QED
    BY <2>1, <2>3
<1>3. Seq(AllNames) \subseteq G
  <2> HIDE DEF G
  <2> QED
    BY <1>1, <1>2, Growing
<1> QED
  BY <1>3 DEF AnyPath

\* What begins with the root still does.
LEMMA StaysAbsolute ==
  ASSUME NEW p \in AnyPath, p # <<>>, p[1] = "/"
  PROVE  Cleaned(p) # <<>> /\ Cleaned(p)[1] = "/"
<1> DEFINE Abso(q) == q # <<>> /\ q[1] = "/"
           G == {t \in AnyPath : Abso(t) => Abso(Cleaned(t))}
<1>1. <<>> \in G
  BY DEF AnyPath
<1>2. ASSUME NEW t \in Seq(AllNames), NEW x \in AllNames, t \in G
      PROVE  Append(t, x) \in G
  <2>1. Append(t, x) \in AnyPath /\ t \in AnyPath
    BY DEF AnyPath
  <2>2. Cleaned(Append(t, x)) = CleanStep(Cleaned(t), x) /\ Cleaned(t) \in AnyPath
    BY <2>1, OneName
  <2>3. CASE t = <<>>
    <3>1. Append(t, x)[1] = x
      BY <2>3
    <3>2. Cleaned(t) = <<>>
      BY <2>1, <2>3, OneName
    <3>3. x = "/" => CleanStep(Cleaned(t), x) = <<x>>
      BY <3>2 DEF CleanStep
    <3>4. x = "/" => Abso(Cleaned(Append(t, x)))
      BY <2>2, <3>3
    <3> QED
      BY <2>1, <3>1, <3>4
  <2>4. CASE t # <<>>
    <3>1. SUFFICES ASSUME Abso(Append(t, x))
                   PROVE  Abso(Cleaned(Append(t, x)))
      BY <2>1
    <3> DEFINE q == Cleaned(t)
    <3>2. Append(t, x)[1] = t[1]
      BY <2>4
    <3>3. Abso(q) /\ q \in Seq(AllNames)
      BY <1>2, <2>2, <2>4, <3>1, <3>2 DEF AnyPath
    <3> HIDE DEF q
    <3>4. Abso(Append(q, x)) /\ (q # <<"/">> => Abso(Front(q)))
      <4>1. Abso(Append(q, x))
        BY <3>3
      <4>2. ASSUME q # <<"/">>
            PROVE  Abso(Front(q))
        <5>1. Len(q) \in Nat \ {0} /\ Front(q) \in Seq(AllNames) /\ Len(Front(q)) = Len(q) - 1
              /\ \A k \in 1 .. Len(q) - 1 : Front(q)[k] = q[k]
          BY <3>3, FrontIs
        <5>2. Len(q) # 1
          BY <3>3, <4>2
        <5> QED
          BY <3>3, <5>1, <5>2
      <4> QED
        BY <4>1, <4>2
    <3>5. Abso(CleanStep(q, x))
      <4> HIDE DEF Abso
      <4>1. \/ CleanStep(q, x) \in {q, Append(q, x)}
            \/ CleanStep(q, x) = Front(q) /\ q # <<"/">>
        BY DEF CleanStep
      <4> QED
        BY <3>3, <3>4, <4>1
    <3> QED
      BY <2>2, <3>5 DEF q
  <2> QED
    BY <2>3, <2>4
<1>3. Seq(AllNames) \subseteq G
  <2> HIDE DEF G
  <2> QED
    BY <1>1, <1>2, Growing
<1> QED
  BY <1>3 DEF AnyPath


-----------------------------------------------------------------------------
(***************************************************************************)
(* Roots, and what lies below them by its names.                           *)
(***************************************************************************)
IsRoot(r) == r \in AnyPath /\ r # <<>> /\ (r = <<".">> \/ IsClean(r))
Bare(r) == IF r = <<".">> THEN <<>> ELSE r

\* What comes from Clean is a root.
LEMMA CleanRoot ==
  ASSUME NEW p \in AnyPath
  PROVE  IsRoot(Clean(p)) /\ Bare(Clean(p)) = Cleaned(p)
<1>1. Cleaned(p) \in AnyPath /\ IsClean(Cleaned(p))
  BY OneName, CleanedClean
<1>2. Clean(p) = IF Cleaned(p) = <<>> THEN <<".">> ELSE Cleaned(p)
  BY DEF Clean, Cleaned
<1>3. Cleaned(p) # <<".">>
  BY <1>1 DEF IsClean
<1>4. <<".">> \in AnyPath
  BY PathsAssumption DEF AnyPath
<1> QED
  BY <1>1, <1>2, <1>3, <1>4 DEF IsRoot, Bare

\* Clean leaves it as it is.
LEMMA BareClean ==
  ASSUME NEW r, IsRoot(r)
  PROVE  Bare(r) \in AnyPath /\ Cleaned(r) = Bare(r) /\ Clean(r) = r
<1>1. CASE r = <<".">>
  <2>1. <<>> \in AnyPath /\ "." \in AllNames /\ r = Append(<<>>, ".")
    BY <1>1, PathsAssumption DEF AnyPath
  <2>2. Cleaned(r) = CleanStep(<<>>, ".")
    BY <2>1, OneName
  <2>3. Cleaned(r) = <<>>
    BY <2>2 DEF CleanStep
  <2> QED
    BY <1>1, <2>1, <2>3 DEF Bare, Clean, Cleaned
<1>2. CASE r # <<".">>
  <2>1. r \in AnyPath /\ r # <<>> /\ Cleaned(r) = r
    BY <1>2, CleanFixed DEF IsRoot
  <2> QED
    BY <1>2, <2>1 DEF Bare, Clean, Cleaned
<1> QED
  BY <1>1, <1>2

\* Plain names behind a root.
LEMMA FromIs ==
  ASSUME NEW r, IsRoot(r), NEW rel, rel \in Rel
  PROVE  /\ From(r, rel) = IF rel = <<>> THEN r ELSE Bare(r) \o rel
         /\ Cleaned(From(r, rel)) = Bare(r) \o rel
         /\ From(r, rel) \in AnyPath /\ From(r, rel) # <<>>
         /\ Bare(r) \in AnyPath /\ rel \in AnyPath /\ Bare(r) \o rel \in AnyPath
<1>1. rel \in AnyPath /\ r \in AnyPath /\ r # <<>>
  BY DEF IsRoot, Rel, AnyPath, PlainNames
<1>2. Bare(r) \in AnyPath /\ Cleaned(r) = Bare(r) /\ Clean(r) = r
  BY BareClean
<1>3. Cleaned(r \o rel) = Bare(r) \o rel
  BY <1>1, <1>2, CleanAfter
<1>4. r \o rel \in AnyPath /\ Bare(r) \o rel \in AnyPath
  BY <1>1, <1>2, ConcatProperties DEF AnyPath
<1>5. IsRoot(From(r, rel)) /\ Bare(From(r, rel)) = Bare(r) \o rel
  BY <1>3, <1>4, CleanRoot DEF From
<1>6. From(r, rel) = IF rel = <<>> THEN r ELSE Bare(r) \o rel
  <2>1. CASE rel = <<>>
    <3>1. r \o rel = r
      BY <1>1, <2>1 DEF AnyPath
    <3> QED
      BY <1>2, <2>1, <3>1 DEF From
  <2>2. CASE rel # <<>>
    <3>1. Bare(r) \o rel # <<>>
      BY <1>1, <1>2, <2>2, ConcatEqualIffEmpty DEF AnyPath
    <3>2. Clean(r \o rel) = Cleaned(r \o rel)
      BY <1>3, <3>1 DEF Clean, Cleaned
    <3> QED
      BY <1>3, <2>2, <3>2 DEF From
  <2> QED
    BY <2>1, <2>2
<1>7. From(r, rel) \in AnyPath /\ From(r, rel) # <<>> /\ Cleaned(From(r, rel)) = Bare(r) \o rel
  BY <1>5, BareClean DEF IsRoot
<1> QED
  BY <1>1, <1>2, <1>4, <1>6, <1>7

\* Different names lead to different paths.
LEMMA FromDiffers ==
  ASSUME NEW r, IsRoot(r), NEW rel, rel \in Rel, NEW e, e \in Rel, From(r, rel) = From(r, e)
  PROVE  rel = e
<1>1. Bare(r) \o rel = Bare(r) \o e
  BY FromIs
<1>2. Bare(r) \in Seq(AllNames) /\ rel \in Seq(AllNames) /\ e \in Seq(AllNames)
  BY FromIs DEF AnyPath
<1> QED
  BY <1>1, <1>2, ConcatSimplifications

\* One name more.
LEMMA FromChild ==
  ASSUME NEW r, NEW e, NEW m, IsRoot(r), e \in Rel, m \in PlainNames
  PROVE  /\ Append(e, m) \in Rel
         /\ Dir(From(r, Append(e, m))) = From(r, e)
         /\ Last(From(r, Append(e, m))) = m
<1> DEFINE f == From(r, Append(e, m))
           b == Bare(r) \o e
<1>1. Append(e, m) \in Rel /\ Append(e, m) # <<>> /\ <<m>> \in Rel /\ m \in AllNames
  BY DEF Rel, PlainNames
<1>2. /\ From(r, e) = IF e = <<>> THEN r ELSE b
      /\ Cleaned(From(r, e)) = b /\ From(r, e) \in AnyPath /\ b \in AnyPath
      /\ Bare(r) \in AnyPath /\ e \in AnyPath
  BY FromIs
<1>3. f = Bare(r) \o Append(e, m)
  BY <1>1, FromIs
<1>4. f = Append(b, m)
  BY <1>1, <1>2, <1>3, AppendConcat DEF AnyPath
<1> HIDE DEF b
<1>8. Len(f) = Len(b) + 1 /\ Front(f) = b /\ Last(f) = m /\ Len(b) \in Nat
  BY <1>1, <1>2, <1>4 DEF AnyPath, Front, Last
<1>9. Dir(f) = From(r, e)
  <2>1. CASE Len(f) = 1
    <3>1. b = <<>>
      <4>1. Len(b) = 0
        <5> DEFINE x == Len(b)
                   y == Len(f)
        <5>1. y = x + 1 /\ x \in Nat /\ y = 1
          BY <1>8, <2>1
        <5> HIDE DEF x, y
        <5>2. x = 0
          BY <5>1
        <5> QED
          BY <5>2 DEF x
      <4>2. b \in Seq(AllNames)
        BY <1>2 DEF AnyPath, b
      <4> QED
        BY <4>1, <4>2
    <3>2. Bare(r) = <<>> /\ e = <<>>
      BY <1>2, <3>1, ConcatEqualIffEmpty DEF AnyPath, b
    <3>3. r = <<".">>
      BY <3>2 DEF Bare, IsRoot
    <3> QED
      BY <1>2, <2>1, <3>2, <3>3 DEF Dir
  <2>2. CASE Len(f) # 1
    <3>1. Dir(f) = b /\ b # <<>>
      BY <1>8, <2>2 DEF Dir
    <3>2. e = <<>> => b = r
      <4>1. e = <<>> => b = Bare(r)
        BY <1>2 DEF b, AnyPath
      <4> QED
        BY <3>1, <4>1 DEF Bare
    <3> QED
      BY <1>2, <3>1, <3>2
  <2> QED
    BY <2>1, <2>2
<1> QED
  BY <1>1, <1>8, <1>9

\* As Clean joins it.
LEMMA FromAppend ==
  ASSUME NEW r, NEW e, NEW m, IsRoot(r), e \in Rel, m \in PlainNames
  PROVE  Clean(From(r, e) \o <<m>>) = From(r, Append(e, m))
<1> DEFINE f == From(r, Append(e, m))
           b == Bare(r) \o e
<1>1. Append(e, m) \in Rel /\ Append(e, m) # <<>> /\ <<m>> \in Rel /\ m \in AllNames
  BY DEF Rel, PlainNames
<1>2. /\ From(r, e) = IF e = <<>> THEN r ELSE b
      /\ Cleaned(From(r, e)) = b /\ From(r, e) \in AnyPath /\ b \in AnyPath
      /\ Bare(r) \in AnyPath /\ e \in AnyPath
  BY FromIs
<1>3. f = Bare(r) \o Append(e, m)
  BY <1>1, FromIs
<1>4. f = Append(b, m)
  BY <1>1, <1>2, <1>3, AppendConcat DEF AnyPath
<1>5. Cleaned(From(r, e) \o <<m>>) = b \o <<m>>
  BY <1>1, <1>2, CleanAfter
<1>6. b \o <<m>> = Append(b, m) /\ Append(b, m) # <<>>
  BY <1>1, <1>2 DEF AnyPath
<1>7. Clean(From(r, e) \o <<m>>) = f
  BY <1>4, <1>5, <1>6 DEF Clean, Cleaned
<1> QED
  BY <1>7

\* The absolute path of what lies below a root.
LEMMA AbsFrom ==
  ASSUME NEW r, IsRoot(r), NEW rel, rel \in Rel
  PROVE  Abs(From(r, rel)) = Abs(r) \o rel /\ Abs(r) \in AnyPath /\ Abs(r) # <<>>
<1> DEFINE f == From(r, rel)
<1>1. /\ f = IF rel = <<>> THEN r ELSE Bare(r) \o rel
      /\ f \in AnyPath /\ f # <<>> /\ Bare(r) \in AnyPath /\ rel \in AnyPath
      /\ r \in AnyPath /\ r # <<>>
  BY FromIs DEF IsRoot
<1>2. Cwd \in AnyPath /\ Cwd # <<>> /\ Cwd[1] = "/"
  BY PathsAssumption DEF AnyPath, IsAbs
<1>3. \A q \in AnyPath : /\ Cwd \o q \in AnyPath /\ Cleaned(Cwd \o q) \in AnyPath
                         /\ Cleaned(Cwd \o q) # <<>>
  <2>1. ASSUME NEW q \in AnyPath
        PROVE  Cwd \o q \in AnyPath /\ Cwd \o q # <<>> /\ (Cwd \o q)[1] = "/"
    <3>1. Cwd \in Seq(AllNames) /\ q \in Seq(AllNames) /\ Len(Cwd) \in Nat \ {0}
      BY <1>2 DEF AnyPath
    <3>2. Cwd \o q \in Seq(AllNames) /\ Len(Cwd \o q) = Len(Cwd) + Len(q)
      BY <3>1, ConcatProperties
    <3>3. (Cwd \o q)[1] = Cwd[1]
      BY <3>1, ConcatProperties
    <3> QED
      BY <1>2, <3>1, <3>2, <3>3 DEF AnyPath
  <2> QED
    BY <2>1, OneName, StaysAbsolute
<1>4. CASE rel = <<>>
  <2>1. Abs(r) \in AnyPath /\ Abs(r) # <<>>
    BY <1>1, <1>3 DEF Abs, Clean, Cleaned
  <2>2. Abs(r) \o rel = Abs(r)
    BY <2>1, <1>4 DEF AnyPath
  <2> QED
    BY <1>1, <1>4, <2>1, <2>2
<1>5. CASE rel # <<>> /\ IsAbs(r)
  <2>1. r # <<".">>
    BY <1>5 DEF IsAbs
  <2>2. f = r \o rel
    BY <1>1, <1>5, <2>1 DEF Bare
  <2>3. f[1] = r[1]
    BY <1>1, <2>2 DEF AnyPath
  <2> QED
    BY <1>1, <1>5, <2>2, <2>3 DEF Abs, IsAbs
<1>6. CASE rel # <<>> /\ ~IsAbs(r)
  <2>1. f = Bare(r) \o rel
    BY <1>1, <1>6
  <2>2. ~IsAbs(f)
    <3>1. CASE r = <<".">>
      <4>1. f = rel
        BY <1>1, <2>1, <3>1 DEF Bare, AnyPath
      <4>2. rel[1] \in PlainNames
        BY <1>6 DEF Rel
      <4> QED
        BY <4>1, <4>2 DEF IsAbs, PlainNames
    <3>2. CASE r # <<".">>
      <4>1. f[1] = r[1]
        BY <1>1, <2>1, <3>2 DEF Bare, AnyPath
      <4> QED
        BY <1>6, <4>1 DEF IsAbs
    <3> QED
      BY <3>1, <3>2
  <2>3. Abs(f) = Cleaned(Cwd \o f) /\ Abs(r) = Cleaned(Cwd \o r)
    BY <1>1, <1>3, <1>6, <2>2 DEF Abs, Clean, Cleaned
  <2>4. Cleaned(Cwd \o r) = Cleaned(Cwd \o Bare(r))
    <3>1. CASE r = <<".">>
      <4>1. Cwd \o r = Append(Cwd, ".") /\ Cwd \o Bare(r) = Cwd /\ "." \in AllNames
        BY <1>2, <3>1, PathsAssumption DEF Bare, AnyPath
      <4>2. Cleaned(Append(Cwd, ".")) = CleanStep(Cleaned(Cwd), ".")
        BY <1>2, <4>1, OneName
      <4> QED
        BY <4>1, <4>2 DEF CleanStep
    <3> QED
      BY <3>1 DEF Bare
  <2>5. Cwd \o f = (Cwd \o Bare(r)) \o rel
    <3>1. Cwd \in Seq(AllNames) /\ Bare(r) \in Seq(AllNames) /\ rel \in Seq(AllNames)
      BY <1>1, <1>2 DEF AnyPath
    <3>2. Cwd \o (Bare(r) \o rel) = (Cwd \o Bare(r)) \o rel
      BY <3>1, ConcatAssociative
    <3> QED
      BY <2>1, <3>2
  <2>6. Cleaned(Cwd \o f) = Cleaned(Cwd \o Bare(r)) \o rel
    BY <1>1, <1>3, <2>5, CleanAfter
  <2> QED
    BY <1>1, <1>3, <2>3, <2>4, <2>6
<1> QED
  BY <1>4, <1>5, <1>6


-----------------------------------------------------------------------------
(***************************************************************************)
(* The tree, and what is found in it.                                      *)
(***************************************************************************)
\* The first names of a sequence with one name more.
LEMMA FirstNames ==
  ASSUME NEW S, NEW t, NEW x, t \in Seq(S), x \in S
  PROVE  /\ Len(Append(t, x)) = Len(t) + 1 /\ Len(t) \in Nat
         /\ \A k \in 0 .. Len(t) : SubSeq(Append(t, x), 1, k) = SubSeq(t, 1, k)
         /\ SubSeq(t, 1, 0) = <<>> /\ SubSeq(t, 1, Len(t)) = t
         /\ SubSeq(Append(t, x), 1, Len(t) + 1) = Append(t, x)
         /\ \A k \in 0 .. Len(t) : SubSeq(t, 1, k) \in Seq(S) /\ Len(SubSeq(t, 1, k)) = k
<1>1. /\ Len(Append(t, x)) = Len(t) + 1 /\ Len(t) \in Nat /\ Append(t, x) \in Seq(S)
      /\ \A k \in 1 .. Len(t) : Append(t, x)[k] = t[k] /\ t[k] \in S
  OBVIOUS
<1>2. ASSUME NEW k \in 0 .. Len(t)
      PROVE  /\ SubSeq(Append(t, x), 1, k) = SubSeq(t, 1, k)
             /\ SubSeq(t, 1, k) \in Seq(S) /\ Len(SubSeq(t, 1, k)) = k
  <2>1. /\ SubSeq(t, 1, k) \in Seq(S) /\ Len(SubSeq(t, 1, k)) = k
        /\ \A i \in 1 .. k : SubSeq(t, 1, k)[i] = t[i]
    <3>1. k \in Int /\ \A i \in 1 .. k : t[i] \in S
      BY <1>1
    <3>2. /\ SubSeq(t, 1, k) \in Seq(S) /\ Len(SubSeq(t, 1, k)) = IF 1 <= k THEN k - 1 + 1 ELSE 0
          /\ \A i \in 1 .. k - 1 + 1 : SubSeq(t, 1, k)[i] = t[1 + i - 1]
      BY <3>1, SubSeqProperties
    <3> QED
      BY <3>1, <3>2
  <2>2. /\ SubSeq(Append(t, x), 1, k) \in Seq(S) /\ Len(SubSeq(Append(t, x), 1, k)) = k
        /\ \A i \in 1 .. k : SubSeq(Append(t, x), 1, k)[i] = t[i]
    <3>1. k \in Int /\ \A i \in 1 .. k : Append(t, x)[i] \in S /\ Append(t, x)[i] = t[i]
      BY <1>1
    <3>2. /\ SubSeq(Append(t, x), 1, k) \in Seq(S)
          /\ Len(SubSeq(Append(t, x), 1, k)) = IF 1 <= k THEN k - 1 + 1 ELSE 0
          /\ \A i \in 1 .. k - 1 + 1 : SubSeq(Append(t, x), 1, k)[i] = Append(t, x)[1 + i - 1]
      BY <3>1, SubSeqProperties
    <3> QED
      BY <3>1, <3>2
  <2> QED
    BY <2>1, <2>2, SeqEqual
<1>3. SubSeq(t, 1, 0) = <<>> /\ SubSeq(t, 1, Len(t)) = t
      /\ SubSeq(Append(t, x), 1, Len(t) + 1) = Append(t, x)
  BY <1>1, SubSeqEmpty, SubSeqFull
<1> QED
  BY <1>1, <1>2, <1>3

\* What is in the tree below something has plain names and is in directories.
InDirectories(q, rel) == rel \in Rel /\ \A k \in 0 .. Len(rel) - 1 : Directory(q \o SubSeq(rel, 1, k))

LEMMA TreeAbove ==
  ASSUME NEW q, NEW rel, q \in AnyPath, q # <<>>, rel \in AnyPath, q \o rel \in Tree
  PROVE  InDirectories(q, rel)
<1> DEFINE G == {t \in AnyPath : q \o t \in Tree => InDirectories(q, t)}
<1>1. <<>> \in G
  BY DEF AnyPath, InDirectories, Rel
<1>2. ASSUME NEW t \in Seq(AllNames), NEW x \in AllNames, t \in G
      PROVE  Append(t, x) \in G
  <2> DEFINE u == Append(t, x)
  <2>1. u \in AnyPath /\ t \in AnyPath
    BY DEF AnyPath
  <2>2. SUFFICES ASSUME q \o u \in Tree
                 PROVE  InDirectories(q, u)
    BY <2>1
  <2>3. q \o u = Append(q \o t, x) /\ q \o t \in AnyPath /\ q \o t # <<>>
    <3>1. q \in Seq(AllNames) /\ t \in Seq(AllNames)
      BY DEF AnyPath
    <3> QED
      BY <3>1, AppendConcat, ConcatEqualIffEmpty DEF AnyPath
  <2>4. Len(q \o u) > 1 /\ Last(q \o u) = x /\ Front(q \o u) = q \o t
    <3> DEFINE w == q \o t
    <3>1. w \in Seq(AllNames) /\ w # <<>> /\ q \o u = Append(w, x)
      BY <2>3 DEF AnyPath
    <3> HIDE DEF w
    <3>2. Len(w) \in Nat \ {0} /\ Len(Append(w, x)) = Len(w) + 1 /\ Append(w, x)[Len(w) + 1] = x
      BY <3>1
    <3>3. SubSeq(Append(w, x), 1, Len(w)) = w
      BY <3>1, <3>2, FirstNames
    <3>4. Len(Append(w, x)) > 1 /\ Last(Append(w, x)) = x /\ Front(Append(w, x)) = w
      <4>1. (Len(w) + 1) - 1 = Len(w) /\ Len(w) + 1 > 1
        BY <3>2
      <4> QED
        BY <3>2, <3>3, <4>1 DEF Last, Front
    <3> QED
      BY <3>1, <3>4 DEF w
  <2>5. x \in PlainNames /\ Directory(q \o t)
    <3>1. Last(q \o u) \notin {"/", ".", ".."} /\ Directory(Front(q \o u))
      BY <2>2, <2>4, PathsAssumption
    <3> QED
      BY <2>4, <3>1 DEF PlainNames
  <2>6. InDirectories(q, t)
    BY <1>2, <2>5 DEF Directory, Tree
  <2>7. u \in Rel
    BY <2>5, <2>6 DEF InDirectories, Rel
  <2>8. ASSUME NEW k \in 0 .. Len(u) - 1
        PROVE  Directory(q \o SubSeq(u, 1, k))
    <3>1. /\ Len(u) = Len(t) + 1 /\ Len(t) \in Nat /\ SubSeq(t, 1, Len(t)) = t
          /\ \A j \in 0 .. Len(t) : SubSeq(u, 1, j) = SubSeq(t, 1, j)
      BY FirstNames
    <3> HIDE DEF u
    <3>2. k \in 0 .. Len(t) /\ (k = Len(t) \/ k \in 0 .. Len(t) - 1)
      <4> DEFINE l == Len(u)
                 n == Len(t)
      <4>1. l = n + 1 /\ n \in Nat /\ k \in 0 .. l - 1
        BY <3>1
      <4> HIDE DEF l, n
      <4>2. k \in 0 .. n /\ (k = n \/ k \in 0 .. n - 1)
        BY <4>1
      <4> QED
        BY <4>2 DEF n
    <3> QED
      BY <2>5, <2>6, <3>1, <3>2 DEF InDirectories
  <2> QED
    BY <2>7, <2>8 DEF InDirectories
<1>3. Seq(AllNames) \subseteq G
  <2> HIDE DEF G
  <2> QED
    BY <1>1, <1>2, Growing
<1> QED
  BY <1>3 DEF AnyPath

\* Where a path leads is not a link.
LEMMA RealIs ==
  ASSUME NEW q, q \in AnyPath, q # <<>>
  PROVE  Resolved(q) \in AnyPath /\ Resolved(q) # <<>> /\ Resolved(q) \notin DOMAIN Link
<1>1. Front(q) \in AnyPath /\ Last(q) \in AllNames /\ q = Append(Front(q), Last(q))
  BY FrontIs DEF AnyPath
<1>2. Resolved(q) = Follow(Resolved(Front(q)), Last(q)) /\ Resolved(Front(q)) \in AnyPath
  BY <1>1, OneName
<1>3. Resolved(q) \in AnyPath
  BY OneName
<1>4. \A p \in DOMAIN Link : Link[p] \in Tree /\ Link[p] # <<>> /\ Link[p] \notin DOMAIN Link
  BY PathsAssumption DEF Directory, Tree
<1>5. Append(Resolved(Front(q)), Last(q)) # <<>>
  BY <1>1, <1>2 DEF AnyPath
<1> QED
  BY <1>2, <1>3, <1>4, <1>5 DEF Follow

\* Nothing is followed where there are no links.
NoLinks(q, rel) == \A k \in 1 .. Len(rel) : q \o SubSeq(rel, 1, k) \notin DOMAIN Link

LEMMA RealAfter ==
  ASSUME NEW q, NEW rel, q \in AnyPath, rel \in AnyPath, NoLinks(Resolved(q), rel)
  PROVE  Resolved(q \o rel) = Resolved(q) \o rel
<1> DEFINE s == Resolved(q)
           G == {t \in AnyPath : NoLinks(s, t) => Resolved(q \o t) = s \o t}
<1>0. s \in AnyPath
  BY OneName
<1> HIDE DEF s
<1>1. <<>> \in G
  <2>1. s \o <<>> = s /\ q \o <<>> = q /\ <<>> \in AnyPath
    BY <1>0 DEF AnyPath
  <2> QED
    BY <2>1 DEF s
<1>2. ASSUME NEW t \in Seq(AllNames), NEW x \in AllNames, t \in G
      PROVE  Append(t, x) \in G
  <2> DEFINE u == Append(t, x)
  <2>1. u \in AnyPath /\ t \in AnyPath
    BY DEF AnyPath
  <2>2. SUFFICES ASSUME NoLinks(s, u)
                 PROVE  Resolved(q \o u) = s \o u
    BY <2>1
  <2>3. /\ Len(u) = Len(t) + 1 /\ Len(t) \in Nat /\ SubSeq(u, 1, Len(t) + 1) = u
        /\ \A j \in 0 .. Len(t) : SubSeq(u, 1, j) = SubSeq(t, 1, j)
    BY FirstNames
  <2>4. NoLinks(s, t) /\ s \o u \notin DOMAIN Link
    <3> HIDE DEF u
    <3>1. \A k \in 1 .. Len(t) : k \in 1 .. Len(u) /\ k \in 0 .. Len(t)
      BY <2>3
    <3>2. Len(t) + 1 \in 1 .. Len(u)
      BY <2>3
    <3> QED
      BY <2>2, <2>3, <3>1, <3>2 DEF NoLinks
  <2>5. Resolved(q \o t) = s \o t
    BY <1>2, <2>4
  <2>6. q \o u = Append(q \o t, x) /\ q \o t \in AnyPath /\ s \o u = Append(s \o t, x)
    BY <1>0, <2>1, AppendConcat DEF AnyPath
  <2>7. Resolved(Append(q \o t, x)) = Follow(Resolved(q \o t), x)
    BY <2>6, OneName
  <2> QED
    BY <2>4, <2>5, <2>6, <2>7 DEF Follow
<1>3. Seq(AllNames) \subseteq G
  <2> HIDE DEF G
  <2> QED
    BY <1>1, <1>2, Growing
<1> QED
  BY <1>3 DEF AnyPath, s

\* Beginning with a sequence is being that sequence and more.
LEMMA PrefixIs ==
  ASSUME NEW S, NEW s, NEW t, s \in Seq(S), t \in Seq(S)
  PROVE  /\ IsPrefix(s, t) =>
              /\ s \o SubSeq(t, Len(s) + 1, Len(t)) = t
              /\ SubSeq(t, Len(s) + 1, Len(t)) \in Seq(S)
         /\ \A e \in Seq(S) :
              IsPrefix(s, s \o e) /\ SubSeq(s \o e, Len(s) + 1, Len(s \o e)) = e
<1>1. ASSUME IsPrefix(s, t)
      PROVE  /\ s \o SubSeq(t, Len(s) + 1, Len(t)) = t
             /\ SubSeq(t, Len(s) + 1, Len(t)) \in Seq(S)
  <2>1. Len(s) <= Len(t) /\ s = SubSeq(t, 1, Len(s)) /\ Len(s) \in Nat /\ Len(t) \in Nat
    BY <1>1, SubSeqFull DEF IsPrefix
  <2>2. s \o SubSeq(t, Len(s) + 1, Len(t)) = SubSeq(t, 1, Len(t))
    <3>1. 1 \in 1 .. Len(t) + 1 /\ Len(s) \in 1 - 1 .. Len(t) /\ Len(t) \in Len(s) .. Len(t)
      BY <2>1
    <3> QED
      BY <2>1, <3>1, ConcatAdjacentSubSeq
  <2>3. SubSeq(t, Len(s) + 1, Len(t)) \in Seq(S)
    <3>1. \A i \in Len(s) + 1 .. Len(t) : t[i] \in S
      BY <2>1
    <3> QED
      BY <2>1, <3>1, SubSeqProperties
  <2> QED
    BY <2>2, <2>3, SubSeqFull
<1>2. ASSUME NEW e \in Seq(S)
      PROVE  IsPrefix(s, s \o e) /\ SubSeq(s \o e, Len(s) + 1, Len(s \o e)) = e
  <2>1. Len(s \o e) = Len(s) + Len(e) /\ Len(s) \in Nat /\ Len(e) \in Nat
    BY ConcatProperties
  <2>2. SubSeq(s \o e, 1, Len(s)) = s
    <3>1. Len(s) \in 0 .. Len(s)
      BY <2>1
    <3> QED
      BY <3>1, SubSeqOfConcat1, SubSeqFull
  <2>3. SubSeq(s \o e, Len(s) + 1, Len(s \o e)) = e
    BY <2>1, SubSeqOfConcat2, SubSeqFull
  <2> QED
    BY <2>1, <2>2, <2>3 DEF IsPrefix
<1> QED
  BY <1>1, <1>2


\* What is below a root by its names.
LEMMA BelowIs ==
  ASSUME NEW r, IsRoot(r)
  PROVE  /\ Real(r) \in AnyPath /\ Real(r) # <<>> /\ Real(r) \notin DOMAIN Link
         /\ \A rel : rel \in Below(r) <=> rel \in AnyPath /\ Real(r) \o rel \in Tree
         /\ \A rel \in Below(r) : InDirectories(Real(r), rel)
<1>1. Abs(r) \in AnyPath /\ Abs(r) # <<>>
  <2>1. <<>> \in Rel
    BY DEF Rel
  <2> QED
    BY <2>1, AbsFrom
<1>2. Real(r) \in AnyPath /\ Real(r) # <<>> /\ Real(r) \notin DOMAIN Link
  <2>1. Real(r) = Resolved(Abs(r))
    BY DEF Real, Resolved
  <2> QED
    BY <1>1, <2>1, RealIs
<1> DEFINE q == Real(r)
<1>3. q \in Seq(AllNames) /\ \A p \in Tree : p \in Seq(AllNames)
  BY <1>2, PathsAssumption DEF AnyPath
<1>4. Below(r) = {SubSeq(p, Len(q) + 1, Len(p)) : p \in {t \in Tree : IsPrefix(q, t)}}
  BY DEF Below
<1> HIDE DEF q
<1>5. ASSUME NEW rel \in Below(r)
      PROVE  rel \in AnyPath /\ q \o rel \in Tree
  <2>1. PICK p \in Tree : IsPrefix(q, p) /\ rel = SubSeq(p, Len(q) + 1, Len(p))
    BY <1>4
  <2>2. q \o rel = p /\ rel \in Seq(AllNames)
    BY <1>3, <2>1, PrefixIs
  <2> QED
    BY <2>1, <2>2 DEF AnyPath
<1>6. ASSUME NEW rel, rel \in AnyPath, q \o rel \in Tree
      PROVE  rel \in Below(r)
  <2>1. IsPrefix(q, q \o rel) /\ SubSeq(q \o rel, Len(q) + 1, Len(q \o rel)) = rel
    BY <1>3, <1>6, PrefixIs DEF AnyPath
  <2> QED
    BY <1>4, <1>6, <2>1
<1>7. ASSUME NEW rel \in Below(r)
      PROVE  InDirectories(q, rel)
  BY <1>2, <1>5, TreeAbove DEF q
<1> QED
  BY <1>2, <1>5, <1>6, <1>7 DEF q

\* The root, and what is below it.
Within(r) == {<<>>} \cup Below(r)

LEMMA WithinTypes ==
  ASSUME NEW r, IsRoot(r), NEW rel, rel \in Within(r)
  PROVE  rel \in Rel /\ rel \in AnyPath /\ Real(r) \o rel \in AnyPath /\ InDirectories(Real(r), rel)
<1>1. InDirectories(Real(r), rel)
  <2>1. CASE rel = <<>>
    BY <2>1 DEF InDirectories, Rel
  <2> QED
    BY <2>1, BelowIs DEF Within
<1>2. rel \in Rel /\ rel \in AnyPath /\ Real(r) \in AnyPath
  BY <1>1, BelowIs DEF InDirectories, Rel, AnyPath, PlainNames
<1> QED
  BY <1>1, <1>2, ConcatProperties DEF AnyPath

\* Directories below a root are found where their names lead.
LEMMA RealFrom ==
  ASSUME NEW r, IsRoot(r), NEW rel, rel \in Within(r), rel = <<>> \/ Directory(Real(r) \o rel)
  PROVE  Real(From(r, rel)) = Real(r) \o rel
<1>1. rel \in Rel /\ rel \in AnyPath /\ InDirectories(Real(r), rel)
  BY WithinTypes
<1>2. Abs(From(r, rel)) = Abs(r) \o rel /\ Abs(r) \in AnyPath
  BY <1>1, AbsFrom
<1>3. \A p : Directory(p) => p \notin DOMAIN Link
  BY PathsAssumption DEF Directory
<1>4. NoLinks(Real(r), rel)
  <2>1. SUFFICES ASSUME NEW k \in 1 .. Len(rel)
                 PROVE  Real(r) \o SubSeq(rel, 1, k) \notin DOMAIN Link
    BY DEF NoLinks
  <2>2. Len(rel) \in Nat /\ SubSeq(rel, 1, Len(rel)) = rel
    BY <1>1, SubSeqFull DEF AnyPath
  <2>3. CASE k = Len(rel)
    <3>1. rel # <<>>
      BY <2>2, <2>3
    <3> QED
      BY <1>3, <2>2, <2>3, <3>1
  <2>4. CASE k # Len(rel)
    <3>1. k \in 0 .. Len(rel) - 1
      <4> DEFINE l == Len(rel)
      <4>1. l \in Nat /\ k \in 1 .. l /\ k # l
        BY <2>2, <2>4
      <4> HIDE DEF l
      <4>2. k \in 0 .. l - 1
        BY <4>1
      <4> QED
        BY <4>2 DEF l
    <3> QED
      BY <1>1, <1>3, <3>1 DEF InDirectories
  <2> QED
    BY <2>3, <2>4
<1>5. Real(r) = Resolved(Abs(r)) /\ Real(From(r, rel)) = Resolved(Abs(From(r, rel)))
  BY DEF Real, Resolved
<1> QED
  BY <1>1, <1>2, <1>4, <1>5, RealAfter

\* What is below something that is below a root.
LEMMA WithinAppend ==
  ASSUME NEW r, IsRoot(r), NEW e, NEW m, e \in AnyPath, m \in AllNames, Append(e, m) \in Below(r)
  PROVE  /\ e \in Below(r) /\ Directory(Real(r) \o e) /\ m \in PlainNames
         /\ Real(r) \o Append(e, m) = Append(Real(r) \o e, m)
<1>1. Real(r) \in AnyPath /\ InDirectories(Real(r), Append(e, m))
  BY BelowIs
<1>2. Len(Append(e, m)) = Len(e) + 1 /\ Len(e) \in Nat /\ SubSeq(Append(e, m), 1, Len(e)) = e
  <2>1. e \in Seq(AllNames)
    BY DEF AnyPath
  <2>2. Len(e) \in 0 .. Len(e)
    BY <2>1
  <2> QED
    BY <2>1, <2>2, FirstNames
<1>3. Directory(Real(r) \o e)
  <2>1. Len(e) \in 0 .. Len(Append(e, m)) - 1
    <3> DEFINE l == Len(e)
               n == Len(Append(e, m))
    <3>1. n = l + 1 /\ l \in Nat
      BY <1>2
    <3> HIDE DEF l, n
    <3>2. l \in 0 .. n - 1
      BY <3>1
    <3> QED
      BY <3>2 DEF l, n
  <2> QED
    BY <1>1, <1>2, <2>1 DEF InDirectories
<1>4. e \in Below(r)
  BY <1>3, BelowIs DEF Directory, Tree
<1>5. m \in PlainNames
  <2>1. Append(e, m) \in Seq(PlainNames)
    BY <1>1 DEF InDirectories, Rel
  <2>2. Append(e, m)[Len(e) + 1] = m /\ Len(e) + 1 \in 1 .. Len(Append(e, m))
    BY <1>2 DEF AnyPath
  <2>3. Append(e, m)[Len(e) + 1] \in PlainNames
    BY <2>1, <2>2
  <2> QED
    BY <2>2, <2>3
<1> QED
  BY <1>1, <1>3, <1>4, <1>5, AppendConcat DEF AnyPath

\* The place of what is below the root is what its names say.
LEMMA PlaceIs ==
  ASSUME IsRoot(root), NEW rel, rel \in Within(root)
  PROVE  Place(From(root, rel)) = Real(root) \o rel
<1>1. rel \in Rel /\ rel \in AnyPath /\ Real(root) \in AnyPath /\ From(root, <<>>) = root /\ <<>> \in Rel
  <2>1. <<>> \in Rel
    BY DEF Rel
  <2>2. From(root, <<>>) = root
    BY <2>1, FromIs
  <2>3. rel \in Rel /\ rel \in AnyPath
    BY WithinTypes
  <2> QED
    BY <2>1, <2>2, <2>3, BelowIs
<1>2. CASE rel = <<>>
  <2>1. Place(From(root, rel)) = Real(root)
    BY <1>1, <1>2 DEF Place
  <2> QED
    BY <1>1, <1>2, <2>1 DEF AnyPath
<1>3. CASE rel # <<>>
  <2> DEFINE e == Front(rel)
             m == Last(rel)
  <2>1. e \in AnyPath /\ m \in AllNames /\ rel = Append(e, m) /\ rel \in Below(root)
    BY <1>1, <1>3, FrontIs DEF AnyPath, Within
  <2> HIDE DEF e, m
  <2>2. /\ e \in Below(root) /\ Directory(Real(root) \o e) /\ m \in PlainNames
        /\ Real(root) \o rel = Append(Real(root) \o e, m)
    BY <2>1, WithinAppend
  <2>3. e \in Rel /\ Real(From(root, e)) = Real(root) \o e
    BY <2>2, WithinTypes, RealFrom DEF Within
  <2>4. Dir(From(root, rel)) = From(root, e) /\ Last(From(root, rel)) = m
    <3>1. Dir(From(root, Append(e, m))) = From(root, e) /\ Last(From(root, Append(e, m))) = m
      <4>1. IsRoot(root) /\ e \in Rel /\ m \in PlainNames
        BY <2>2, <2>3
      <4> QED
        BY <4>1, FromChild
    <3> QED
      BY <2>1, <3>1
  <2>5. From(root, rel) # root
    BY <1>1, <1>3, FromDiffers
  <2> QED
    BY <2>2, <2>3, <2>4, <2>5 DEF Place
<1> QED
  BY <1>2, <1>3


-----------------------------------------------------------------------------
(***************************************************************************)
(* The order of paths, name by name.                                       *)
(***************************************************************************)
Agree(p, q, n) == n <= Len(p) /\ n <= Len(q) /\ \A i \in 1 .. n : p[i] = q[i]
\* The first name they do not share is the k-th.
Parts(p, q, k) == k \in Nat \ {0} /\ k <= Len(p) /\ k <= Len(q) /\ Agree(p, q, k - 1) /\ p[k] # q[k]
Less(p, q, k) == Parts(p, q, k) /\ Rank[p[k]] < Rank[q[k]]

\* Different names have different ranks.
LEMMA Ranks ==
  ASSUME NEW m \in AllNames, NEW n \in AllNames
  PROVE  Rank[m] \in Nat /\ (Rank[m] = Rank[n] => m = n)
<1>1. Names \in Seq(AllNames) /\ AllNames = Range(Names)
  BY PathsAssumption DEF AllNames
<1>2. \A x \in AllNames : \E k \in DOMAIN Names : Names[k] = x
  BY <1>1 DEF Range
<1>3. \A x \in AllNames : Rank[x] \in DOMAIN Names /\ Names[Rank[x]] = x
  BY <1>2 DEF Rank
<1>4. DOMAIN Names \subseteq Nat
  BY <1>1
<1> QED
  BY <1>3, <1>4

\* Sequences that begin alike.
LEMMA AgreeIs ==
  ASSUME NEW p, NEW q, p \in AnyPath, q \in AnyPath, NEW n \in Nat, n <= Len(p), n <= Len(q)
  PROVE  SubSeq(p, 1, n) = SubSeq(q, 1, n) <=> Agree(p, q, n)
<1>1. Len(p) \in Nat /\ Len(q) \in Nat /\ \A i \in 1 .. n : p[i] \in AllNames /\ q[i] \in AllNames
  BY DEF AnyPath
<1>2. /\ SubSeq(p, 1, n) \in Seq(AllNames) /\ SubSeq(q, 1, n) \in Seq(AllNames)
      /\ Len(SubSeq(p, 1, n)) = n /\ Len(SubSeq(q, 1, n)) = n
      /\ \A i \in 1 .. n : SubSeq(p, 1, n)[i] = p[i] /\ SubSeq(q, 1, n)[i] = q[i]
  <2>1. SubSeq(p, 1, n) \in Seq(AllNames) /\ SubSeq(q, 1, n) \in Seq(AllNames)
    BY <1>1, SubSeqProperties
  <2>2. /\ Len(SubSeq(p, 1, n)) = (IF 1 <= n THEN n - 1 + 1 ELSE 0)
        /\ \A i \in 1 .. n - 1 + 1 : SubSeq(p, 1, n)[i] = p[1 + i - 1]
    BY <1>1, SubSeqProperties
  <2>3. /\ Len(SubSeq(q, 1, n)) = (IF 1 <= n THEN n - 1 + 1 ELSE 0)
        /\ \A i \in 1 .. n - 1 + 1 : SubSeq(q, 1, n)[i] = q[1 + i - 1]
    BY <1>1, SubSeqProperties
  <2> QED
    BY <2>1, <2>2, <2>3
<1>3. ASSUME Agree(p, q, n)
      PROVE  SubSeq(p, 1, n) = SubSeq(q, 1, n)
  BY <1>2, <1>3, SeqEqual DEF Agree
<1>4. ASSUME SubSeq(p, 1, n) = SubSeq(q, 1, n)
      PROVE  Agree(p, q, n)
  BY <1>2, <1>4 DEF Agree
<1> QED
  BY <1>3, <1>4

\* The order and prefixes, by names.
LEMMA OrderIs ==
  ASSUME NEW p, NEW q, p \in AnyPath, q \in AnyPath
  PROVE  /\ IsPrefix(p, q) <=> Agree(p, q, Len(p))
         /\ Precedes(p, q) <=> (Len(p) < Len(q) /\ Agree(p, q, Len(p))) \/ \E k \in Nat : Less(p, q, k)
<1>1. /\ Len(p) \in Nat /\ Len(q) \in Nat /\ DOMAIN p = 1 .. Len(p) /\ DOMAIN q = 1 .. Len(q)
      /\ SubSeq(p, 1, Len(p)) = p
  BY SubSeqFull DEF AnyPath
<1>2. IsPrefix(p, q) <=> Agree(p, q, Len(p))
  <2>1. Len(p) <= Len(q) => (SubSeq(p, 1, Len(p)) = SubSeq(q, 1, Len(p)) <=> Agree(p, q, Len(p)))
    BY <1>1, AgreeIs
  <2>2. Agree(p, q, Len(p)) => Len(p) <= Len(q)
    BY DEF Agree
  <2> QED
    BY <2>1, <2>2 DEF IsPrefix
<1>3. Len(p) < Len(q) => (p = SubSeq(q, 1, Len(p)) <=> Agree(p, q, Len(p)))
  <2>1. Len(p) < Len(q) => (SubSeq(p, 1, Len(p)) = SubSeq(q, 1, Len(p)) <=> Agree(p, q, Len(p)))
    BY <1>1, AgreeIs
  <2> QED
    BY <1>1, <2>1
<1>4. ASSUME NEW k \in DOMAIN p \cap DOMAIN q
      PROVE  /\ k \in Nat /\ SubSeq(p, 1, k - 1) = SubSeq(q, 1, k - 1) <=> k \in Nat /\ Agree(p, q, k - 1)
             /\ k \in Nat \ {0} /\ k <= Len(p) /\ k <= Len(q)
  <2>1. k \in Nat \ {0} /\ k <= Len(p) /\ k <= Len(q) /\ k - 1 \in Nat /\ k - 1 <= Len(p) /\ k - 1 <= Len(q)
    BY <1>1
  <2> QED
    BY <2>1, AgreeIs
<1>5. \A k \in DOMAIN p \cap DOMAIN q :
        Rank[p[k]] < Rank[q[k]] /\ SubSeq(p, 1, k - 1) = SubSeq(q, 1, k - 1) => Less(p, q, k)
  <2>1. \A k \in DOMAIN p \cap DOMAIN q : p[k] \in AllNames /\ q[k] \in AllNames
    BY DEF AnyPath
  <2>2. \A k \in DOMAIN p \cap DOMAIN q : Rank[p[k]] < Rank[q[k]] => p[k] # q[k]
    BY <2>1, Ranks
  <2> QED
    BY <1>4, <2>2 DEF Less, Parts
<1>6. \A k \in Nat : Less(p, q, k) => /\ k \in DOMAIN p \cap DOMAIN q
                                      /\ Rank[p[k]] < Rank[q[k]] /\ SubSeq(p, 1, k - 1) = SubSeq(q, 1, k - 1)
  <2>1. \A k \in Nat : Less(p, q, k) => k \in DOMAIN p \cap DOMAIN q
    BY <1>1 DEF Less, Parts
  <2> QED
    BY <1>4, <2>1 DEF Less, Parts
<1> QED
  BY <1>2, <1>3, <1>4, <1>5, <1>6 DEF Precedes

\* One is a prefix of the other, or there is a first name they do not share.
LEMMA PrefixOrPart ==
  ASSUME NEW p, NEW q, p \in AnyPath, q \in AnyPath
  PROVE  Agree(p, q, Len(p)) \/ Agree(q, p, Len(q)) \/ \E k \in Nat : Parts(p, q, k)
<1> DEFINE D == {k \in Nat \ {0} : k <= Len(p) /\ k <= Len(q) /\ p[k] # q[k]}
<1>1. Len(p) \in Nat /\ Len(q) \in Nat
  BY DEF AnyPath
<1>2. CASE D = {}
  <2>1. \A k \in Nat \ {0} : k <= Len(p) /\ k <= Len(q) => p[k] = q[k]
    BY <1>2
  <2> QED
    BY <1>1, <2>1 DEF Agree
<1>3. CASE D # {}
  <2>1. PICK k \in D : \A n \in D : k <= n
    <3>1. D \subseteq Nat
      OBVIOUS
    <3> HIDE DEF D
    <3> QED
      BY <1>3, <3>1, Smallest
  <2>2. \A i \in 1 .. k - 1 : p[i] = q[i]
    <3>1. \A i \in 1 .. k - 1 : i \in Nat \ {0} /\ i <= Len(p) /\ i <= Len(q) /\ ~(k <= i)
      BY <1>1, <2>1
    <3> QED
      BY <2>1, <3>1
  <2>3. k - 1 <= Len(p) /\ k - 1 <= Len(q) /\ k \in Nat \ {0} /\ k <= Len(p) /\ k <= Len(q) /\ p[k] # q[k]
    BY <1>1, <2>1
  <2>4. Parts(p, q, k)
    BY <2>2, <2>3 DEF Parts, Agree
  <2> QED
    BY <2>3, <2>4
<1> QED
  BY <1>2, <1>3

\* Paths that part are in one order or the other, and so is what lies below them.
LEMMA PartsLess ==
  ASSUME NEW p, NEW q, p \in AnyPath, q \in AnyPath, NEW k, Parts(p, q, k)
  PROVE  /\ Less(p, q, k) \/ Less(q, p, k)
         /\ ~Agree(p, q, Len(p)) /\ ~Agree(q, p, Len(q))
         /\ \A j \in Nat : Parts(p, q, j) \/ Parts(q, p, j) => j = k
<1>1. /\ k \in Nat \ {0} /\ k <= Len(p) /\ k <= Len(q) /\ p[k] # q[k]
      /\ Len(p) \in Nat /\ Len(q) \in Nat
      /\ \A i \in 1 .. k - 1 : p[i] = q[i]
  BY DEF Parts, Agree, AnyPath
<1>2. p[k] \in AllNames /\ q[k] \in AllNames
  BY <1>1 DEF AnyPath
<1>3. Parts(q, p, k)
  BY DEF Parts, Agree
<1>4. Rank[p[k]] \in Nat /\ Rank[q[k]] \in Nat /\ Rank[p[k]] # Rank[q[k]]
  BY <1>1, <1>2, Ranks
<1>5. Less(p, q, k) \/ Less(q, p, k)
  <2>1. Rank[p[k]] < Rank[q[k]] \/ Rank[q[k]] < Rank[p[k]]
    BY <1>4
  <2> QED
    BY <1>3, <2>1 DEF Less
<1>6. ~Agree(p, q, Len(p)) /\ ~Agree(q, p, Len(q))
  <2>1. k \in 1 .. Len(p) /\ k \in 1 .. Len(q)
    BY <1>1
  <2> QED
    BY <1>1, <2>1 DEF Agree
<1>7. ASSUME NEW j \in Nat, Parts(p, q, j) \/ Parts(q, p, j)
      PROVE  j = k
  <2>1. j \in Nat \ {0} /\ p[j] # q[j] /\ \A i \in 1 .. j - 1 : p[i] = q[i]
    BY <1>7 DEF Parts, Agree
  <2>2. ~(j \in 1 .. k - 1) /\ ~(k \in 1 .. j - 1)
    BY <1>1, <2>1
  <2> QED
    BY <1>1, <2>1, <2>2
<1> QED
  BY <1>5, <1>6, <1>7

\* The order is strict and total, and a prefix comes first.
LEMMA Ordered ==
  ASSUME NEW p, NEW q, p \in AnyPath, q \in AnyPath
  PROVE  /\ ~(Precedes(p, q) /\ Precedes(q, p)) /\ ~Precedes(p, p)
         /\ p # q => Precedes(p, q) \/ Precedes(q, p)
         /\ IsPrefix(p, q) => p = q \/ Precedes(p, q)
<1>1. /\ Precedes(p, q) <=> (Len(p) < Len(q) /\ Agree(p, q, Len(p))) \/ \E k \in Nat : Less(p, q, k)
      /\ Precedes(q, p) <=> (Len(q) < Len(p) /\ Agree(q, p, Len(q))) \/ \E k \in Nat : Less(q, p, k)
      /\ Precedes(p, p) <=> (Len(p) < Len(p) /\ Agree(p, p, Len(p))) \/ \E k \in Nat : Less(p, p, k)
      /\ IsPrefix(p, q) <=> Agree(p, q, Len(p))
  BY OrderIs
<1>2. Len(p) \in Nat /\ Len(q) \in Nat
  BY DEF AnyPath
<1>3. ~Precedes(p, p)
  BY <1>1, <1>2 DEF Less, Parts
<1>4. \A k \in Nat : Less(p, q, k) \/ Less(q, p, k) => Parts(p, q, k)
  BY DEF Less, Parts, Agree
<1>5. (\E k \in Nat : Parts(p, q, k)) => ~Agree(p, q, Len(p)) /\ ~Agree(q, p, Len(q))
  BY PartsLess
<1>6. ASSUME NEW k \in Nat, Less(p, q, k), NEW j \in Nat, Less(q, p, j)
      PROVE  FALSE
  <2>1. j = k
    <3>1. Parts(p, q, k) /\ Parts(p, q, j)
      BY <1>4, <1>6
    <3> QED
      BY <3>1, PartsLess
  <2>2. Rank[p[k]] < Rank[q[k]] /\ Rank[q[k]] < Rank[p[k]]
    BY <1>6, <2>1 DEF Less
  <2>3. p[k] \in AllNames /\ q[k] \in AllNames
    BY <1>6 DEF Less, Parts, AnyPath
  <2>4. Rank[p[k]] \in Nat /\ Rank[q[k]] \in Nat
    BY <2>3, Ranks
  <2> QED
    BY <2>2, <2>4
<1>7. ~(Precedes(p, q) /\ Precedes(q, p))
  BY <1>1, <1>2, <1>4, <1>5, <1>6
<1>8. Agree(p, q, Len(p)) => p = q \/ Precedes(p, q)
  <2>1. Agree(p, q, Len(p)) /\ ~(Len(p) < Len(q)) => Len(p) = Len(q)
    BY <1>2 DEF Agree
  <2>2. Agree(p, q, Len(p)) /\ Len(p) = Len(q) => p = q
    BY SeqEqual DEF Agree, AnyPath
  <2> QED
    BY <1>1, <2>1, <2>2
<1>9. Agree(q, p, Len(q)) => p = q \/ Precedes(q, p)
  <2>1. Agree(q, p, Len(q)) /\ ~(Len(q) < Len(p)) => Len(p) = Len(q)
    BY <1>2 DEF Agree
  <2>2. Agree(q, p, Len(q)) /\ Len(p) = Len(q) => p = q
    BY SeqEqual DEF Agree, AnyPath
  <2> QED
    BY <1>1, <2>1, <2>2
<1>10. \A k \in Nat : Parts(p, q, k) => Precedes(p, q) \/ Precedes(q, p)
  BY <1>1, PartsLess
<1> QED
  BY <1>1, <1>3, <1>7, <1>8, <1>9, <1>10, PrefixOrPart

\* What lies below two paths that part comes in their order.
LEMMA BelowInOrder ==
  ASSUME NEW p, NEW q, NEW s, NEW t, p \in AnyPath, q \in AnyPath, s \in AnyPath, t \in AnyPath,
         Precedes(p, q), ~IsPrefix(p, q), IsPrefix(p, s), IsPrefix(q, t)
  PROVE  Precedes(s, t) /\ ~IsPrefix(s, t) /\ ~IsPrefix(p, t)
<1>1. PICK k \in Nat : Less(p, q, k)
  BY OrderIs
<1>2. /\ k \in Nat \ {0} /\ k <= Len(p) /\ k <= Len(q) /\ p[k] # q[k] /\ Rank[p[k]] < Rank[q[k]]
      /\ \A i \in 1 .. k - 1 : p[i] = q[i]
      /\ Len(p) \in Nat /\ Len(q) \in Nat /\ Len(s) \in Nat /\ Len(t) \in Nat
  BY <1>1 DEF Less, Parts, Agree, AnyPath
<1>3. /\ Len(p) <= Len(s) /\ \A i \in 1 .. Len(p) : p[i] = s[i]
      /\ Len(q) <= Len(t) /\ \A i \in 1 .. Len(q) : q[i] = t[i]
  <2>1. Agree(p, s, Len(p)) /\ Agree(q, t, Len(q))
    BY OrderIs
  <2> QED
    BY <2>1 DEF Agree
<1>4. /\ k <= Len(s) /\ k <= Len(t) /\ s[k] = p[k] /\ t[k] = q[k]
      /\ \A i \in 1 .. k - 1 : s[i] = t[i] /\ p[i] = t[i]
  <2>1. k \in 1 .. Len(p) /\ k \in 1 .. Len(q) /\ k <= Len(s) /\ k <= Len(t)
    BY <1>2, <1>3
  <2>2. \A i \in 1 .. k - 1 : i \in 1 .. Len(p) /\ i \in 1 .. Len(q)
    BY <1>2
  <2> QED
    BY <1>2, <1>3, <2>1, <2>2
<1>5. k - 1 <= Len(s) /\ k - 1 <= Len(t) /\ k - 1 <= Len(p)
  BY <1>2, <1>4
<1>6. Less(s, t, k) /\ Parts(p, t, k)
  BY <1>2, <1>4, <1>5 DEF Less, Parts, Agree
<1>7. Precedes(s, t)
  BY <1>6, OrderIs
<1>8. Parts(s, t, k)
  BY <1>6 DEF Less
<1>9. ~Agree(s, t, Len(s)) /\ ~Agree(p, t, Len(p))
  BY <1>6, <1>8, PartsLess
<1> QED
  BY <1>7, <1>9, OrderIs


\* The order is transitive, and so is being a prefix.
LEMMA InTurnOrdered ==
  ASSUME NEW p, NEW q, NEW s, p \in AnyPath, q \in AnyPath, s \in AnyPath
  PROVE  /\ Precedes(p, q) /\ Precedes(q, s) => Precedes(p, s)
         /\ IsPrefix(p, q) /\ IsPrefix(q, s) => IsPrefix(p, s)
<1>1. /\ Precedes(p, q) <=> (Len(p) < Len(q) /\ Agree(p, q, Len(p))) \/ \E k \in Nat : Less(p, q, k)
      /\ Precedes(q, s) <=> (Len(q) < Len(s) /\ Agree(q, s, Len(q))) \/ \E k \in Nat : Less(q, s, k)
      /\ Precedes(p, s) <=> (Len(p) < Len(s) /\ Agree(p, s, Len(p))) \/ \E k \in Nat : Less(p, s, k)
      /\ IsPrefix(p, q) <=> Agree(p, q, Len(p))
      /\ IsPrefix(q, s) <=> Agree(q, s, Len(q))
      /\ IsPrefix(p, s) <=> Agree(p, s, Len(p))
  BY OrderIs
<1>2. Len(p) \in Nat /\ Len(q) \in Nat /\ Len(s) \in Nat
  BY DEF AnyPath
<1>3. Agree(p, q, Len(p)) /\ Agree(q, s, Len(q)) => Agree(p, s, Len(p))
  BY <1>2 DEF Agree
<1>4. ASSUME Len(p) < Len(q), Agree(p, q, Len(p)), NEW k \in Nat, Less(q, s, k)
      PROVE  Precedes(p, s)
  <2>1. /\ k # 0 /\ k <= Len(s) /\ \A i \in 1 .. k - 1 : q[i] = s[i]
        /\ q[k] # s[k] /\ Rank[q[k]] < Rank[s[k]] /\ \A i \in 1 .. Len(p) : p[i] = q[i]
    BY <1>4 DEF Less, Parts, Agree
  <2>2. CASE k <= Len(p)
    <3>1. p[k] = q[k] /\ \A i \in 1 .. k - 1 : p[i] = s[i]
      BY <1>2, <2>1, <2>2
    <3>2. Less(p, s, k)
      BY <1>2, <2>1, <2>2, <3>1 DEF Less, Parts, Agree
    <3> QED
      BY <1>1, <3>2
  <2>3. CASE ~(k <= Len(p))
    <3>1. Len(p) < Len(s) /\ \A i \in 1 .. Len(p) : p[i] = s[i]
      BY <1>2, <2>1, <2>3
    <3> QED
      BY <1>1, <1>2, <3>1 DEF Agree
  <2> QED
    BY <2>2, <2>3
<1>5. ASSUME NEW k \in Nat, Less(p, q, k), Len(q) < Len(s), Agree(q, s, Len(q))
      PROVE  Precedes(p, s)
  <2>1. /\ k # 0 /\ k <= Len(p) /\ k <= Len(q) /\ \A i \in 1 .. k - 1 : p[i] = q[i]
        /\ p[k] # q[k] /\ Rank[p[k]] < Rank[q[k]] /\ \A i \in 1 .. Len(q) : q[i] = s[i]
    BY <1>5 DEF Less, Parts, Agree
  <2>2. q[k] = s[k] /\ k <= Len(s) /\ \A i \in 1 .. k - 1 : p[i] = s[i]
    BY <1>2, <1>5, <2>1
  <2>3. Less(p, s, k)
    BY <1>2, <2>1, <2>2 DEF Less, Parts, Agree
  <2> QED
    BY <1>1, <2>3
<1>6. ASSUME NEW k \in Nat, Less(p, q, k), NEW j \in Nat, Less(q, s, j)
      PROVE  Precedes(p, s)
  <2>1. /\ k # 0 /\ k <= Len(p) /\ k <= Len(q) /\ \A i \in 1 .. k - 1 : p[i] = q[i]
        /\ Rank[p[k]] < Rank[q[k]]
        /\ j # 0 /\ j <= Len(q) /\ j <= Len(s) /\ \A i \in 1 .. j - 1 : q[i] = s[i]
        /\ Rank[q[j]] < Rank[s[j]]
    BY <1>6 DEF Less, Parts, Agree
  <2> DEFINE n == IF k <= j THEN k ELSE j
  <2>2. /\ n \in Nat \ {0} /\ n <= Len(p) /\ n <= Len(q) /\ n <= Len(s)
        /\ \A i \in 1 .. n - 1 : p[i] = s[i]
    <3>1. CASE k <= j
      <4>1. \A i \in 1 .. k - 1 : i \in 1 .. j - 1
        BY <3>1
      <4>2. k \in Nat \ {0} /\ k <= Len(p) /\ k <= Len(q) /\ k <= Len(s) /\ \A i \in 1 .. k - 1 : p[i] = s[i]
        BY <1>2, <2>1, <3>1, <4>1
      <4> QED
        BY <3>1, <4>2
    <3>2. CASE ~(k <= j)
      <4>1. \A i \in 1 .. j - 1 : i \in 1 .. k - 1
        BY <3>2
      <4>2. j \in Nat \ {0} /\ j <= Len(p) /\ j <= Len(q) /\ j <= Len(s) /\ \A i \in 1 .. j - 1 : p[i] = s[i]
        BY <1>2, <2>1, <3>2, <4>1
      <4> QED
        BY <3>2, <4>2
    <3> QED
      BY <3>1, <3>2
  <2>3. p[n] \in AllNames /\ q[n] \in AllNames /\ s[n] \in AllNames
    <3> HIDE DEF n
    <3> QED
      BY <2>2 DEF AnyPath
  <2>4. Rank[p[n]] \in Nat /\ Rank[q[n]] \in Nat /\ Rank[s[n]] \in Nat
    BY <2>3, Ranks
  <2>5. Rank[p[n]] < Rank[s[n]]
    <3>1. CASE k < j
      <4>1. n = k /\ q[k] = s[k]
        BY <2>1, <3>1
      <4> QED
        BY <2>1, <4>1
    <3>2. CASE j < k
      <4>1. n = j /\ p[j] = q[j]
        BY <2>1, <3>2
      <4> QED
        BY <2>1, <4>1
    <3>3. CASE j = k
      BY <2>1, <2>4, <3>3
    <3> QED
      BY <3>1, <3>2, <3>3
  <2>6. Less(p, s, n)
    <3> HIDE DEF n
    <3>1. p[n] # s[n] /\ n - 1 <= Len(p) /\ n - 1 <= Len(s)
      BY <1>2, <2>2, <2>4, <2>5
    <3> QED
      BY <2>2, <2>5, <3>1 DEF Less, Parts, Agree
  <2> QED
    BY <1>1, <2>2, <2>6
<1>7. Len(p) < Len(q) /\ Len(q) < Len(s) => Len(p) < Len(s)
  BY <1>2
<1> QED
  BY <1>1, <1>3, <1>4, <1>5, <1>6, <1>7

\* What comes out of the sorting: everything once, in order.
InOrder(s) == \A j, k \in 1 .. Len(s) : j < k => Precedes(s[j], s[k])

LEMMA SortedIs ==
  ASSUME NEW S, S \subseteq AnyPath, IsFiniteSet(S)
  PROVE  Sorted(S) \in Seq(S) /\ Range(Sorted(S)) = S /\ InOrder(Sorted(S))
<1> DEFINE L(p) == {q \in S : Precedes(q, p)}
           C(p) == Cardinality(L(p))
           n == Cardinality(S)
           f == [p \in S |-> C(p) + 1]
           s == Sorted(S)
<1>1. n \in Nat
  BY FS_CardinalityType
<1>2. ASSUME NEW p \in S
      PROVE  IsFiniteSet(L(p)) /\ C(p) \in Nat /\ C(p) < n
  <2>1. L(p) \subseteq S /\ L(p) # S
    <3>1. p \notin L(p)
      BY Ordered
    <3> QED
      BY <3>1
  <2> QED
    BY <1>1, <2>1, FS_Subset, FS_CardinalityType
<1>3. ASSUME NEW p \in S, NEW q \in S, Precedes(p, q)
      PROVE  f[p] < f[q]
  <2>1. L(p) \subseteq L(q)
    BY <1>3, InTurnOrdered
  <2>2. p \in L(q) /\ p \notin L(p)
    BY <1>3, Ordered
  <2>3. IsFiniteSet(L(q)) /\ L(p) \in SUBSET L(q) /\ L(p) # L(q) /\ C(p) \in Nat /\ C(q) \in Nat
    BY <1>2, <2>1, <2>2
  <2> HIDE DEF L
  <2>4. C(p) < C(q)
    BY <2>3, FS_Subset
  <2> HIDE DEF C
  <2> QED
    BY <2>3, <2>4
<1>4. f \in [S -> 1 .. n]
  <2>1. ASSUME NEW p \in S
        PROVE  C(p) + 1 \in 1 .. n
    <3>1. C(p) \in Nat /\ C(p) < n
      BY <1>2
    <3> HIDE DEF C, n
    <3> QED
      BY <1>1, <3>1
  <2> HIDE DEF C, n
  <2> QED
    BY <2>1
<1>5. \A p, q \in S : p # q => f[p] # f[q]
  <2>1. \A p, q \in S : p # q => Precedes(p, q) \/ Precedes(q, p)
    BY Ordered
  <2>2. \A p \in S : f[p] \in Nat
    BY <1>4
  <2> HIDE DEF f
  <2> QED
    BY <1>3, <2>1, <2>2
<1>6. f \in Injection(S, 1 .. n)
  <2> HIDE DEF f, n
  <2> QED
    BY <1>4, <1>5 DEF Injection, IsInjective
<1>7. f \in Surjection(S, 1 .. n)
  <2>1. IsFiniteSet(1 .. n) /\ Cardinality(1 .. n) = n
    BY <1>1, FS_Interval
  <2> HIDE DEF f
  <2> QED
    BY <1>6, <2>1, FS_Injection
<1>8. \A k \in 1 .. n : \E p \in S : f[p] = k
  <2> HIDE DEF f, n
  <2> QED
    BY <1>7 DEF Surjection
<1>9. \A p \in S, k \in 1 .. n : f[p] = k <=> Cardinality({q \in S : Precedes(q, p)}) = k - 1
  <2>1. ASSUME NEW p \in S, NEW k \in 1 .. n
        PROVE  f[p] = k <=> C(p) = k - 1
    <3>1. C(p) \in Nat /\ f[p] = C(p) + 1
      BY <1>2
    <3> HIDE DEF C, n, f
    <3> QED
      BY <1>1, <3>1
  <2> QED
    BY <2>1 DEF C, L
<1>10. DOMAIN s = 1 .. n /\ \A k \in 1 .. n : s[k] \in S /\ f[s[k]] = k
  <2>1. s = [k \in 1 .. n |-> CHOOSE p \in S : Cardinality({q \in S : Precedes(q, p)}) = k - 1]
    BY DEF Sorted
  <2> HIDE DEF f, n, s
  <2>2. \A k \in 1 .. n : \E p \in S : Cardinality({q \in S : Precedes(q, p)}) = k - 1
    BY <1>8, <1>9
  <2> QED
    BY <1>9, <2>1, <2>2
<1> HIDE DEF f, n, s, L
<1>11. s \in [1 .. n -> S]
  <2> DEFINE e(k) == CHOOSE p \in S : Cardinality({q \in S : Precedes(q, p)}) = k - 1
  <2>1. s = [k \in 1 .. n |-> e(k)]
    BY DEF Sorted, s, n
  <2> HIDE DEF e
  <2>2. s = [k \in 1 .. n |-> s[k]]
    BY <2>1
  <2> QED
    BY <1>10, <2>2
<1>12. s \in Seq(S) /\ Len(s) = n
  BY <1>1, <1>11
<1>13. Range(s) = S
  <2>1. ASSUME NEW p \in S
        PROVE  p \in Range(s)
    <3>1. f[p] \in 1 .. n
      BY <1>4
    <3>2. s[f[p]] = p
      BY <1>5, <1>10, <3>1
    <3> QED
      BY <1>10, <3>1, <3>2 DEF Range
  <2> QED
    BY <1>10, <2>1 DEF Range
<1>14. ASSUME NEW j \in 1 .. n, NEW k \in 1 .. n, j < k
       PROVE  Precedes(s[j], s[k])
  <2>1. s[j] # s[k] /\ s[j] \in AnyPath /\ s[k] \in AnyPath
    BY <1>10, <1>14
  <2>2. Precedes(s[j], s[k]) \/ Precedes(s[k], s[j])
    BY <2>1, Ordered
  <2>3. Precedes(s[k], s[j]) => f[s[k]] < f[s[j]]
    BY <1>3, <1>10
  <2> QED
    BY <1>10, <1>14, <2>2, <2>3
<1> QED
  BY <1>12, <1>13, <1>14 DEF s, InOrder


-----------------------------------------------------------------------------
(***************************************************************************)
(* What a walk comes to, for any value of --skip.                          *)
(***************************************************************************)
SkippedBy(sk, p) == Base(p) \in sk \/ p \in sk \/ Last(p) \in (DotNames \cup UnderNames) \ {".", ".."}
ReachedBy(sk, r) ==
  {rel \in Below(r) : \A k \in 0 .. Len(rel) - 1 : ~SkippedBy(sk, From(r, SubSeq(rel, 1, k)))}

\* The walk has come through the directories above.
LEMMA ReachedAbove ==
  ASSUME NEW sk, NEW r, NEW rel, NEW k, IsRoot(r), rel \in ReachedBy(sk, r), k \in 0 .. Len(rel) - 1
  PROVE  /\ SubSeq(rel, 1, k) \in ReachedBy(sk, r) /\ SubSeq(rel, 1, k) \in AnyPath
         /\ Directory(Real(r) \o SubSeq(rel, 1, k))
         /\ ~SkippedBy(sk, From(r, SubSeq(rel, 1, k)))
<1>1. rel \in Below(r) /\ rel \in AnyPath /\ InDirectories(Real(r), rel) /\ Len(rel) \in Nat
  BY BelowIs DEF ReachedBy, AnyPath
<1> DEFINE e == SubSeq(rel, 1, k)
<1>2. e \in AnyPath /\ Len(e) = k /\ \A j \in 0 .. k : SubSeq(e, 1, j) = SubSeq(rel, 1, j)
  <2>1. k \in Nat /\ k <= Len(rel) /\ \A i \in 1 .. k : rel[i] \in AllNames
    BY <1>1 DEF AnyPath
  <2>2. e \in Seq(AllNames) /\ Len(e) = k /\ \A i \in 1 .. k : e[i] = rel[i]
    <3>1. /\ e \in Seq(AllNames) /\ Len(e) = (IF 1 <= k THEN k - 1 + 1 ELSE 0)
          /\ \A i \in 1 .. k - 1 + 1 : e[i] = rel[1 + i - 1]
      BY <2>1, SubSeqProperties
    <3> HIDE DEF e
    <3> QED
      BY <2>1, <3>1
  <2> HIDE DEF e
  <2>3. ASSUME NEW j \in 0 .. k
        PROVE  SubSeq(e, 1, j) = SubSeq(rel, 1, j)
    <3>1. j \in Nat /\ j <= Len(e) /\ j <= Len(rel) /\ \A i \in 1 .. j : e[i] = rel[i]
      BY <1>1, <2>1, <2>2
    <3> QED
      BY <1>1, <2>2, <3>1, AgreeIs DEF Agree, AnyPath
  <2> QED
    BY <2>2, <2>3 DEF AnyPath
<1>3. Directory(Real(r) \o e)
  BY <1>1 DEF InDirectories
<1> HIDE DEF e
<1>4. e \in Below(r)
  BY <1>2, <1>3, BelowIs DEF Directory, Tree
<1>5. \A j \in 0 .. Len(rel) - 1 : ~SkippedBy(sk, From(r, SubSeq(rel, 1, j)))
  BY DEF ReachedBy
<1>6. \A j \in 0 .. Len(e) - 1 : j \in 0 .. k /\ j \in 0 .. Len(rel) - 1
  BY <1>1, <1>2
<1>7. e \in ReachedBy(sk, r)
  BY <1>2, <1>4, <1>5, <1>6 DEF ReachedBy
<1> QED
  BY <1>2, <1>3, <1>5, <1>7 DEF e

\* It comes to what is in a directory that it comes to and does not skip.
LEMMA ReachedNext ==
  ASSUME NEW sk, NEW r, NEW e, NEW m, IsRoot(r), e \in ReachedBy(sk, r), m \in AllNames,
         ~SkippedBy(sk, From(r, e)), Append(e, m) \in Below(r)
  PROVE  Append(e, m) \in ReachedBy(sk, r)
<1>1. e \in Seq(AllNames)
  BY BelowIs DEF ReachedBy, AnyPath
<1> DEFINE u == Append(e, m)
           l == Len(e)
           n == Len(u)
<1>2. /\ n = l + 1 /\ l \in Nat /\ SubSeq(e, 1, l) = e
      /\ \A k \in 0 .. l : SubSeq(u, 1, k) = SubSeq(e, 1, k)
  BY <1>1, FirstNames
<1>3. \A k \in 0 .. l - 1 : ~SkippedBy(sk, From(r, SubSeq(e, 1, k)))
  BY DEF ReachedBy
<1> HIDE DEF l, n, u
<1>4. \A k \in 0 .. n - 1 : k \in 0 .. l /\ (k = l \/ k \in 0 .. l - 1)
  BY <1>2
<1>5. \A k \in 0 .. n - 1 : ~SkippedBy(sk, From(r, SubSeq(u, 1, k)))
  BY <1>2, <1>3, <1>4
<1> QED
  BY <1>5 DEF ReachedBy, n, u

\* What it comes to below something is below the next name.
LEMMA ReachedBelow ==
  ASSUME NEW sk, NEW r, NEW a, NEW rel, IsRoot(r), a \in ReachedBy(sk, r), rel \in ReachedBy(sk, r),
         IsPrefix(a, rel), a # rel
  PROVE  /\ Directory(Real(r) \o a) /\ ~SkippedBy(sk, From(r, a))
         /\ \E m \in AllNames : Append(a, m) \in ReachedBy(sk, r) /\ IsPrefix(Append(a, m), rel)
<1>1. a \in Seq(AllNames) /\ rel \in Seq(AllNames)
  BY BelowIs DEF ReachedBy, AnyPath
<1>2. Len(a) \in Nat /\ Len(rel) \in Nat /\ Len(a) < Len(rel) /\ SubSeq(rel, 1, Len(a)) = a
  <2>1. Len(a) <= Len(rel) /\ SubSeq(rel, 1, Len(a)) = a
    BY <1>1, SubSeqFull DEF IsPrefix
  <2>2. Len(a) # Len(rel)
    BY <1>1, <2>1, SubSeqFull
  <2> QED
    BY <1>1, <2>1, <2>2
<1> DEFINE l == Len(a)
           n == Len(rel)
           m == rel[l + 1]
           c == SubSeq(rel, 1, l + 1)
<1>3. l \in 0 .. n - 1 /\ l + 1 \in 1 .. n /\ l + 1 \in Nat /\ n \in Nat
  <2> HIDE DEF l, n
  <2>1. l \in Nat /\ n \in Nat /\ l < n
    BY <1>2 DEF l, n
  <2> QED
    BY <2>1
<1>4. Directory(Real(r) \o a) /\ ~SkippedBy(sk, From(r, a))
  BY <1>2, <1>3, ReachedAbove
<1>5. m \in AllNames
  BY <1>1, <1>3
<1>6. c = Append(a, m)
  <2>1. l + 1 \in 1 .. Len(rel) /\ 1 \in 1 .. Len(rel) /\ l + 1 \in 1 .. Len(rel) /\ (l + 1) - 1 = l
    BY <1>2, <1>3
  <2>2. c = SubSeq(rel, 1, (l + 1) - 1) \o <<rel[l + 1]>>
    BY <1>1, <2>1, SubSeqRecursiveSecond
  <2>3. c = a \o <<m>>
    BY <1>2, <2>1, <2>2
  <2> QED
    BY <1>1, <1>5, <2>3, AppendIsConcat
<1>7. c \in ReachedBy(sk, r)
  <2>1. CASE l + 1 = n
    BY <1>1, <2>1, SubSeqFull
  <2>2. CASE l + 1 # n
    <3>1. l + 1 \in 0 .. n - 1
      <4> HIDE DEF l, n
      <4> QED
        BY <1>3, <2>2
    <3> QED
      BY <3>1, ReachedAbove
  <2> QED
    BY <2>1, <2>2
<1>8. IsPrefix(Append(a, m), rel)
  <2>1. Append(a, m) \in Seq(AllNames) /\ Len(Append(a, m)) = l + 1
    BY <1>1, <1>5
  <2>2. SubSeq(Append(a, m), 1, l + 1) = SubSeq(rel, 1, l + 1)
    BY <1>6, <2>1, SubSeqFull
  <2>3. l + 1 <= Len(rel)
    BY <1>2, <1>3
  <2> QED
    BY <2>1, <2>2, <2>3 DEF IsPrefix
<1> QED
  BY <1>4, <1>5, <1>6, <1>7, <1>8

\* The frontier of a walk, by the names from the root, and what it has passed.
Come(sk, r, as) == {rel \in ReachedBy(sk, r) : \A k \in 1 .. Len(as) : Precedes(rel, as[k])}
IsWalk(sk, r, as) ==
  /\ as \in Seq(Within(r))
  /\ (\A k \in 1 .. Len(as) : as[k] \in ReachedBy(sk, r)) \/ (Real(r) \notin Tree /\ as = <<<<>>>>)
  /\ \A j, k \in 1 .. Len(as) : j < k => Precedes(as[j], as[k]) /\ ~IsPrefix(as[j], as[k])
  /\ \A rel \in ReachedBy(sk, r) :
       rel \in Come(sk, r, as) \/ \E k \in 1 .. Len(as) : IsPrefix(as[k], rel)

\* cs is what the walk comes to next below a, in order.
NextBelow(sk, r, a, cs) ==
  /\ cs \in Seq(ReachedBy(sk, r)) /\ InOrder(cs)
  /\ \A k \in 1 .. Len(cs) : \E m \in AllNames : cs[k] = Append(a, m)
  /\ \A m \in AllNames : Append(a, m) \in ReachedBy(sk, r) => Append(a, m) \in Range(cs)

\* Below a comes what is after a and before all that is after a.
LEMMA ChildIs ==
  ASSUME NEW sk, NEW r, NEW a, NEW cs, IsRoot(r), a \in ReachedBy(sk, r), NextBelow(sk, r, a, cs),
         NEW k, k \in 1 .. Len(cs)
  PROVE  cs[k] \in AnyPath /\ Len(cs[k]) = Len(a) + 1 /\ IsPrefix(a, cs[k]) /\ Precedes(a, cs[k])
<1>1. PICK m \in AllNames : cs[k] = Append(a, m)
  BY DEF NextBelow
<1>2. a \in Seq(AllNames)
  BY BelowIs DEF ReachedBy, AnyPath
<1>3. Append(a, m) \in Seq(AllNames) /\ Len(Append(a, m)) = Len(a) + 1 /\ Len(a) \in Nat
  BY <1>2
<1>4. IsPrefix(a, Append(a, m))
  <2>1. SubSeq(Append(a, m), 1, Len(a)) = SubSeq(a, 1, Len(a))
    <3>1. Len(a) \in 0 .. Len(a)
      BY <1>3
    <3> QED
      BY <1>2, <3>1, FirstNames
  <2>2. Len(a) <= Len(Append(a, m))
    BY <1>3
  <2> QED
    BY <2>1, <2>2 DEF IsPrefix
<1>5. a # Append(a, m)
  BY <1>2, <1>3
<1> QED
  BY <1>1, <1>2, <1>3, <1>4, <1>5, Ordered DEF AnyPath


\* If anything is below the root, the root is there.
LEMMA RootThere ==
  ASSUME NEW r, IsRoot(r), NEW a, a \in Below(r)
  PROVE  Real(r) \in Tree
<1>1. a \in Seq(AllNames) /\ Real(r) \o a \in Tree /\ InDirectories(Real(r), a) /\ Real(r) \in Seq(AllNames)
  BY BelowIs DEF AnyPath
<1>2. Real(r) \o <<>> = Real(r)
  BY <1>1
<1>3. CASE a # <<>>
  <2> DEFINE n == Len(a)
  <2>1. n \in Nat \ {0} /\ SubSeq(a, 1, 0) = <<>>
    BY <1>1, <1>3
  <2> HIDE DEF n
  <2>2. 0 \in 0 .. n - 1
    BY <2>1
  <2>3. Directory(Real(r) \o SubSeq(a, 1, 0))
    BY <1>1, <2>2 DEF InDirectories, n
  <2> QED
    BY <1>2, <2>1, <2>3 DEF Directory, Tree
<1> QED
  BY <1>1, <1>2, <1>3

\* The walk takes the first of its frontier and puts what is next below it in its place.
LEMMA WalkOn ==
  ASSUME NEW sk, NEW r, NEW as, NEW cs, IsRoot(r), IsWalk(sk, r, as), as # <<>>,
         as[1] \in ReachedBy(sk, r), NextBelow(sk, r, as[1], cs)
  PROVE  /\ IsWalk(sk, r, cs \o Tail(as))
         /\ Come(sk, r, cs \o Tail(as)) = Come(sk, r, as) \cup {as[1]}
<1> DEFINE R == ReachedBy(sk, r)
           a == as[1]
           n == Len(cs)
           l == Len(as)
           t == Tail(as)
           new == cs \o t
<1>1. R \subseteq AnyPath /\ R \subseteq Within(r) /\ a \in R
  BY BelowIs DEF ReachedBy, Within
<1>2. /\ cs \in Seq(R) /\ n \in Nat /\ l \in Nat \ {0} /\ as \in Seq(Within(r))
      /\ t \in Seq(Within(r)) /\ Len(t) = l - 1 /\ \A k \in 1 .. l - 1 : t[k] = as[k + 1]
  <2>1. as \in Seq(Within(r)) /\ cs \in Seq(R)
    BY DEF IsWalk, NextBelow
  <2>2. l \in Nat \ {0} /\ t \in Seq(Within(r)) /\ Len(t) = l - 1 /\ \A k \in 1 .. l - 1 : t[k] = as[k + 1]
    <3>1. /\ t \in Seq(Within(r)) /\ Len(t) = Len(as) - 1
          /\ \A k \in 1 .. Len(t) : t[k] = as[k + 1]
      BY <2>1, HeadTailProperties
    <3>2. l \in Nat \ {0}
      BY <2>1, FrontIs
    <3> HIDE DEF t
    <3> QED
      BY <3>1, <3>2
  <2> HIDE DEF R
  <2>3. n \in Nat
    BY <2>1
  <2> QED
    BY <2>1, <2>2, <2>3
<1>3. \A k \in 1 .. l : as[k] \in R
  <2>1. Real(r) \in Tree
    BY RootThere DEF ReachedBy
  <2> QED
    BY <2>1 DEF IsWalk
<1>4. /\ new \in Seq(Within(r)) /\ Len(new) = n + l - 1
      /\ \A k \in 1 .. n : new[k] = cs[k] /\ cs[k] \in R
      /\ \A k \in n + 1 .. n + l - 1 : new[k] = as[k - n + 1] /\ k - n + 1 \in 2 .. l
  <2>1. cs \in Seq(Within(r))
    BY <1>1, <1>2
  <2>2. /\ new \in Seq(Within(r)) /\ Len(new) = n + Len(t)
        /\ \A k \in 1 .. n + Len(t) : new[k] = IF k <= n THEN cs[k] ELSE t[k - n]
    <3> HIDE DEF t
    <3> QED
      BY <1>2, <2>1, ConcatProperties
  <2>3. \A k \in 1 .. n : cs[k] \in R
    BY <1>2
  <2> HIDE DEF new, t, n, l
  <2>4. \A k \in 1 .. n : k \in 1 .. n + Len(t) /\ k <= n
    BY <1>2
  <2>5. \A k \in n + 1 .. n + l - 1 :
          /\ k \in 1 .. n + Len(t) /\ ~(k <= n) /\ k - n \in 1 .. l - 1
          /\ (k - n) + 1 = k - n + 1 /\ k - n + 1 \in 2 .. l
    BY <1>2
  <2> QED
    BY <1>2, <2>2, <2>3, <2>4, <2>5
<1>5. \A k \in 1 .. n : cs[k] \in AnyPath /\ Len(cs[k]) = Len(a) + 1 /\ IsPrefix(a, cs[k]) /\ Precedes(a, cs[k])
  BY <1>1, ChildIs
<1>6. /\ \A j, k \in 1 .. l : j < k => Precedes(as[j], as[k]) /\ ~IsPrefix(as[j], as[k])
      /\ \A rel \in R : (\A k \in 1 .. l : Precedes(rel, as[k])) \/ \E k \in 1 .. l : IsPrefix(as[k], rel)
  BY DEF IsWalk, Come
<1> HIDE DEF R, a, n, l, t, new
<1>7. \A k \in 2 .. l : Precedes(a, as[k]) /\ ~IsPrefix(a, as[k]) /\ as[k] \in R /\ as[k] \in AnyPath
  <2>1. \A k \in 2 .. l : 1 \in 1 .. l /\ k \in 1 .. l /\ 1 < k
    BY <1>2
  <2> QED
    BY <1>1, <1>3, <1>6, <2>1 DEF a
<1>8. \A p \in AnyPath : IsPrefix(p, p)
  BY DEF IsPrefix
<1>9. ASSUME NEW k \in 1 .. n, NEW j \in 2 .. l
      PROVE  Precedes(cs[k], as[j]) /\ ~IsPrefix(cs[k], as[j])
  BY <1>1, <1>5, <1>7, <1>8, BelowInOrder
<1>10. ASSUME NEW j \in 1 .. n, NEW k \in 1 .. n, j < k
       PROVE  Precedes(cs[j], cs[k]) /\ ~IsPrefix(cs[j], cs[k])
  <2>1. Precedes(cs[j], cs[k])
    BY <1>10 DEF NextBelow, InOrder, n
  <2>2. cs[j] \in Seq(AllNames) /\ cs[k] \in Seq(AllNames) /\ Len(cs[j]) = Len(cs[k])
    BY <1>5 DEF AnyPath
  <2>3. IsPrefix(cs[j], cs[k]) => cs[j] = cs[k]
    BY <2>2, SubSeqFull DEF IsPrefix
  <2> QED
    BY <1>5, <2>1, <2>3, Ordered
<1>11. ASSUME NEW j \in 1 .. n + l - 1, NEW k \in 1 .. n + l - 1, j < k
       PROVE  Precedes(new[j], new[k]) /\ ~IsPrefix(new[j], new[k])
  <2>1. CASE k <= n
    <3>1. j \in 1 .. n /\ k \in 1 .. n
      BY <1>2, <1>11, <2>1
    <3> QED
      BY <1>4, <1>10, <1>11, <3>1
  <2>2. CASE j <= n /\ ~(k <= n)
    <3>1. j \in 1 .. n /\ k \in n + 1 .. n + l - 1
      BY <1>2, <2>2
    <3> QED
      BY <1>4, <1>9, <3>1
  <2>3. CASE ~(j <= n)
    <3>1. j \in n + 1 .. n + l - 1 /\ k \in n + 1 .. n + l - 1 /\ j - n + 1 < k - n + 1
      BY <1>2, <1>11, <2>3
    <3>2. \A i \in 2 .. l : i \in 1 .. l
      BY <1>2
    <3>3. /\ new[j] = as[j - n + 1] /\ new[k] = as[k - n + 1]
          /\ j - n + 1 \in 2 .. l /\ k - n + 1 \in 2 .. l
      BY <1>4, <3>1
    <3>4. j - n + 1 \in 1 .. l /\ k - n + 1 \in 1 .. l
      BY <3>2, <3>3
    <3> QED
      BY <1>6, <3>1, <3>3, <3>4
  <2> QED
    BY <1>2, <1>11, <2>1, <2>2, <2>3
<1> DEFINE Before(rel) == \A k \in 1 .. n + l - 1 : Precedes(rel, new[k])
           Under(rel) == \E k \in 1 .. n + l - 1 : IsPrefix(new[k], rel)
<1>12. \A k \in 2 .. l : k + n - 1 \in 1 .. n + l - 1 /\ new[k + n - 1] = as[k]
  <2>1. \A k \in 2 .. l : k + n - 1 \in n + 1 .. n + l - 1 /\ (k + n - 1) - n + 1 = k
    BY <1>2
  <2>2. \A k \in 2 .. l : k + n - 1 \in 1 .. n + l - 1
    BY <1>2
  <2> QED
    BY <1>4, <2>1, <2>2
<1>13. \A k \in 1 .. n : k \in 1 .. n + l - 1 /\ new[k] = cs[k]
  BY <1>2, <1>4
<1>14. ASSUME NEW rel \in R, \A k \in 1 .. l : Precedes(rel, as[k])
       PROVE  Before(rel)
  <2>1. \A k \in 2 .. l : k \in 1 .. l
    OBVIOUS
  <2>2. Precedes(rel, a)
    <3>1. 1 \in 1 .. l
      BY <1>2
    <3> QED
      BY <1>14, <3>1 DEF a
  <2>3. \A k \in 1 .. n : Precedes(rel, cs[k])
    <3>1. rel \in AnyPath /\ a \in AnyPath
      BY <1>1
    <3> QED
      BY <1>5, <2>2, <3>1, InTurnOrdered
  <2>4. ASSUME NEW k \in 1 .. n + l - 1
        PROVE  Precedes(rel, new[k])
    <3>1. CASE k <= n
      <4>1. k \in 1 .. n
        BY <1>2, <3>1
      <4> QED
        BY <1>13, <2>3, <4>1
    <3>2. CASE ~(k <= n)
      <4>1. k \in n + 1 .. n + l - 1
        BY <1>2, <3>2
      <4> QED
        BY <1>4, <1>14, <2>1, <4>1
    <3> QED
      BY <3>1, <3>2
  <2> QED
    BY <2>4
<1>15. Before(a)
  <2>1. ASSUME NEW k \in 1 .. n + l - 1
        PROVE  Precedes(a, new[k])
    <3>1. CASE k <= n
      <4>1. k \in 1 .. n
        BY <1>2, <3>1
      <4> QED
        BY <1>5, <1>13, <4>1
    <3>2. CASE ~(k <= n)
      <4>1. k \in n + 1 .. n + l - 1
        BY <1>2, <3>2
      <4> QED
        BY <1>4, <1>7, <4>1
    <3> QED
      BY <3>1, <3>2
  <2> QED
    BY <2>1
<1>16. ASSUME NEW rel \in R, NEW k \in 1 .. l, IsPrefix(as[k], rel), rel # a
       PROVE  Under(rel)
  <2>1. CASE k = 1
    <3>1. PICK m \in AllNames : Append(a, m) \in R /\ IsPrefix(Append(a, m), rel)
      BY <1>1, <1>16, <2>1, ReachedBelow DEF a, R
    <3>2. PICK j \in 1 .. n : cs[j] = Append(a, m)
      <4>1. Append(a, m) \in Range(cs)
        BY <3>1 DEF NextBelow, R, a
      <4> QED
        BY <1>2, <4>1, InRange DEF n
    <3> QED
      BY <1>13, <3>1, <3>2
  <2>2. CASE k # 1
    <3>1. k \in 2 .. l
      BY <2>2
    <3> QED
      BY <1>12, <1>16, <3>1
  <2> QED
    BY <2>1, <2>2
<1>17. ASSUME NEW rel \in R, Under(rel)
       PROVE  ~Before(rel)
  <2>1. PICK k \in 1 .. n + l - 1 : IsPrefix(new[k], rel)
    BY <1>17
  <2>2. new[k] \in AnyPath /\ rel \in AnyPath
    <3>1. new[k] \in Within(r)
      BY <1>2, <1>4
    <3> QED
      BY <1>1, <3>1, WithinTypes
  <2> QED
    BY <2>1, <2>2, Ordered
<1> HIDE DEF Before, Under
<1>18. \A rel \in R : Before(rel) \/ Under(rel)
  BY <1>6, <1>14, <1>15, <1>16
<1>19. \A rel \in R : Before(rel) <=> (\A k \in 1 .. l : Precedes(rel, as[k])) \/ rel = a
  BY <1>6, <1>14, <1>15, <1>16, <1>17
<1>20. Come(sk, r, new) = Come(sk, r, as) \cup {a}
  <2>1. Come(sk, r, new) = {rel \in R : Before(rel)}
    BY <1>4 DEF Come, R, Before
  <2>2. Come(sk, r, as) = {rel \in R : \A k \in 1 .. l : Precedes(rel, as[k])}
    BY DEF Come, R, l
  <2> QED
    BY <1>1, <1>19, <2>1, <2>2
<1>21. IsWalk(sk, r, new)
  <2>1. \A k \in 1 .. Len(new) : new[k] \in R
    <3>1. ASSUME NEW k \in 1 .. n + l - 1
          PROVE  new[k] \in R
      <4>1. k \in 1 .. n \/ k \in n + 1 .. n + l - 1
        BY <1>2
      <4>2. \A j \in 2 .. l : as[j] \in R
        BY <1>7
      <4> QED
        BY <1>4, <4>1, <4>2
    <3> QED
      BY <1>4, <3>1
  <2>2. \A rel \in R : rel \in Come(sk, r, new) \/ \E k \in 1 .. Len(new) : IsPrefix(new[k], rel)
    <3>1. Len(new) = n + l - 1
      BY <1>4
    <3> QED
      BY <1>18, <3>1 DEF Come, R, Before, Under
  <2> QED
    BY <1>4, <1>11, <2>1, <2>2 DEF IsWalk, R
<1> QED
  BY <1>20, <1>21 DEF a, new, t


-----------------------------------------------------------------------------
(***************************************************************************)
(* What a walk has found.                                                  *)
(***************************************************************************)
GoFileBy(sk, r, rel) ==
  ~Directory(Real(r) \o rel) /\ Last(From(r, rel)) \in GoNames /\ ~SkippedBy(sk, From(r, rel))
FoundBy(sk, r) ==
  {From(r, rel) : rel \in
     {f \in ReachedBy(sk, r) : /\ GoFileBy(sk, r, f)
                               /\ \A e \in ReachedBy(sk, r) : Real(r) \o e \in Broken => Precedes(f, e)}}
DirsOfArg(sk, a) ==
  IF a.all THEN {Clean(Dir(f)) : f \in FoundBy(sk, Clean(a.path))} ELSE {Clean(a.path)}
DirsOf(sk, gs, n) == UNION {DirsOfArg(sk, gs[k]) : k \in 1 .. n}
DirsIn(sk, r, as) ==
  {Clean(Dir(From(r, rel))) : rel \in {f \in Come(sk, r, as) : GoFileBy(sk, r, f)}}
Walked(sk, gs, n, r, as, ds) ==
  \/ /\ \A rel \in Come(sk, r, as) : Real(r) \o rel \notin Broken
     /\ ds = DirsOf(sk, gs, n - 1) \cup DirsIn(sk, r, as)
  \/ as = <<>> /\ ds = DirsOf(sk, gs, n)

\* One argument more.
LEMMA DirsOneMore ==
  ASSUME NEW sk, NEW gs, NEW n, n \in Nat \ {0}
  PROVE  DirsOf(sk, gs, n) = DirsOf(sk, gs, n - 1) \cup DirsOfArg(sk, gs[n])
<1>1. 1 .. n = (1 .. n - 1) \cup {n}
  OBVIOUS
<1> QED
  BY <1>1 DEF DirsOf

\* Nothing is left, or the walk has come to what it cannot read: it has found what it finds.
LEMMA WalkFound ==
  ASSUME NEW sk, NEW r, NEW as, IsRoot(r), IsWalk(sk, r, as),
         \A rel \in Come(sk, r, as) : Real(r) \o rel \notin Broken,
         \/ as = <<>> \/ Real(r) \notin Tree
         \/ as # <<>> /\ as[1] \in ReachedBy(sk, r) /\ Real(r) \o as[1] \in Broken
  PROVE  {Clean(Dir(f)) : f \in FoundBy(sk, r)} = DirsIn(sk, r, as)
<1> DEFINE R == ReachedBy(sk, r)
           First(f) == \A e \in R : Real(r) \o e \in Broken => Precedes(f, e)
           C == Come(sk, r, as)
           l == Len(as)
<1>1. R \subseteq AnyPath /\ R \subseteq Within(r) /\ C \subseteq R
  BY BelowIs DEF ReachedBy, Within, Come
<1>2. as \in Seq(Within(r)) /\ \A k \in 1 .. l : as[k] \in AnyPath
  <2>1. as \in Seq(Within(r))
    BY DEF IsWalk
  <2>2. \A k \in 1 .. l : as[k] \in Within(r)
    BY <2>1, ElementOfSeq
  <2> QED
    BY <2>1, <2>2, WithinTypes
<1>3. \A rel \in R : rel \in C \/ \E k \in 1 .. l : IsPrefix(as[k], rel)
  BY DEF IsWalk
<1>4. \A rel \in C : \A k \in 1 .. l : Precedes(rel, as[k])
  BY DEF Come
<1>5. \A rel \in R : (\A k \in 1 .. l : Precedes(rel, as[k])) => rel \in C
  BY DEF Come
<1>6. \A j, k \in 1 .. l : j < k => Precedes(as[j], as[k])
  BY DEF IsWalk
<1> HIDE DEF R, C, l
<1>7. ASSUME NEW f \in C
      PROVE  First(f)
  <2>1. SUFFICES ASSUME NEW e \in R, Real(r) \o e \in Broken
                 PROVE  Precedes(f, e)
    OBVIOUS
  <2>2. e \notin C
    BY <2>1 DEF C
  <2>3. PICK k \in 1 .. l : IsPrefix(as[k], e)
    BY <1>3, <2>1, <2>2
  <2>4. as[k] = e \/ Precedes(as[k], e)
    BY <1>1, <1>2, <2>1, <2>3, Ordered
  <2>5. Precedes(f, as[k])
    BY <1>4
  <2> QED
    BY <1>1, <1>2, <2>4, <2>5, InTurnOrdered
<1>8. ASSUME NEW f \in R, First(f)
      PROVE  f \in C
  <2>1. CASE as = <<>>
    <3>1. l = 0
      BY <2>1 DEF l
    <3> QED
      BY <1>5, <3>1
  <2>2. CASE Real(r) \notin Tree
    BY <2>2, <1>8, RootThere DEF R, ReachedBy
  <2>3. CASE as # <<>> /\ as[1] \in R /\ Real(r) \o as[1] \in Broken
    <3>1. Precedes(f, as[1])
      BY <1>8, <2>3
    <3>2. l \in Nat \ {0}
      BY <1>2, <2>3, FrontIs DEF l
    <3>3. ASSUME NEW k \in 1 .. l
          PROVE  Precedes(f, as[k])
      <4>1. CASE k = 1
        BY <3>1, <4>1
      <4>2. CASE k # 1
        <5>1. 1 \in 1 .. l /\ 1 < k
          BY <3>2, <4>2
        <5>2. Precedes(as[1], as[k]) /\ as[1] \in AnyPath /\ as[k] \in AnyPath
          BY <1>2, <1>6, <5>1
        <5> QED
          BY <1>1, <3>1, <5>2, InTurnOrdered
      <4> QED
        BY <4>1, <4>2
    <3> QED
      BY <1>5, <3>3
  <2> QED
    BY <2>1, <2>2, <2>3 DEF R
<1> HIDE DEF First
<1>9. {f \in R : GoFileBy(sk, r, f) /\ First(f)} = {f \in C : GoFileBy(sk, r, f)}
  BY <1>1, <1>7, <1>8
<1>10. FoundBy(sk, r) = {From(r, rel) : rel \in {f \in C : GoFileBy(sk, r, f)}}
  <2>1. FoundBy(sk, r) = {From(r, rel) : rel \in {f \in R : GoFileBy(sk, r, f) /\ First(f)}}
    BY DEF FoundBy, R, First
  <2> QED
    BY <1>9, <2>1
<1>11. DirsIn(sk, r, as) = {Clean(Dir(From(r, rel))) : rel \in {f \in C : GoFileBy(sk, r, f)}}
  BY DEF DirsIn, C
<1> QED
  BY <1>10, <1>11

\* The walk has passed one file or directory more.
LEMMA WalkedOn ==
  ASSUME NEW sk, NEW gs, NEW n, NEW r, NEW as, NEW ds, NEW cs,
         IsRoot(r), IsWalk(sk, r, as), Walked(sk, gs, n, r, as, ds), as # <<>>,
         as[1] \in ReachedBy(sk, r), NextBelow(sk, r, as[1], cs), Real(r) \o as[1] \notin Broken
  PROVE  /\ GoFileBy(sk, r, as[1]) =>
              Walked(sk, gs, n, r, cs \o Tail(as), ds \cup {Clean(Dir(From(r, as[1])))})
         /\ ~GoFileBy(sk, r, as[1]) => Walked(sk, gs, n, r, cs \o Tail(as), ds)
<1> DEFINE new == cs \o Tail(as)
           a == as[1]
<1>1. Come(sk, r, new) = Come(sk, r, as) \cup {a}
  BY WalkOn
<1>2. /\ \A rel \in Come(sk, r, as) : Real(r) \o rel \notin Broken
      /\ ds = DirsOf(sk, gs, n - 1) \cup DirsIn(sk, r, as)
  BY DEF Walked
<1> HIDE DEF new, a
<1>3. \A rel \in Come(sk, r, new) : Real(r) \o rel \notin Broken
  BY <1>1, <1>2 DEF a
<1>4. GoFileBy(sk, r, a) => DirsIn(sk, r, new) = DirsIn(sk, r, as) \cup {Clean(Dir(From(r, a)))}
  BY <1>1 DEF DirsIn
<1>5. ~GoFileBy(sk, r, a) => DirsIn(sk, r, new) = DirsIn(sk, r, as)
  BY <1>1 DEF DirsIn
<1> QED
  BY <1>2, <1>3, <1>4, <1>5 DEF Walked, a, new

\* Nothing is next below what is not a directory or is skipped.
LEMMA NoneNext ==
  ASSUME NEW sk, NEW r, NEW a, IsRoot(r), a \in ReachedBy(sk, r),
         ~Directory(Real(r) \o a) \/ SkippedBy(sk, From(r, a))
  PROVE  NextBelow(sk, r, a, <<>>)
<1>1. ASSUME NEW m \in AllNames, Append(a, m) \in ReachedBy(sk, r)
      PROVE  FALSE
  <2>1. a \in Seq(AllNames)
    BY BelowIs DEF ReachedBy, AnyPath
  <2> DEFINE l == Len(a)
             n == Len(Append(a, m))
  <2>2. n = l + 1 /\ l \in Nat /\ SubSeq(Append(a, m), 1, l) = a
    <3>1. Len(a) \in 0 .. Len(a)
      BY <2>1
    <3> QED
      BY <2>1, <3>1, FirstNames
  <2> HIDE DEF l, n
  <2>3. l \in 0 .. n - 1
    BY <2>2
  <2>4. Directory(Real(r) \o SubSeq(Append(a, m), 1, l)) /\ ~SkippedBy(sk, From(r, SubSeq(Append(a, m), 1, l)))
    BY <1>1, <2>3, ReachedAbove DEF n
  <2> QED
    BY <2>2, <2>4
<1>2. <<>> \in Seq(ReachedBy(sk, r)) /\ InOrder(<<>>) /\ Len(<<>>) = 0
  BY DEF InOrder
<1> QED
  BY <1>1, <1>2 DEF NextBelow

\* Names in order are in order below the same.
LEMMA NamesInOrder ==
  ASSUME NEW a, NEW m, NEW n, a \in AnyPath, m \in AllNames, n \in AllNames, Precedes(<<m>>, <<n>>)
  PROVE  Precedes(Append(a, m), Append(a, n))
<1>1. <<m>> \in AnyPath /\ <<n>> \in AnyPath /\ Len(<<m>>) = 1 /\ Len(<<n>>) = 1 /\ <<m>>[1] = m /\ <<n>>[1] = n
  BY DEF AnyPath
<1>2. PICK k \in Nat : Less(<<m>>, <<n>>, k)
  BY <1>1, OrderIs
<1>3. k = 1
  BY <1>1, <1>2 DEF Less, Parts
<1>4. m # n /\ Rank[m] < Rank[n]
  BY <1>1, <1>2, <1>3 DEF Less, Parts
<1> DEFINE p == Append(a, m)
           q == Append(a, n)
           l == Len(a) + 1
<1>5. /\ l \in Nat \ {0} /\ p \in AnyPath /\ q \in AnyPath /\ Len(p) = l /\ Len(q) = l /\ p[l] = m /\ q[l] = n
      /\ \A i \in 1 .. l - 1 : p[i] = q[i]
  BY DEF AnyPath
<1> HIDE DEF p, q, l
<1>6. Less(p, q, l)
  <2>1. l - 1 <= l
    BY <1>5
  <2> QED
    BY <1>4, <1>5, <2>1 DEF Less, Parts, Agree
<1> QED
  BY <1>5, <1>6, OrderIs DEF p, q


\* There are finitely many names.
LEMMA NamesFinite ==
  ASSUME NEW M, M \subseteq AllNames
  PROVE  IsFiniteSet({<<m>> : m \in M}) /\ {<<m>> : m \in M} \subseteq AnyPath
<1> DEFINE S == {<<m>> : m \in M}
           f == [x \in S |-> Rank[x[1]]]
           n == Len(Names)
<1>1. Names \in Seq(AllNames) /\ n \in Nat
  BY PathsAssumption
<1>2. \A m \in AllNames : Rank[m] \in 1 .. n
  <2>1. DOMAIN Names = 1 .. n /\ \A m \in AllNames : \E k \in 1 .. n : Names[k] = m
    BY <1>1 DEF AllNames, Range
  <2> HIDE DEF n
  <2> QED
    BY <2>1 DEF Rank
<1>3. \A m \in AllNames : <<m>>[1] = m
  OBVIOUS
<1> HIDE DEF n
<1>4. f \in [S -> 1 .. n]
  BY <1>2, <1>3
<1>5. \A x, y \in S : f[x] = f[y] => x = y
  <2>1. ASSUME NEW j \in M, NEW k \in M, f[<<j>>] = f[<<k>>]
        PROVE  <<j>> = <<k>>
    <3>1. Rank[j] = Rank[k]
      BY <1>3, <2>1
    <3> QED
      BY <3>1, Ranks
  <2> HIDE DEF f
  <2> QED
    BY <2>1
<1>6. f \in Injection(S, 1 .. n)
  <2> HIDE DEF f, S
  <2> QED
    BY <1>4, <1>5 DEF Injection, IsInjective
<1>7. IsFiniteSet(1 .. n)
  BY <1>1, FS_Interval DEF n
<1>8. IsFiniteSet(S)
  <2> HIDE DEF f, S
  <2> QED
    BY <1>6, <1>7, FS_Injection
<1>9. S \subseteq AnyPath
  <2>1. \A m \in AllNames : <<m>> \in AnyPath
    BY DEF AnyPath
  <2> QED
    BY <2>1
<1> QED
  BY <1>8, <1>9

\* as are the names of ps from the root.
Aligned(r, ps, as) ==
  /\ ps \in Seq(AnyPath) /\ as \in Seq(Within(r)) /\ Len(as) = Len(ps)
  /\ \A k \in 1 .. Len(ps) : ps[k] = From(r, as[k])
Entries(p) == [k \in DOMAIN Listed(p) |-> Clean(p \o Listed(p)[k])]

\* What a directory holds is what is next below it, in order.
LEMMA ListedNext ==
  ASSUME NEW sk, NEW r, NEW a, IsRoot(r), a \in ReachedBy(sk, r), Directory(Real(r) \o a),
         ~SkippedBy(sk, From(r, a))
  PROVE  \E cs : NextBelow(sk, r, a, cs) /\ Aligned(r, Entries(From(r, a)), cs)
<1> DEFINE p == From(r, a)
           M == {m \in AllNames : Append(Real(p), m) \in Tree}
           S == {<<m>> : m \in M}
           L == Listed(p)
           R == ReachedBy(sk, r)
<1>1. a \in Within(r) /\ a \in Rel /\ a \in AnyPath /\ Real(r) \o a \in AnyPath /\ Real(r) \in AnyPath
  <2>1. a \in Within(r)
    BY DEF ReachedBy, Within
  <2> QED
    BY <2>1, WithinTypes, BelowIs
<1>2. Real(p) = Real(r) \o a
  BY <1>1, RealFrom
<1>3. L = Sorted(S)
  BY DEF Listed
<1> HIDE DEF L
<1>4. L \in Seq(S) /\ Range(L) = S /\ InOrder(L)
  <2>1. M \subseteq AllNames
    OBVIOUS
  <2>2. IsFiniteSet(S) /\ S \subseteq AnyPath
    <3> HIDE DEF M
    <3> QED
      BY <2>1, NamesFinite
  <2> HIDE DEF S
  <2> QED
    BY <1>3, <2>2, SortedIs
<1>5. ASSUME NEW m \in AllNames
      PROVE  m \in M <=> Append(a, m) \in R
  <2>1. a \in Seq(AllNames) /\ Real(r) \in Seq(AllNames) /\ Append(a, m) \in AnyPath
    BY <1>1 DEF AnyPath
  <2>2. Real(r) \o Append(a, m) = Append(Real(p), m)
    BY <1>2, <2>1, AppendConcat
  <2>3. m \in M <=> Append(a, m) \in Below(r)
    BY <2>1, <2>2, BelowIs
  <2>4. Append(a, m) \in R => Append(a, m) \in Below(r)
    BY DEF ReachedBy
  <2> QED
    BY <2>3, <2>4, ReachedNext
<1> HIDE DEF M, R, p
<1>6. M \subseteq AllNames
  BY DEF M
<1> DEFINE N(k) == L[k][1]
           n == Len(L)
           cs == [k \in 1 .. n |-> Append(a, N(k))]
<1>7. \A k \in 1 .. n : N(k) \in M /\ L[k] = <<N(k)>>
  <2>1. \A k \in 1 .. n : L[k] \in S
    BY <1>4, ElementOfSeq
  <2> QED
    BY <2>1
<1>8. \A m \in M : \E k \in 1 .. n : N(k) = m
  <2>1. ASSUME NEW m \in M
        PROVE  \E k \in 1 .. n : N(k) = m
    <3>1. <<m>> \in Range(L)
      BY <1>4
    <3>2. PICK k \in 1 .. n : L[k] = <<m>>
      BY <1>4, <3>1, InRange
    <3> QED
      BY <3>2
  <2> QED
    BY <2>1
<1>9. n \in Nat /\ DOMAIN L = 1 .. n
  BY <1>4
<1>10. \A j, k \in 1 .. n : j < k => Precedes(<<N(j)>>, <<N(k)>>)
  BY <1>4, <1>7 DEF InOrder
<1> HIDE DEF S, N, n
<1>11. \A k \in 1 .. n : N(k) \in AllNames /\ Append(a, N(k)) \in R
  BY <1>5, <1>6, <1>7
<1>12. cs \in Seq(R) /\ Len(cs) = n /\ \A k \in 1 .. n : cs[k] = Append(a, N(k))
  <2>1. \A k \in 1 .. n : cs[k] = Append(a, N(k))
    OBVIOUS
  <2>2. cs \in [1 .. n -> R]
    BY <1>11
  <2> HIDE DEF cs
  <2> QED
    BY <1>9, <2>1, <2>2
<1> HIDE DEF cs
<1>13. InOrder(cs)
  <2>1. ASSUME NEW j \in 1 .. n, NEW k \in 1 .. n, j < k
        PROVE  Precedes(cs[j], cs[k])
    <3>1. Precedes(Append(a, N(j)), Append(a, N(k)))
      BY <1>1, <1>10, <1>11, <2>1, NamesInOrder
    <3> QED
      BY <1>12, <3>1
  <2> QED
    BY <1>12, <2>1 DEF InOrder
<1>14. \A k \in 1 .. Len(cs) : \E m \in AllNames : cs[k] = Append(a, m)
  BY <1>11, <1>12
<1>15. \A m \in AllNames : Append(a, m) \in R => Append(a, m) \in Range(cs)
  <2>1. ASSUME NEW m \in AllNames, Append(a, m) \in R
        PROVE  Append(a, m) \in Range(cs)
    <3>1. PICK k \in 1 .. n : N(k) = m
      BY <1>5, <1>8, <2>1
    <3>2. cs[k] = Append(a, m) /\ k \in 1 .. Len(cs)
      BY <1>12, <3>1
    <3> QED
      BY <1>12, <3>2, InRange
  <2> QED
    BY <2>1
<1>16. NextBelow(sk, r, a, cs)
  BY <1>12, <1>13, <1>14, <1>15 DEF NextBelow, R
<1>17. ASSUME NEW k \in 1 .. n
       PROVE  Clean(p \o L[k]) = From(r, cs[k])
  <2>1. N(k) \in PlainNames
    <3>1. Append(a, N(k)) \in Below(r) /\ N(k) \in AllNames
      BY <1>11 DEF R, ReachedBy
    <3> QED
      BY <1>1, <3>1, WithinAppend
  <2>2. Clean(p \o <<N(k)>>) = From(r, Append(a, N(k)))
    BY <1>1, <2>1, FromAppend DEF p
  <2> QED
    BY <1>7, <1>12, <2>2
<1> DEFINE qs == Entries(p)
<1>18. qs = [k \in 1 .. n |-> Clean(p \o L[k])]
  BY <1>9 DEF Entries, L
<1> HIDE DEF qs
<1>19. /\ cs \in Seq(Within(r))
       /\ \A k \in 1 .. n : cs[k] \in Within(r) /\ From(r, cs[k]) \in AnyPath /\ qs[k] = From(r, cs[k])
  <2>1. R \subseteq Within(r)
    BY DEF R, ReachedBy, Within
  <2>2. cs \in Seq(Within(r)) /\ \A k \in 1 .. n : cs[k] \in Within(r)
    BY <1>11, <1>12, <2>1
  <2>3. \A k \in 1 .. n : qs[k] = From(r, cs[k])
    BY <1>17, <1>18
  <2> QED
    BY <2>2, <2>3, WithinTypes, FromIs
<1>20. qs \in Seq(AnyPath) /\ Len(qs) = n
  <2>1. qs \in [1 .. n -> AnyPath]
    BY <1>18, <1>19
  <2> QED
    BY <1>9, <2>1
<1>21. Aligned(r, qs, cs)
  BY <1>12, <1>19, <1>20 DEF Aligned
<1> QED
  BY <1>16, <1>21 DEF qs, p


-----------------------------------------------------------------------------
(***************************************************************************)
(* The steps of a walk.                                                    *)
(***************************************************************************)
\* ps is the frontier of a walk that has found ds.
Stands(sk, gs, n, r, ps, ds, as) ==
  Aligned(r, ps, as) /\ IsWalk(sk, r, as) /\ Walked(sk, gs, n, r, as, ds)
WalkOf(sk, gs, n, r, ps, ds) == \E as : Stands(sk, gs, n, r, ps, ds, as)
Now == Len(given) - Len(todo)

\* Paths for the names that are put in place of the first.
LEMMA InPlace ==
  ASSUME NEW r, NEW ps, NEW as, NEW qs, NEW cs, Aligned(r, ps, as), ps # <<>>, Aligned(r, qs, cs)
  PROVE  Aligned(r, qs \o Tail(ps), cs \o Tail(as))
<1> DEFINE W == Within(r)
           n == Len(cs)
           l == Len(as)
           s == Tail(ps)
           t == Tail(as)
<1>1. /\ ps \in Seq(AnyPath) /\ as \in Seq(W) /\ Len(ps) = l
      /\ \A k \in 1 .. l : ps[k] = From(r, as[k])
      /\ qs \in Seq(AnyPath) /\ cs \in Seq(W) /\ Len(qs) = n
      /\ \A k \in 1 .. n : qs[k] = From(r, cs[k])
  BY DEF Aligned
<1> HIDE DEF W, n, l, s, t
<1>2. n \in Nat /\ l \in Nat \ {0} /\ as # <<>>
  <2>1. l \in Nat \ {0}
    BY <1>1, FrontIs
  <2>2. Len(as) # 0 /\ Len(<<>>) = 0
    BY <2>1 DEF l
  <2>3. n \in Nat
    BY <1>1
  <2> QED
    BY <2>1, <2>2, <2>3
<1>3. t \in Seq(W) /\ Len(t) = l - 1 /\ \A k \in 1 .. l - 1 : t[k] = as[k + 1]
  BY <1>1, <1>2, HeadTailProperties DEF t, l
<1>4. s \in Seq(AnyPath) /\ Len(s) = l - 1 /\ \A k \in 1 .. l - 1 : s[k] = ps[k + 1]
  BY <1>1, <1>2, HeadTailProperties DEF s
<1>5. \A k \in 1 .. l - 1 : s[k] = From(r, t[k])
  <2>1. \A k \in 1 .. l - 1 : k + 1 \in 1 .. l
    BY <1>2
  <2> QED
    BY <1>1, <1>3, <1>4, <2>1
<1>6. /\ cs \o t \in Seq(W) /\ Len(cs \o t) = Len(cs) + Len(t)
      /\ \A k \in 1 .. Len(cs) + Len(t) : (cs \o t)[k] = IF k <= Len(cs) THEN cs[k] ELSE t[k - Len(cs)]
  BY <1>1, <1>3, ConcatProperties
<1>7. /\ qs \o s \in Seq(AnyPath) /\ Len(qs \o s) = Len(qs) + Len(s)
      /\ \A k \in 1 .. Len(qs) + Len(s) : (qs \o s)[k] = IF k <= Len(qs) THEN qs[k] ELSE s[k - Len(qs)]
  BY <1>1, <1>4, ConcatProperties
<1>8. Len(cs) = n /\ Len(qs) = n /\ Len(s) = l - 1 /\ Len(t) = l - 1
  BY <1>1, <1>3, <1>4 DEF n
<1>9. ASSUME NEW k \in 1 .. n + (l - 1)
      PROVE  (qs \o s)[k] = From(r, (cs \o t)[k])
  <2>1. /\ (cs \o t)[k] = IF k <= n THEN cs[k] ELSE t[k - n]
        /\ (qs \o s)[k] = IF k <= n THEN qs[k] ELSE s[k - n]
    BY <1>6, <1>7, <1>8
  <2>2. CASE k <= n
    <3>1. k \in 1 .. n
      BY <1>2, <2>2
    <3> QED
      BY <1>1, <2>1, <2>2, <3>1
  <2>3. CASE ~(k <= n)
    <3>1. k - n \in 1 .. l - 1
      BY <1>2, <2>3
    <3> QED
      BY <1>5, <2>1, <2>3, <3>1
  <2> QED
    BY <2>2, <2>3
<1>10. \A k \in 1 .. Len(qs \o s) : (qs \o s)[k] = From(r, (cs \o t)[k])
  BY <1>7, <1>8, <1>9
<1>11. Len(cs \o t) = Len(qs \o s)
  BY <1>6, <1>7, <1>8
<1> QED
  BY <1>6, <1>7, <1>10, <1>11 DEF Aligned, W, s, t

\* What is visited is the first of the frontier.
LEMMA Visited ==
  ASSUME IsRoot(root), WalkOf(skip, given, Now, root, pending, dirs), pending # <<>>
  PROVE  \E as : /\ Stands(skip, given, Now, root, pending, dirs, as) /\ as # <<>>
                 /\ as[1] \in Within(root) /\ Head(pending) = From(root, as[1])
                 /\ Place(Head(pending)) = Real(root) \o as[1]
                 /\ Real(root) \o as[1] \in Tree => as[1] \in ReachedBy(skip, root)
                 /\ as[1] \in ReachedBy(skip, root) \/ Real(root) \notin Tree
<1>1. PICK as : Stands(skip, given, Now, root, pending, dirs, as)
  BY DEF WalkOf
<1>2. as \in Seq(Within(root)) /\ Len(as) = Len(pending) /\ pending \in Seq(AnyPath)
  BY <1>1 DEF Stands, Aligned
<1>3. Len(pending) \in Nat \ {0}
  BY <1>2, FrontIs
<1>4. as # <<>> /\ 1 \in 1 .. Len(pending)
  <2>1. Len(as) # 0 /\ Len(<<>>) = 0
    BY <1>2, <1>3
  <2>2. as # <<>>
    BY <2>1, Zenon
  <2> DEFINE n == Len(pending)
  <2>3. n \in Nat \ {0}
    BY <1>3
  <2> HIDE DEF n
  <2>4. 1 \in 1 .. n
    BY <2>3
  <2> QED
    BY <2>2, <2>4 DEF n
<1>5. as[1] \in Within(root) /\ Head(pending) = From(root, as[1])
  <2>1. as[1] \in Within(root)
    BY <1>2, <1>4, ElementOfSeq
  <2>2. Head(pending) = pending[1]
    BY <1>2, <1>4
  <2> QED
    BY <1>1, <1>4, <2>1, <2>2 DEF Stands, Aligned
<1>6. Place(Head(pending)) = Real(root) \o as[1]
  BY <1>5, PlaceIs
<1>7. as[1] \in ReachedBy(skip, root) \/ (Real(root) \notin Tree /\ as[1] = <<>>)
  <2>1. IsWalk(skip, root, as)
    BY <1>1 DEF Stands
  <2>2. as = <<<<>>>> => as[1] = <<>>
    OBVIOUS
  <2> QED
    BY <1>2, <1>4, <2>1, <2>2 DEF IsWalk
<1>8. Real(root) \o <<>> = Real(root)
  BY BelowIs DEF AnyPath
<1> QED
  BY <1>1, <1>4, <1>5, <1>6, <1>7, <1>8

\* SkipPath, for any value of --skip.
LEMMA SameSkip == \A p : SkipPath(p) <=> SkippedBy(skip, p)
  BY DEF SkipPath, SkippedBy

\* A directory.
LEMMA StepDir ==
  ASSUME IsRoot(root), WalkOf(skip, given, Now, root, pending, dirs), pending # <<>>,
         VisitDir(Head(pending))
  PROVE  WalkOf(skip, given, Now, root, pending', dirs)
<1> DEFINE p == Head(pending)
<1>1. PICK as : /\ Stands(skip, given, Now, root, pending, dirs, as) /\ as # <<>>
                /\ as[1] \in Within(root) /\ p = From(root, as[1])
                /\ Place(p) = Real(root) \o as[1]
                /\ Real(root) \o as[1] \in Tree => as[1] \in ReachedBy(skip, root)
  BY Visited
<1> HIDE DEF p
<1> DEFINE a == as[1]
           qs == IF SkipPath(p) THEN <<>> ELSE Entries(p)
<1>2. Directory(Real(root) \o a) /\ Real(root) \o a \notin Broken /\ pending' = qs \o Tail(pending)
  BY <1>1 DEF VisitDir, IsDir, Unreadable, Entries, p
<1>3. a \in ReachedBy(skip, root) /\ ~GoFileBy(skip, root, a)
  BY <1>1, <1>2 DEF Directory, Tree, GoFileBy
<1> HIDE DEF a, qs
<1>4. \E cs : NextBelow(skip, root, a, cs) /\ Aligned(root, qs, cs)
  <2>1. CASE SkipPath(p)
    <3>1. NextBelow(skip, root, a, <<>>)
      BY <1>1, <1>3, <2>1, SameSkip, NoneNext DEF a
    <3>2. qs = <<>>
      BY <2>1 DEF qs
    <3>3. Aligned(root, <<>>, <<>>)
      BY DEF Aligned
    <3> QED
      BY <3>1, <3>2, <3>3
  <2>2. CASE ~SkipPath(p)
    <3>1. p = From(root, a) /\ ~SkippedBy(skip, From(root, a))
      BY <1>1, <2>2, SameSkip DEF a
    <3>2. \E cs : NextBelow(skip, root, a, cs) /\ Aligned(root, Entries(From(root, a)), cs)
      BY <1>2, <1>3, <3>1, ListedNext
    <3>3. qs = Entries(From(root, a))
      BY <2>2, <3>1 DEF qs
    <3> QED
      BY <3>2, <3>3
  <2> QED
    BY <2>1, <2>2
<1>5. PICK cs : NextBelow(skip, root, a, cs) /\ Aligned(root, qs, cs)
  BY <1>4
<1>6. IsWalk(skip, root, as) /\ Walked(skip, given, Now, root, as, dirs) /\ Aligned(root, pending, as)
  BY <1>1 DEF Stands
<1>7. IsWalk(skip, root, cs \o Tail(as)) /\ Walked(skip, given, Now, root, cs \o Tail(as), dirs)
  BY <1>1, <1>2, <1>3, <1>5, <1>6, WalkOn, WalkedOn DEF a
<1>8. Aligned(root, qs \o Tail(pending), cs \o Tail(as))
  BY <1>5, <1>6, InPlace
<1>9. Stands(skip, given, Now, root, pending', dirs, cs \o Tail(as))
  BY <1>2, <1>7, <1>8 DEF Stands
<1> QED
  BY <1>9 DEF WalkOf

\* A file.
LEMMA StepFile ==
  ASSUME IsRoot(root), WalkOf(skip, given, Now, root, pending, dirs), pending # <<>>,
         VisitFile(Head(pending))
  PROVE  WalkOf(skip, given, Now, root, pending', dirs')
<1> DEFINE p == Head(pending)
<1>1. PICK as : /\ Stands(skip, given, Now, root, pending, dirs, as) /\ as # <<>>
                /\ as[1] \in Within(root) /\ p = From(root, as[1])
                /\ Place(p) = Real(root) \o as[1]
                /\ Real(root) \o as[1] \in Tree => as[1] \in ReachedBy(skip, root)
  BY Visited
<1> HIDE DEF p
<1> DEFINE a == as[1]
<1>2. /\ ~Directory(Real(root) \o a) /\ Real(root) \o a \notin Broken /\ Real(root) \o a \in Tree
      /\ pending' = Tail(pending)
      /\ dirs' = IF ~SkipPath(p) /\ Last(p) \in GoNames THEN dirs \cup {Clean(Dir(p))} ELSE dirs
  BY <1>1 DEF VisitFile, IsDir, Unreadable, p
<1>3. a \in ReachedBy(skip, root) /\ (GoFileBy(skip, root, a) <=> ~SkipPath(p) /\ Last(p) \in GoNames)
  BY <1>1, <1>2, SameSkip DEF GoFileBy
<1>4. NextBelow(skip, root, a, <<>>)
  BY <1>2, <1>3, NoneNext
<1>5. IsWalk(skip, root, as) /\ Walked(skip, given, Now, root, as, dirs) /\ Aligned(root, pending, as)
  BY <1>1 DEF Stands
<1>6. IsWalk(skip, root, <<>> \o Tail(as)) /\ Walked(skip, given, Now, root, <<>> \o Tail(as), dirs')
  <2>1. IsWalk(skip, root, <<>> \o Tail(as))
    BY <1>1, <1>3, <1>4, <1>5, WalkOn
  <2>2. /\ GoFileBy(skip, root, a) =>
             Walked(skip, given, Now, root, <<>> \o Tail(as), dirs \cup {Clean(Dir(From(root, a)))})
        /\ ~GoFileBy(skip, root, a) => Walked(skip, given, Now, root, <<>> \o Tail(as), dirs)
    BY <1>1, <1>2, <1>3, <1>4, <1>5, WalkedOn
  <2> QED
    BY <1>1, <1>2, <1>3, <2>1, <2>2
<1>7. Aligned(root, <<>> \o Tail(pending), <<>> \o Tail(as))
  <2>1. Aligned(root, <<>>, <<>>)
    BY DEF Aligned
  <2> QED
    BY <1>5, <2>1, InPlace
<1>8. <<>> \o Tail(pending) = Tail(pending)
  <2>1. pending \in Seq(AnyPath) /\ pending # <<>>
    BY <1>5 DEF Aligned
  <2>2. Tail(pending) \in Seq(AnyPath)
    BY <2>1, HeadTailProperties
  <2> QED
    BY <2>2
<1>9. Stands(skip, given, Now, root, pending', dirs', <<>> \o Tail(as))
  BY <1>2, <1>6, <1>7, <1>8 DEF Stands
<1> QED
  BY <1>9 DEF WalkOf

\* What cannot be read ends it.
LEMMA StepUnreadable ==
  ASSUME IsRoot(root), WalkOf(skip, given, Now, root, pending, dirs), pending # <<>>,
         VisitUnreadable(Head(pending)),
         Now \in Nat \ {0}, given[Now].all, root = Clean(given[Now].path)
  PROVE  WalkOf(skip, given, Now, root, pending', dirs)
<1> DEFINE p == Head(pending)
           gs == given
           n == Now
<1>1. PICK as : /\ Stands(skip, given, n, root, pending, dirs, as) /\ as # <<>>
                /\ as[1] \in Within(root) /\ p = From(root, as[1])
                /\ Place(p) = Real(root) \o as[1]
                /\ Real(root) \o as[1] \in Tree => as[1] \in ReachedBy(skip, root)
                /\ as[1] \in ReachedBy(skip, root) \/ Real(root) \notin Tree
  BY Visited
<1> HIDE DEF p
<1>2. Real(root) \o as[1] \notin Tree \/ Real(root) \o as[1] \in Broken
  BY <1>1 DEF VisitUnreadable, Unreadable, p
<1>3. pending' = <<>>
  BY DEF VisitUnreadable, AfterError
<1>4. IsWalk(skip, root, as) /\ Walked(skip, given, n, root, as, dirs)
  BY <1>1 DEF Stands
<1>5. as[1] \in ReachedBy(skip, root) => Real(root) \o as[1] \in Tree
  BY BelowIs DEF ReachedBy
<1>6. /\ \A rel \in Come(skip, root, as) : Real(root) \o rel \notin Broken
      /\ dirs = DirsOf(skip, given, n - 1) \cup DirsIn(skip, root, as)
  BY <1>1, <1>4 DEF Walked
<1>7. {Clean(Dir(f)) : f \in FoundBy(skip, root)} = DirsIn(skip, root, as)
  BY <1>1, <1>2, <1>4, <1>5, <1>6, WalkFound
<1>8. dirs = DirsOf(skip, given, n)
  <2>1. DirsOfArg(skip, given[n]) = DirsIn(skip, root, as)
    BY <1>7 DEF DirsOfArg
  <2>2. DirsOf(skip, given, n) = DirsOf(skip, given, n - 1) \cup DirsOfArg(skip, given[n])
    BY DirsOneMore, Zenon
  <2> QED
    BY <1>6, <2>1, <2>2
<1>9. IsWalk(skip, root, <<>>) /\ Aligned(root, <<>>, <<>>)
  <2>1. Come(skip, root, <<>>) = ReachedBy(skip, root)
    BY DEF Come
  <2> QED
    BY <2>1 DEF IsWalk, Aligned
<1>10. Stands(skip, given, n, root, <<>>, dirs, <<>>)
  BY <1>8, <1>9 DEF Stands, Walked
<1> QED
  BY <1>3, <1>10 DEF WalkOf

\* A walk that is at its end has found what it finds.
LEMMA WalkIsOver ==
  ASSUME NEW sk, NEW gs, NEW n, NEW r, NEW ds, IsRoot(r), WalkOf(sk, gs, n, r, <<>>, ds),
         n \in Nat \ {0}, gs[n].all, r = Clean(gs[n].path)
  PROVE  ds = DirsOf(sk, gs, n)
<1>1. PICK as : Stands(sk, gs, n, r, <<>>, ds, as)
  BY DEF WalkOf
<1>2. as = <<>> /\ IsWalk(sk, r, as) /\ Walked(sk, gs, n, r, as, ds)
  BY <1>1 DEF Stands, Aligned
<1>3. CASE ds = DirsOf(sk, gs, n - 1) \cup DirsIn(sk, r, as)
           /\ \A rel \in Come(sk, r, as) : Real(r) \o rel \notin Broken
  <2>1. {Clean(Dir(f)) : f \in FoundBy(sk, r)} = DirsIn(sk, r, as)
    BY <1>2, <1>3, WalkFound
  <2>2. DirsOfArg(sk, gs[n]) = DirsIn(sk, r, as)
    BY <2>1 DEF DirsOfArg
  <2>3. DirsOf(sk, gs, n) = DirsOf(sk, gs, n - 1) \cup DirsOfArg(sk, gs[n])
    BY DirsOneMore, Zenon
  <2> QED
    BY <1>3, <2>2, <2>3
<1> QED
  BY <1>2, <1>3 DEF Walked

\* A walk begins at its root.
LEMMA WalkBegins ==
  ASSUME NEW sk, NEW gs, NEW n, NEW r, NEW ds, IsRoot(r), n \in Nat \ {0}, ds = DirsOf(sk, gs, n - 1)
  PROVE  WalkOf(sk, gs, n, r, <<r>>, ds)
<1> DEFINE as == <<<<>>>>
<1>1. <<>> \in Within(r) /\ as \in Seq(Within(r)) /\ Len(as) = 1 /\ as[1] = <<>>
  BY DEF Within
<1>2. ReachedBy(sk, r) \subseteq AnyPath /\ (Real(r) \in Tree => <<>> \in ReachedBy(sk, r))
  <2>1. <<>> \in AnyPath /\ Len(<<>>) = 0 /\ Real(r) \o <<>> = Real(r)
    BY BelowIs DEF AnyPath
  <2>2. Real(r) \in Tree => <<>> \in Below(r)
    BY <2>1, BelowIs
  <2> QED
    BY <2>1, <2>2, BelowIs DEF ReachedBy
<1>3. \A rel \in AnyPath : IsPrefix(<<>>, rel) /\ ~Precedes(rel, <<>>)
  <2>1. SUFFICES ASSUME NEW rel \in AnyPath
                 PROVE  IsPrefix(<<>>, rel) /\ ~Precedes(rel, <<>>)
    OBVIOUS
  <2> DEFINE l == Len(rel)
  <2>2. l \in Nat /\ Len(<<>>) = 0 /\ DOMAIN <<>> = {} /\ SubSeq(rel, 1, 0) = <<>>
    BY DEF AnyPath
  <2> HIDE DEF l
  <2>3. ~(l < 0) /\ 0 <= l
    BY <2>2
  <2> QED
    BY <2>2, <2>3 DEF Precedes, IsPrefix, l
<1>4. Come(sk, r, as) = {}
  <2>1. 1 \in 1 .. Len(as)
    BY <1>1
  <2> QED
    BY <1>1, <1>2, <1>3, <2>1 DEF Come
<1>5. IsWalk(sk, r, as)
  <2>1. (\A k \in 1 .. Len(as) : as[k] \in ReachedBy(sk, r)) \/ (Real(r) \notin Tree /\ as = <<<<>>>>)
    BY <1>1, <1>2
  <2>2. \A j, k \in 1 .. Len(as) : ~(j < k)
    BY <1>1
  <2>3. \A rel \in ReachedBy(sk, r) : \E k \in 1 .. Len(as) : IsPrefix(as[k], rel)
    BY <1>1, <1>2, <1>3
  <2> QED
    BY <1>1, <2>1, <2>2, <2>3 DEF IsWalk
<1>6. Walked(sk, gs, n, r, as, ds)
  <2>1. DirsIn(sk, r, as) = {}
    BY <1>4 DEF DirsIn
  <2> QED
    BY <1>4, <2>1 DEF Walked
<1>7. Aligned(r, <<r>>, as)
  <2>0. <<>> \in Rel
    BY DEF Rel
  <2>1. From(r, <<>>) = r
    BY <2>0, FromIs
  <2>2. <<r>> \in Seq(AnyPath) /\ Len(<<r>>) = 1 /\ <<r>>[1] = r
    BY DEF IsRoot
  <2> QED
    BY <1>1, <2>1, <2>2 DEF Aligned
<1>8. Stands(sk, gs, n, r, <<r>>, ds, as)
  BY <1>5, <1>6, <1>7 DEF Stands
<1> QED
  BY <1>8 DEF WalkOf

(***************************************************************************)
(* Files and their directories.                                            *)
(***************************************************************************)
\* The dot that a relative path gets in front changes nothing.
LEMMA RelativeIs ==
  ASSUME NEW g, NEW m, IsRoot(g), m \in PlainNames
  PROVE  LET d == RelativePackagePath(g)
         IN  Real(d) = Real(g) /\ Clean(Append(d, m)) = From(g, <<m>>)
<1> DEFINE d == RelativePackagePath(g)
           dot == <<".">>
<1>1. /\ g \in Seq(AllNames) /\ g # <<>> /\ <<m>> \in Seq(AllNames) /\ dot \in Seq(AllNames)
      /\ Cwd \in Seq(AllNames) /\ "." \in AllNames /\ m \in AllNames
  BY PathsAssumption DEF IsRoot, AnyPath, PlainNames
<1>2. CASE d = g
  <2>1. Append(g, m) = g \o <<m>>
    BY <1>1
  <2> QED
    BY <1>2, <2>1 DEF From
<1>3. CASE ~IsAbs(g) /\ d = dot \o g
  <2>1. g \o <<m>> \in AnyPath /\ g \in AnyPath /\ Append(d, m) = dot \o (g \o <<m>>) /\ g \o <<m>> = <<>> \o (g \o <<m>>)
    BY <1>1, <1>3 DEF AnyPath
  <2>2. Cleaned(dot) = <<>> /\ Cleaned(<<>>) = <<>> /\ dot \in AnyPath /\ <<>> \in AnyPath
    <3>1. dot = Append(<<>>, ".") /\ <<>> \in AnyPath /\ dot \in AnyPath
      BY <1>1 DEF AnyPath
    <3>2. Cleaned(dot) = CleanStep(<<>>, ".") /\ Cleaned(<<>>) = <<>>
      BY <1>1, <3>1, OneName
    <3> QED
      BY <3>1, <3>2 DEF CleanStep
  <2>3. Cleaned(dot \o (g \o <<m>>)) = Cleaned(<<>> \o (g \o <<m>>))
    <3> HIDE DEF dot
    <3>1. dot \in AnyPath /\ <<>> \in AnyPath /\ Cleaned(dot) = Cleaned(<<>>) /\ g \o <<m>> \in AnyPath
      BY <2>1, <2>2
    <3> QED
      BY <3>1, CleanAlike, Zenon
  <2>4. Clean(Append(d, m)) = From(g, <<m>>)
    BY <2>1, <2>3 DEF Clean, Cleaned, From
  <2>5. Cwd \o d = Append(Cwd, ".") \o g /\ Append(Cwd, ".") \in AnyPath /\ Cwd \in AnyPath
    BY <1>1, <1>3 DEF AnyPath
  <2>6. Cleaned(Append(Cwd, ".")) = Cleaned(Cwd)
    BY <1>1, <2>5, OneName DEF CleanStep
  <2>7. Cleaned(Cwd \o d) = Cleaned(Cwd \o g)
    BY <2>1, <2>5, <2>6, CleanAlike
  <2>8. d[1] = "."
    BY <1>1, <1>3
  <2>9. Abs(d) = Abs(g)
    BY <1>3, <2>7, <2>8 DEF Abs, IsAbs, Clean, Cleaned
  <2> QED
    BY <2>4, <2>9 DEF Real
<1> QED
  BY <1>2, <1>3 DEF RelativePackagePath

\* A Go file is in the directory that the walk names for it.
LEMMA FileThere ==
  ASSUME NEW r, NEW rel, IsRoot(r), rel \in Below(r), ~Directory(Real(r) \o rel),
         Last(From(r, rel)) \in GoNames
  PROVE  \E g, m : /\ IsRoot(g) /\ m \in GoNames /\ m \in PlainNames /\ Clean(Dir(From(r, rel))) = g
                   /\ From(r, rel) = From(g, <<m>>) /\ Append(Real(g), m) \in Tree
<1>1. rel \in Seq(AllNames) /\ Real(r) \o rel \in Tree /\ Real(r) \in Seq(AllNames)
  BY BelowIs DEF AnyPath
<1>2. CASE rel # <<>>
  <2> DEFINE e == Front(rel)
             m == Last(rel)
             g == From(r, e)
  <2>1. e \in AnyPath /\ m \in AllNames /\ rel = Append(e, m)
    BY <1>1, <1>2, FrontIs DEF AnyPath
  <2> HIDE DEF e, m
  <2>2. e \in Below(r) /\ Directory(Real(r) \o e) /\ m \in PlainNames
        /\ Real(r) \o rel = Append(Real(r) \o e, m)
    BY <2>1, WithinAppend
  <2>3. e \in Rel /\ Real(g) = Real(r) \o e
    BY <2>2, WithinTypes, RealFrom DEF Within
  <2>4. IsRoot(g) /\ Clean(g) = g
    <3>1. r \o e \in AnyPath
      BY <2>1, ConcatProperties DEF IsRoot, AnyPath
    <3>2. IsRoot(g)
      BY <3>1, CleanRoot DEF From
    <3> QED
      BY <3>2, BareClean
  <2>5. Dir(From(r, rel)) = g /\ Last(From(r, rel)) = m
    BY <2>1, <2>2, <2>3, FromChild
  <2>6. From(r, rel) = Clean(g \o <<m>>)
    BY <2>1, <2>2, <2>3, FromAppend
  <2>7. From(r, rel) = From(g, <<m>>) /\ Append(Real(g), m) \in Tree
    BY <1>1, <2>2, <2>3, <2>6 DEF From
  <2> QED
    BY <2>2, <2>4, <2>5, <2>7
<1>3. CASE rel = <<>>
  <2> DEFINE m == Last(r)
             b == Front(r)
             g == Clean(Dir(r))
  <2>1. From(r, rel) = r /\ Real(r) \o rel = Real(r)
    <3>1. <<>> \in Rel
      BY DEF Rel
    <3> QED
      BY <1>1, <1>3, <3>1, FromIs
  <2>2. /\ r \in Seq(AllNames) /\ r # <<>> /\ Len(r) \in Nat \ {0} /\ b \in Seq(AllNames)
        /\ Len(b) = Len(r) - 1 /\ \A k \in 1 .. Len(r) - 1 : b[k] = r[k]
        /\ m \in AllNames /\ r = Append(b, m)
    <3>1. r \in Seq(AllNames) /\ r # <<>>
      BY DEF IsRoot, AnyPath
    <3> QED
      BY <3>1, FrontIs
  <2>3. m \in GoNames /\ m \in PlainNames
    BY <2>1, <2>2, PathsAssumption DEF PlainNames
  <2>4. IsClean(r)
    <3>1. r # <<".">>
      <4>1. Last(<<".">>) = "."
        BY DEF Last
      <4> QED
        BY <2>3, <4>1 DEF PlainNames
    <3> QED
      BY <3>1 DEF IsRoot
  <2>5. Dir(r) \in AnyPath /\ Cleaned(Dir(r)) = b
    <3>1. CASE Len(r) = 1
      <4>1. b = <<>> /\ Dir(r) = Append(<<>>, ".") /\ "." \in AllNames /\ <<>> \in AnyPath /\ Dir(r) \in AnyPath
        BY <2>2, <3>1, PathsAssumption DEF Dir, AnyPath
      <4>2. Cleaned(Dir(r)) = CleanStep(<<>>, ".")
        BY <4>1, OneName
      <4> QED
        BY <4>1, <4>2 DEF CleanStep
    <3>2. CASE Len(r) # 1
      <4> DEFINE n == Len(r)
      <4>1. n \in Nat \ {0} /\ Len(b) = n - 1 /\ (\A k \in 1 .. n - 1 : b[k] = r[k])
            /\ \A k \in 1 .. n : r[k] # "." /\ (r[k] = ".." => \A j \in 1 .. k - 1 : r[j] = "..")
        BY <2>2, <2>4 DEF IsClean
      <4> HIDE DEF n, b
      <4>2. \A k \in 1 .. n - 1 : k \in 1 .. n /\ \A j \in 1 .. k - 1 : j \in 1 .. n - 1
        BY <4>1
      <4>3. IsClean(b)
        BY <4>1, <4>2 DEF IsClean
      <4>4. b \in AnyPath /\ Dir(r) = b
        BY <2>2, <3>2 DEF AnyPath, Dir, b
      <4> QED
        BY <4>3, <4>4, CleanFixed
    <3> QED
      BY <3>1, <3>2
  <2>6. IsRoot(g) /\ Bare(g) = b
    BY <2>5, CleanRoot
  <2> HIDE DEF m, b, g
  <2>7. <<m>> \in Rel /\ <<m>> # <<>> /\ b \o <<m>> = r
    BY <2>2, <2>3 DEF Rel
  <2>8. From(g, <<m>>) = r
    BY <2>6, <2>7, FromIs
  <2>9. Real(r) = Follow(Real(g), m)
    <3>1. Abs(r) = Abs(g) \o <<m>> /\ Abs(g) \in AnyPath
      BY <2>6, <2>7, <2>8, AbsFrom
    <3>2. Abs(r) = Append(Abs(g), m)
      BY <2>2, <3>1 DEF AnyPath
    <3> QED
      BY <2>2, <3>1, <3>2, OneName DEF Real, Resolved
  <2>10. Append(Real(g), m) \in Tree
    <3>1. Append(Real(g), m) \notin DOMAIN Link
      BY <2>1, <2>9, PathsAssumption DEF Follow
    <3> QED
      BY <1>1, <2>1, <2>9, <3>1 DEF Follow
  <2>11. Clean(Dir(From(r, rel))) = g
    BY <2>1 DEF g
  <2> QED
    BY <2>1, <2>3, <2>6, <2>8, <2>10, <2>11
<1> QED
  BY <1>2, <1>3

\* What is found comes out as a directory that there is, and in it the file.
LEMMA FoundThere ==
  ASSUME NEW list, list \in Arguments, NEW sk, NEW k, k \in 1 .. Len(list)
  PROVE  /\ \A d \in DirsOfArg(sk, list[k]) : RelativePackagePath(d) \in Dirs
         /\ list[k].all => \A f \in FoundBy(sk, Clean(list[k].path)) :
              LET d == RelativePackagePath(Clean(Dir(f)))
              IN  d \in Dirs /\ (d \notin BadGlob => f \in Range(FilesOf[d]))
<1> DEFINE a == list[k]
           r == Clean(a.path)
<1>1. a \in Range(list) /\ a \in [path : Seq(AllNames) \ {<<>>}, all : BOOLEAN]
  <2>1. list \in Seq([path : Seq(AllNames) \ {<<>>}, all : BOOLEAN])
    BY PathsAssumption
  <2> QED
    BY <2>1, ElementOfSeq, InRange
<1>2. a \in UNION {Range(l) : l \in Arguments} /\ IsRoot(r)
  <2>1. a.path \in AnyPath
    BY <1>1 DEF AnyPath
  <2> QED
    BY <1>1, <2>1, CleanRoot
<1>3. IF ~a.all THEN RelativePackagePath(r) \in Dirs
      ELSE \A rel \in Below(r) :
             Directory(Real(r) \o rel) \/ RelativePackagePath(Clean(Dir(From(r, rel)))) \in Dirs
  BY <1>2, PathsAssumption
<1> HIDE DEF a, r
<1>4. ASSUME a.all, NEW f \in FoundBy(sk, r)
      PROVE  LET d == RelativePackagePath(Clean(Dir(f)))
             IN  d \in Dirs /\ (d \notin BadGlob => f \in Range(FilesOf[d]))
  <2> DEFINE d == RelativePackagePath(Clean(Dir(f)))
  <2>1. PICK rel \in Below(r) : f = From(r, rel) /\ ~Directory(Real(r) \o rel) /\ Last(f) \in GoNames
    BY <1>4 DEF FoundBy, ReachedBy, GoFileBy
  <2>2. d \in Dirs
    BY <1>3, <1>4, <2>1
  <2>3. PICK g, m : /\ IsRoot(g) /\ m \in GoNames /\ m \in PlainNames /\ Clean(Dir(f)) = g
                    /\ f = From(g, <<m>>) /\ Append(Real(g), m) \in Tree
    BY <1>2, <2>1, FileThere
  <2>4. d = RelativePackagePath(g)
    BY <2>3
  <2>5. Real(d) = Real(g) /\ Clean(Append(d, m)) = f
    BY <2>3, <2>4, RelativeIs
  <2> HIDE DEF d
  <2>6. d \notin BadGlob => f \in Range(FilesOf[d])
    BY <2>2, <2>3, <2>5, PathsAssumption
  <2> QED
    BY <2>2, <2>6 DEF d
<1>5. ASSUME NEW d \in DirsOfArg(sk, a)
      PROVE  RelativePackagePath(d) \in Dirs
  <2>1. CASE a.all
    BY <1>4, <1>5, <2>1 DEF DirsOfArg, r
  <2>2. CASE ~a.all
    BY <1>3, <1>5, <2>2 DEF DirsOfArg, r
  <2> QED
    BY <2>1, <2>2
<1> QED
  BY <1>4, <1>5 DEF a, r

-----------------------------------------------------------------------------
(***************************************************************************)
(* The whole: from the arguments to the command lines.                     *)
(***************************************************************************)
\* What the properties say of the state, for the constants.
LEMMA Found ==
  /\ \A r : FilesFound(r) = FoundBy(skip, r)
  /\ \A n : DirsBy(n) = DirsOf(skip, given, n)
<1>1. \A r : Reached(r) = ReachedBy(skip, r)
  BY SameSkip DEF Reached, ReachedBy
<1>2. \A r, rel : IsGoFile(r, rel) <=> GoFileBy(skip, r, rel)
  BY SameSkip DEF IsGoFile, GoFileBy
<1>3. \A r : FilesFound(r) = FoundBy(skip, r)
  BY <1>1, <1>2 DEF FilesFound, FoundBy
<1>4. \A a : DirsFor(a) = DirsOfArg(skip, a)
  BY <1>3 DEF DirsFor, DirsOfArg
<1>5. \A n : DirsBy(n) = DirsOf(skip, given, n)
  BY <1>4 DEF DirsBy, DirsOf
<1> QED
  BY <1>3, <1>5

(***************************************************************************)
(* The inductive invariant of the walk: the directories are those of the   *)
(* arguments before, and those that the walk of the current one has found. *)
(***************************************************************************)
Walking ==
  /\ Now # 0 /\ given[Now].all /\ root = Clean(given[Now].path)
  /\ WalkOf(skip, given, Now, root, pending, dirs)
Resolving ==
  /\ given \in Arguments /\ IsFiniteSet(dirs)
  /\ Now \in 0 .. Len(given) /\ todo = SubSeq(given, Now + 1, Len(given))
  /\ stage = "arguments" => dirs = DirsOf(skip, given, Now)
  /\ stage = "walking" => Walking
  /\ stage # "resolved" => at = "start"
\* A strategy that has begun has not failed.
Sound == at \in {"adding", "done"} => ~Fails(strategy, paths)
RunInv == Resolving /\ Inv /\ Sound /\ FindsItsDirectories

\* The next argument.
LEMMA NextArgument ==
  ASSUME Resolving, todo # <<>>, todo' = Tail(todo), UNCHANGED given
  PROVE  /\ Now + 1 \in 1 .. Len(given) /\ Head(todo) = given[Now + 1]
         /\ Now' = Now + 1 /\ todo' = SubSeq(given, Now' + 1, Len(given))
<1> DEFINE A == [path : Seq(AllNames) \ {<<>>}, all : BOOLEAN]
           n == Now
<1>1. given \in Seq(A) /\ n \in 0 .. Len(given) /\ todo = SubSeq(given, n + 1, Len(given))
  BY PathsAssumption DEF Resolving
<1>2. n = Len(given) - Len(todo) /\ Now' = Len(given) - Len(todo')
  BY DEF Now
<1> HIDE DEF n, A
<1>3. /\ n + 1 \in 0 .. Len(given) /\ Head(todo) = given[n + 1]
      /\ todo' = SubSeq(given, n + 2, Len(given))
  BY <1>1, TakeOne
<1> DEFINE l == Len(given)
<1>4. l \in Nat /\ n \in Nat /\ n + 1 \in 1 .. l
  BY <1>1, <1>3
<1>5. Len(todo') = l - (n + 1)
  BY <1>1, <1>3, <1>4
<1> HIDE DEF l
<1>6. Now' = n + 1 /\ n + 2 = (n + 1) + 1
  BY <1>2, <1>4, <1>5 DEF l
<1>7. todo' = SubSeq(given, Now' + 1, Len(given))
  BY <1>3, <1>6
<1> QED
  BY <1>3, <1>4, <1>6, <1>7 DEF n, l

\* The root of a walk is clean.
LEMMA RootOf ==
  ASSUME given \in Arguments, NEW k, k \in 1 .. Len(given)
  PROVE  IsRoot(Clean(given[k].path))
<1>1. given \in Seq([path : Seq(AllNames) \ {<<>>}, all : BOOLEAN])
  BY PathsAssumption
<1>2. given[k] \in [path : Seq(AllNames) \ {<<>>}, all : BOOLEAN]
  BY <1>1, ElementOfSeq
<1>3. given[k].path \in AnyPath
  BY <1>2 DEF AnyPath
<1> QED
  BY <1>3, CleanRoot

\* An argument that is one directory.
LEMMA AddPathStep == Resolving /\ AddPath => Resolving'
<1>1. SUFFICES ASSUME Resolving, AddPath
               PROVE  Resolving'
  OBVIOUS
<1>2. /\ stage = "arguments" /\ todo # <<>> /\ ~Head(todo).all /\ todo' = Tail(todo)
      /\ dirs' = dirs \cup {Clean(Head(todo).path)}
      /\ given' = given /\ skip' = skip /\ stage' = stage /\ at' = at
  BY <1>1 DEF AddPath, partVars
<1>3. /\ Now + 1 \in 1 .. Len(given) /\ Head(todo) = given[Now + 1]
      /\ Now' = Now + 1 /\ todo' = SubSeq(given, Now' + 1, Len(given))
  BY <1>1, <1>2, NextArgument
<1>4. given \in Arguments /\ IsFiniteSet(dirs) /\ dirs = DirsOf(skip, given, Now)
      /\ Now \in 0 .. Len(given) /\ at = "start"
  BY <1>1, <1>2 DEF Resolving
<1> DEFINE n == Now + 1
<1>5. Now = n - 1 /\ n \in Nat \ {0} /\ n \in 0 .. Len(given)
  BY <1>3, <1>4
<1>6. dirs' = DirsOf(skip, given, n)
  <2> HIDE DEF n
  <2>1. DirsOf(skip, given, n) = DirsOf(skip, given, n - 1) \cup DirsOfArg(skip, given[n])
    BY <1>5, DirsOneMore, Zenon
  <2>2. Head(todo) = given[n]
    BY <1>3 DEF n
  <2> QED
    BY <1>2, <1>4, <1>5, <2>1, <2>2 DEF DirsOfArg
<1>7. IsFiniteSet(dirs')
  BY <1>2, <1>4, FS_AddElement
<1> QED
  BY <1>2, <1>3, <1>4, <1>5, <1>6, <1>7 DEF Resolving

\* An argument with /... behind it.
LEMMA WalkTreeStep == Resolving /\ WalkTree => Resolving'
<1>1. SUFFICES ASSUME Resolving, WalkTree
               PROVE  Resolving'
  OBVIOUS
<1>2. /\ stage = "arguments" /\ todo # <<>> /\ Head(todo).all /\ todo' = Tail(todo)
      /\ root' = Clean(Head(todo).path) /\ pending' = <<root'>> /\ dirs' = dirs
      /\ given' = given /\ skip' = skip /\ stage' = "walking" /\ at' = at
  BY <1>1 DEF WalkTree, partVars
<1>3. /\ Now + 1 \in 1 .. Len(given) /\ Head(todo) = given[Now + 1]
      /\ Now' = Now + 1 /\ todo' = SubSeq(given, Now' + 1, Len(given))
  BY <1>1, <1>2, NextArgument
<1>4. given \in Arguments /\ IsFiniteSet(dirs) /\ dirs = DirsOf(skip, given, Now)
      /\ Now \in 0 .. Len(given) /\ at = "start"
  BY <1>1, <1>2 DEF Resolving
<1> DEFINE n == Now + 1
<1>5. Now = n - 1 /\ n \in Nat \ {0} /\ n \in 0 .. Len(given) /\ n \in 1 .. Len(given)
  BY <1>3, <1>4
<1>6. root' = Clean(given[n].path) /\ given[n].all /\ n # 0
  BY <1>2, <1>3, <1>5
<1>7. WalkOf(skip, given, n, root', <<root'>>, dirs)
  <2> HIDE DEF n
  <2>1. IsRoot(root')
    BY <1>4, <1>5, <1>6, RootOf
  <2>2. dirs = DirsOf(skip, given, n - 1)
    BY <1>4, <1>5
  <2> QED
    BY <1>5, <2>1, <2>2, WalkBegins, Zenon
<1> QED
  BY <1>2, <1>3, <1>4, <1>5, <1>6, <1>7 DEF Resolving, Walking

\* A step of the walk.
LEMMA VisitStep ==
  ASSUME Resolving, pending # <<>>,
         VisitUnreadable(Head(pending)) \/ VisitDir(Head(pending)) \/ VisitFile(Head(pending))
  PROVE  Resolving'
<1>1. /\ stage = "walking" /\ stage' = stage /\ skip' = skip /\ given' = given /\ todo' = todo
      /\ root' = root /\ at' = at
  BY DEF VisitUnreadable, VisitDir, VisitFile, Visit, partVars
<1>2. Walking /\ given \in Arguments /\ IsFiniteSet(dirs) /\ Now' = Now
      /\ Now \in 0 .. Len(given) /\ todo = SubSeq(given, Now + 1, Len(given)) /\ at = "start"
  BY <1>1 DEF Resolving, Now
<1>3. /\ given[Now].all /\ root = Clean(given[Now].path)
      /\ WalkOf(skip, given, Now, root, pending, dirs) /\ Now \in Nat \ {0} /\ Now \in 1 .. Len(given)
  <2>1. Len(given) \in Nat
    BY <1>2, PathsAssumption
  <2> DEFINE l == Len(given)
             n == Now
  <2>2. n \in 0 .. l /\ n # 0 /\ l \in Nat
    BY <1>2, <2>1 DEF Walking
  <2> HIDE DEF l, n
  <2>3. n \in Nat \ {0} /\ n \in 1 .. l
    BY <2>2
  <2> QED
    BY <1>2, <2>3 DEF Walking, l, n
<1>4. IsRoot(root)
  BY <1>2, <1>3, RootOf
<1>5. WalkOf(skip, given, Now, root, pending', dirs') /\ IsFiniteSet(dirs')
  <2>1. CASE VisitUnreadable(Head(pending))
    <3>1. dirs' = dirs
      BY <2>1 DEF VisitUnreadable
    <3> QED
      BY <1>2, <1>3, <1>4, <2>1, <3>1, StepUnreadable
  <2>2. CASE VisitDir(Head(pending))
    <3>1. dirs' = dirs
      BY <2>2 DEF VisitDir
    <3> QED
      BY <1>2, <1>3, <1>4, <2>2, <3>1, StepDir
  <2>3. CASE VisitFile(Head(pending))
    <3>1. dirs' = dirs \/ dirs' = dirs \cup {Clean(Dir(Head(pending)))}
      BY <2>3 DEF VisitFile
    <3>2. IsFiniteSet(dirs')
      BY <1>2, <3>1, FS_AddElement
    <3> QED
      BY <1>3, <1>4, <2>3, <3>2, StepFile
  <2> QED
    BY <2>1, <2>2, <2>3
<1> QED
  BY <1>1, <1>2, <1>3, <1>5 DEF Resolving, Walking

\* The end of a walk.
LEMMA WalkEndsStep == Resolving /\ WalkEnds => Resolving'
<1>1. SUFFICES ASSUME Resolving, WalkEnds
               PROVE  Resolving'
  OBVIOUS
<1>2. /\ stage = "walking" /\ pending = <<>> /\ stage' = "arguments" /\ UNCHANGED <<skip, given, todo, dirs, at>>
  BY <1>1 DEF WalkEnds, partVars
<1>3. Walking /\ given \in Arguments /\ IsFiniteSet(dirs) /\ Now' = Now
      /\ Now \in 0 .. Len(given) /\ todo = SubSeq(given, Now + 1, Len(given)) /\ at = "start"
  BY <1>1, <1>2 DEF Resolving, Now
<1>4. dirs = DirsOf(skip, given, Now)
  <2> DEFINE n == Now
             l == Len(given)
  <2>1. n # 0 /\ given[n].all /\ root = Clean(given[n].path) /\ WalkOf(skip, given, n, root, <<>>, dirs)
        /\ n \in 0 .. l /\ l \in Nat
    BY <1>2, <1>3, PathsAssumption DEF Walking
  <2> HIDE DEF n, l
  <2>2. n \in Nat \ {0} /\ n \in 1 .. l
    BY <2>1
  <2>3. IsRoot(root)
    BY <1>3, <2>1, <2>2, RootOf DEF l
  <2>4. dirs = DirsOf(skip, given, n)
    BY <2>1, <2>2, <2>3, WalkIsOver, Zenon
  <2> QED
    BY <2>4 DEF n
<1> QED
  BY <1>2, <1>3, <1>4 DEF Resolving

\* What the directories are resolved to.
LEMMA ResolvedAre ==
  ASSUME Resolving, Resolve
  PROVE  /\ paths' \in Seq(Dirs) /\ InOrder(paths')
         /\ Range(paths') = IF given = <<>> THEN {<<".">>}
                            ELSE {RelativePackagePath(d) : d \in DirsOf(skip, given, Len(given))}
<1> DEFINE ds == {RelativePackagePath(d) : d \in dirs}
<1>1. /\ stage = "arguments" /\ todo = <<>>
      /\ paths' = IF given = <<>> THEN <<<<".">>>> ELSE Sorted(ds)
  BY DEF Resolve
<1>2. /\ given \in Arguments /\ IsFiniteSet(dirs) /\ dirs = DirsOf(skip, given, Len(given))
  <2>0. given \in Arguments
    BY DEF Resolving
  <2>1. Len(given) \in Nat /\ Len(todo) = 0
    <3>1. Len(given) \in Nat
      BY <2>0, PathsAssumption
    <3> QED
      BY <1>1, <3>1
  <2>2. Now = Len(given)
    BY <2>1 DEF Now
  <2> QED
    BY <1>1, <2>2 DEF Resolving
<1>3. ds \subseteq Dirs
  <2>1. \A k \in 1 .. Len(given) : \A d \in DirsOfArg(skip, given[k]) : RelativePackagePath(d) \in Dirs
    BY <1>2, FoundThere, Zenon
  <2> QED
    BY <1>2, <2>1 DEF DirsOf
<1>4. IsFiniteSet(ds)
  <2> DEFINE f == [d \in dirs |-> RelativePackagePath(d)]
  <2>1. f \in Surjection(dirs, ds)
    BY DEF Surjection
  <2> QED
    BY <1>2, <2>1, FS_Surjection
<1>5. ds \subseteq AnyPath
  <2>1. ASSUME NEW k \in 1 .. Len(given), NEW d \in DirsOfArg(skip, given[k])
        PROVE  RelativePackagePath(d) \in AnyPath
    <3>1. d \in AnyPath /\ d # <<>>
      <4>1. IsRoot(Clean(given[k].path))
        BY <1>2, RootOf
      <4>2. CASE ~given[k].all
        BY <2>1, <4>1, <4>2 DEF DirsOfArg, IsRoot
      <4>3. CASE given[k].all
        <5>1. PICK rel \in Below(Clean(given[k].path)) :
                /\ d = Clean(Dir(From(Clean(given[k].path), rel)))
                /\ ~Directory(Real(Clean(given[k].path)) \o rel)
                /\ Last(From(Clean(given[k].path), rel)) \in GoNames
          BY <2>1, <4>3 DEF DirsOfArg, FoundBy, ReachedBy, GoFileBy
        <5>2. IsRoot(d)
          BY <4>1, <5>1, FileThere
        <5> QED
          BY <5>2 DEF IsRoot
      <4> QED
        BY <4>2, <4>3
    <3>2. <<".">> \in AnyPath
      BY PathsAssumption DEF AnyPath
    <3>3. <<".">> \o d \in AnyPath
      BY <3>1, <3>2, ConcatProperties DEF AnyPath
    <3> QED
      BY <3>1, <3>3 DEF RelativePackagePath
  <2> QED
    BY <1>2, <2>1 DEF DirsOf
<1>6. CASE given # <<>>
  <2>1. Sorted(ds) \in Seq(ds) /\ Range(Sorted(ds)) = ds /\ InOrder(Sorted(ds))
    BY <1>4, <1>5, SortedIs
  <2>2. Sorted(ds) \in Seq(Dirs)
    <3> HIDE DEF ds
    <3> QED
      BY <1>3, <2>1
  <2> QED
    BY <1>1, <1>2, <1>6, <2>1, <2>2
<1>7. CASE given = <<>>
  <2> DEFINE dot == <<".">>
  <2>1. dot \in Dirs
    BY PathsAssumption
  <2> HIDE DEF dot
  <2>2. <<dot>> \in Seq(Dirs) /\ Range(<<dot>>) = {dot} /\ InOrder(<<dot>>)
    <3>1. <<dot>> \in Seq(Dirs) /\ Len(<<dot>>) = 1 /\ DOMAIN <<dot>> = 1 .. 1 /\ <<dot>>[1] = dot
      BY <2>1
    <3>2. \A j, k \in 1 .. 1 : ~(j < k)
      OBVIOUS
    <3> QED
      BY <3>1, <3>2 DEF Range, InOrder
  <2> QED
    BY <1>1, <1>7, <2>2 DEF dot
<1> QED
  BY <1>6, <1>7

\* The directories become the paths.
LEMMA ResolveStep == RunInv /\ Resolve => RunInv'
<1>1. SUFFICES ASSUME RunInv, Resolve
               PROVE  RunInv'
  OBVIOUS
<1>2. /\ stage = "arguments" /\ stage' = "resolved" /\ at' = at
      /\ UNCHANGED <<skip, given, todo, root, pending, dirs>>
      /\ UNCHANGED <<strategy, spare, gopath, at, args, current, size, parts, tail>>
  BY <1>1 DEF Resolve
<1>3. at = "start"
  BY <1>1, <1>2 DEF RunInv, Resolving
<1>4. /\ paths' \in Seq(Dirs) /\ InOrder(paths')
      /\ Range(paths') = IF given = <<>> THEN {<<".">>}
                         ELSE {RelativePackagePath(d) : d \in DirsOf(skip, given, Len(given))}
  BY <1>1, ResolvedAre DEF RunInv
<1>5. Inv'
  BY <1>1, <1>2, <1>3, <1>4, StartStep DEF RunInv
<1>6. Resolving'
  BY <1>1, <1>2 DEF RunInv, Resolving, Now
<1>7. Sound'
  BY <1>2, <1>3 DEF Sound
<1>8. FindsItsDirectories'
  <2>1. \A k \in 1 .. Len(paths') - 1 : Precedes(paths'[k], paths'[k + 1])
    <3> DEFINE l == Len(paths')
    <3>1. l \in Nat /\ \A j, k \in 1 .. l : j < k => Precedes(paths'[j], paths'[k])
      BY <1>4 DEF InOrder
    <3> HIDE DEF l
    <3>2. \A k \in 1 .. l - 1 : k \in 1 .. l /\ k + 1 \in 1 .. l /\ k < k + 1
      BY <3>1
    <3> QED
      BY <3>1, <3>2 DEF l
  <2>2. (\A n : DirsBy(n) = DirsOf(skip, given, n))'
    BY Found, PTL
  <2> QED
    BY <1>2, <1>4, <2>1, <2>2 DEF FindsItsDirectories
<1> QED
  BY <1>5, <1>6, <1>7, <1>8 DEF RunInv

\* Before and after, the paths stay.
LEMMA PathsStay ==
  ASSUME RunInv, UNCHANGED paths, UNCHANGED <<skip, given>>, stage' = "resolved" => stage = "resolved"
  PROVE  FindsItsDirectories'
<1>1. (\A n : DirsBy(n) = DirsOf(skip, given, n))'
  BY Found, PTL
<1>2. \A n : DirsBy(n) = DirsOf(skip, given, n)
  BY Found
<1> QED
  BY <1>1, <1>2 DEF RunInv, FindsItsDirectories

\* Initially.
LEMMA RunStart == PathsInit => RunInv
<1>1. SUFFICES ASSUME PathsInit
               PROVE  RunInv
  OBVIOUS
<1>2. Idle /\ paths = <<>> /\ stage = "arguments" /\ given \in Arguments /\ todo = given /\ dirs = {}
  BY <1>1 DEF PathsInit
<1>3. Inv
  <2>1. paths \in Seq(Dirs)
    BY <1>2
  <2> QED
    BY <1>2, <2>1, InvInit
<1>4. at = "start"
  BY <1>2 DEF Idle
<1>5. Resolving
  <2>1. given \in Seq([path : Seq(AllNames) \ {<<>>}, all : BOOLEAN])
    BY <1>2, PathsAssumption
  <2> DEFINE l == Len(given)
  <2>2. l \in Nat /\ SubSeq(given, 1, l) = given
    BY <2>1
  <2>3. Now = l - l
    BY <1>2 DEF Now
  <2> HIDE DEF l
  <2>4. Now = 0 /\ 0 \in 0 .. l
    BY <2>2, <2>3
  <2>5. DirsOf(skip, given, Now) = {}
    BY <2>4 DEF DirsOf
  <2>6. todo = SubSeq(given, Now + 1, l)
    <3>1. Now + 1 = 1
      BY <2>4
    <3> QED
      BY <1>2, <2>2, <3>1
  <2> QED
    BY <1>2, <1>4, <2>4, <2>5, <2>6, FS_EmptySet DEF Resolving, l
<1> QED
  BY <1>2, <1>3, <1>4, <1>5 DEF RunInv, Sound, FindsItsDirectories

\* The partition of the paths.
LEMMA PartitionStep ==
  ASSUME RunInv, stage = "resolved", Next, UNCHANGED walkVars
  PROVE  RunInv'
<1>1. Inv'
  BY InvNext DEF RunInv
<1>2. Resolving'
  BY DEF RunInv, Resolving, walkVars, Now
<1>3. UNCHANGED input /\ (at' \in {"adding", "done"} => at \in {"adding", "done"} \/ ~Fails(strategy, paths))
  BY DEF Next, Fail, NothingToDo, Begin, Add, End, AddDirectory, EndDirectories, Returned, vars, input
<1>4. Fails(strategy, paths)' = Fails(strategy, paths)
  BY <1>3, InputKept
<1>5. Sound'
  BY <1>3, <1>4 DEF RunInv, Sound
<1>6. FindsItsDirectories'
  BY <1>3, PathsStay DEF walkVars, input
<1> QED
  BY <1>1, <1>2, <1>5, <1>6 DEF RunInv

\* Every step keeps the invariant.
LEMMA RunStep == RunInv /\ [PathsNext]_allVars => RunInv'
<1>1. SUFFICES ASSUME RunInv, [PathsNext]_allVars
               PROVE  RunInv'
  OBVIOUS
<1>2. ASSUME Resolving', UNCHANGED <<strategy, spare, gopath, paths, at, args, current, size, parts, tail>>,
             UNCHANGED <<skip, given>>, stage' = "resolved" => stage = "resolved"
      PROVE  RunInv'
  <2>1. Inv'
    BY <1>1, <1>2, StutterStep DEF RunInv, vars
  <2>2. Sound'
    BY <1>1, <1>2, InputKept DEF RunInv, Sound, input
  <2>3. FindsItsDirectories'
    BY <1>1, <1>2, PathsStay
  <2> QED
    BY <1>2, <2>1, <2>2, <2>3 DEF RunInv
<1>3. CASE AddPath
  <2>1. Resolving'
    BY <1>1, <1>3, AddPathStep DEF RunInv
  <2> QED
    BY <1>2, <1>3, <2>1 DEF AddPath, partVars, input
<1>4. CASE WalkTree
  <2>1. Resolving'
    BY <1>1, <1>4, WalkTreeStep DEF RunInv
  <2> QED
    BY <1>2, <1>4, <2>1 DEF WalkTree, partVars, input
<1>5. CASE WalkEnds
  <2>1. Resolving'
    BY <1>1, <1>5, WalkEndsStep DEF RunInv
  <2> QED
    BY <1>2, <1>5, <2>1 DEF WalkEnds, partVars, input
<1>6. CASE Resolve
  BY <1>1, <1>6, ResolveStep
<1>7. CASE pending # <<>> /\ (VisitUnreadable(Head(pending)) \/ VisitDir(Head(pending)) \/ VisitFile(Head(pending)))
  <2>1. Resolving'
    BY <1>1, <1>7, VisitStep DEF RunInv
  <2> QED
    BY <1>2, <1>7, <2>1 DEF VisitUnreadable, VisitDir, VisitFile, Visit, partVars, input
<1>8. CASE stage = "resolved" /\ Next /\ UNCHANGED walkVars
  BY <1>1, <1>8, PartitionStep
<1>9. CASE UNCHANGED allVars
  <2>1. Resolving'
    BY <1>1, <1>9 DEF RunInv, Resolving, Walking, Now, allVars, walkVars, vars
  <2> QED
    BY <1>2, <1>9, <2>1 DEF allVars, walkVars, vars
<1> QED
  BY <1>1, <1>3, <1>4, <1>5, <1>6, <1>7, <1>8, <1>9 DEF PathsNext

\* It always holds.
LEMMA RunInvHolds == PathsSpec => []RunInv
  BY RunStart, RunStep, PTL DEF PathsSpec

\* What the walk finds is what it should, whatever the tree, the links, the arguments
\* and what is skipped (main.go:317-384).
THEOREM WalkFindsDirectories == PathsSpec => []FindsItsDirectories
<1>1. RunInv => FindsItsDirectories
  BY DEF RunInv
<1> QED
  BY <1>1, RunInvHolds, PTL

\* The partition of what is resolved is right, as it is of any list of directories
\* (main.go:226-232, partition.go:37-163).
THEOREM ResolvedIsPartitioned == PathsSpec => [](Inv /\ RunAsBuilt)
<1>1. RunInv => Inv /\ RunAsBuilt
  BY Overwriting DEF RunInv
<1> QED
  BY <1>1, RunInvHolds, PTL

\* The files of directories are all of theirs.
LEMMA FilesInRange ==
  ASSUME NEW ds, ds \in Seq(Dirs), NEW k, k \in 1 .. Len(ds), NEW f, f \in Range(FilesOf[ds[k]])
  PROVE  Contains(FilesIn(ds), f)
<1> DEFINE ss == [j \in DOMAIN ds |-> FilesOf[ds[j]]]
           n == Len(ds)
<1>1. n \in Nat /\ DOMAIN ds = 1 .. n /\ (\A j \in 1 .. n : ds[j] \in Dirs) /\ FilesOf \in [Dirs -> Seq(Files)]
  BY PartitionAssumption
<1> HIDE DEF n
<1>2. ss \in Seq(Seq(Files)) /\ Len(ss) = n /\ ss[k] = FilesOf[ds[k]]
  <2>1. ss \in [1 .. n -> Seq(Files)]
    BY <1>1
  <2>2. ss \in Seq(Seq(Files))
    BY <1>1, <2>1, IsASeq
  <2> QED
    BY <1>1, <2>1, <2>2, LenProperties DEF n
<1> HIDE DEF ss
<1>3. f \in Range(FlattenSeq(ss))
  BY <1>2, FlattenRange DEF n
<1>4. FlattenSeq(ss) \in Seq(Files)
  BY <1>2, FlattenType
<1> QED
  BY <1>3, <1>4, InRange DEF FilesIn, ss

\* A Go file that is found is an argument of a linter, or its directory or package is
\* (main.go:226-232, 317-376, partition.go:37-163).
LEMMA Linted == RunInv => EveryFileIsLinted
<1>1. SUFFICES ASSUME RunInv, at = "done",
                      NEW a \in {b \in Range(given) : b.all}, NEW f \in FilesFound(Clean(a.path))
               PROVE  LET d == RelativePackagePath(Clean(Dir(f)))
                      IN  CASE strategy \in {"files", "files-by-package"} -> Contains(Given, f)
                            [] strategy = "packages" -> Contains(Given, PackageOf(d))
                            [] OTHER -> Contains(Given, d)
  BY DEF EveryFileIsLinted
<1> DEFINE d == RelativePackagePath(Clean(Dir(f)))
<1>2. /\ stage = "resolved" /\ given \in Arguments /\ Given = Wanted /\ ~Fails(strategy, paths)
      /\ strategy \in Strategies /\ paths \in Seq(Dirs)
  BY <1>1 DEF RunInv, Resolving, Inv, NothingLost, Sound, TypeOK
<1>3. PICK k \in 1 .. Len(given) : given[k] = a
  BY <1>1, <1>2, InRange, PathsAssumption
<1>4. f \in FoundBy(skip, Clean(given[k].path)) /\ given[k].all
  BY <1>1, <1>3, Found
<1>5. d \in Dirs /\ (d \notin BadGlob => f \in Range(FilesOf[d]))
  BY <1>2, <1>4, FoundThere
<1>6. d \in Range(paths)
  <2>1. Clean(Dir(f)) \in DirsOf(skip, given, Len(given))
    BY <1>4 DEF DirsOf, DirsOfArg
  <2>2. given # <<>>
    BY <1>3
  <2> QED
    BY <1>1, <1>2, <2>1, <2>2, Found DEF RunInv, FindsItsDirectories
<1> HIDE DEF d
<1>7. PICK j \in 1 .. Len(paths) : paths[j] = d
  BY <1>2, <1>6, InRange
<1>8. CASE strategy \in {"files", "files-by-package"}
  <2>1. f \in Range(FilesOf[paths[j]])
    BY <1>2, <1>5, <1>6, <1>7, <1>8 DEF Fails
  <2>2. Contains(FilesIn(paths), f)
    BY <1>2, <2>1, FilesInRange
  <2>3. Wanted = FilesIn(paths)
    BY <1>8 DEF Wanted, ArgsFor, Sized
  <2> QED
    BY <1>2, <1>8, <2>2, <2>3
<1>9. CASE strategy = "packages"
  <2> DEFINE ps == [i \in DOMAIN paths |-> PackageOf(paths[i])]
  <2>1. Wanted = ps
    BY <1>9 DEF Wanted, ArgsFor, Sized
  <2>2. ps[j] = PackageOf(d) /\ j \in 1 .. Len(ps)
    BY <1>2, <1>7
  <2> HIDE DEF ps
  <2>3. Contains(ps, PackageOf(d))
    BY <2>2 DEF Contains
  <2> QED
    BY <1>2, <1>9, <2>1, <2>3 DEF d
<1>10. CASE strategy \in {"directories", "single-directory"}
  <2>1. Wanted = paths
    BY <1>10 DEF Wanted, ArgsFor, Sized
  <2>2. Contains(paths, d)
    BY <1>2, <1>6, InRange
  <2> QED
    BY <1>2, <1>10, <2>1, <2>2 DEF d
<1> QED
  BY <1>2, <1>8, <1>9, <1>10 DEF Strategies, d

\* ... in every behaviour.
THEOREM FoundIsLinted == PathsSpec => []EveryFileIsLinted
  BY RunInvHolds, Linted, PTL
===============================================================================
