------------------------------ MODULE Partition ------------------------------
(***************************************************************************)
(* How the paths to lint become the command lines of one linter            *)
(* (partition.go): the five partition strategies and the sizePartitioner   *)
(* that three of them use.  A command line is the linter's own words, the  *)
(* base, followed by arguments; only the arguments are kept here.          *)
(***************************************************************************)
EXTENDS Integers, SequencesExt

CONSTANTS
  Dirs,         \* the directories there are
  Absolute,     \* those that are named by an absolute path
  FilesOf,      \* the Go files of each, in the order of Glob
  BadGlob,      \* those whose name is a malformed pattern
  Roots,        \* the absolute entries GOPATH may have; the others are relative
  RelTo,        \* the path from each of those to each absolute directory
  GoPaths,      \* the lists of entries GOPATH may hold
  Inputs,       \* the lists of paths to lint, as sequences of directories
  Bytes,        \* the length of each argument and the space after it
  BaseBytes,    \* the same for all words of the base
  MaxBytes,     \* MaxCommandBytes (32000 in the code)
  Spare         \* the words for which the array of the base has room left

Strategies == {"directories", "files", "packages", "files-by-package",
               "single-directory"}
Sized == {"directories", "files", "packages"}

Files == UNION {{FilesOf[d][n] : n \in DOMAIN FilesOf[d]} : d \in Dirs}

Args == Dirs \cup Files \cup Range(RelTo)

(***************************************************************************)
(* Linux takes file names of at most 4096 bytes and the base is a short    *)
(* command, so that a command line always has room for one argument.       *)
(***************************************************************************)
ASSUME PartitionAssumption ==
  /\ Absolute \subseteq Dirs /\ BadGlob \subseteq Dirs
  /\ FilesOf \in [Dirs -> Seq(Files)] /\ DOMAIN RelTo = Roots \X Absolute
  /\ \A list \in Inputs : list \in Seq(Dirs)
  /\ \A list \in GoPaths : list \in Seq(Range(list)) \ {<<>>}
  /\ Bytes \in [Args -> Nat \ {0}] /\ BaseBytes \in Nat \ {0} /\ MaxBytes \in Nat
  /\ BaseBytes <= MaxBytes /\ \A arg \in Args : BaseBytes + Bytes[arg] <= MaxBytes
  /\ Spare \subseteq Nat

VARIABLES
  strategy,  \* the linter's PartitionStrategy
  spare,     \* the number of arguments the array of the base has room for
  gopath,    \* the entries of GOPATH
  paths,     \* the paths to lint
  at,        \* where the strategy is
  args,      \* the arguments, or directories, that are still to be added
  current,   \* sizePartitioner.current without the base
  size,      \* sizePartitioner.size
  parts,     \* the command lines so far
  tail       \* what the spare room of the base's array holds

input == <<strategy, spare, gopath, paths>>
vars == <<strategy, spare, gopath, paths, at, args, current, size, parts, tail>>

-----------------------------------------------------------------------------
\* packageNameFromPath: filepath.Rel fails only between a relative and an absolute
\* path, so that an absolute path is made relative to the first absolute entry of
\* GOPATH, whether or not it lies below that entry.
FirstAbsolute  == SelectInSeq(gopath, LAMBDA e : e \in Roots)
NotInGoPath(d) == d \in Absolute /\ FirstAbsolute = 0
PackageOf(d)   == IF d \in Absolute THEN RelTo[<<gopath[FirstAbsolute], d>>] ELSE d

FilesIn(ds) == FlattenSeq([k \in DOMAIN ds |-> FilesOf[ds[k]]])

\* What the sized strategies hand to the sizePartitioner.
ArgsFor(s, ds) ==
  CASE s = "files"    -> FilesIn(ds)
    [] s = "packages" -> [k \in DOMAIN ds |-> PackageOf(ds[k])]
    [] OTHER          -> ds

\* A strategy fails as a whole if one directory does.
Fails(s, ds) ==
  \/ s \in {"files", "files-by-package"} /\ Range(ds) \cap BadGlob # {}
  \/ s = "packages" /\ \E k \in DOMAIN ds : NotInGoPath(ds[k])

\* Mutant of IsNothing: an empty list is handed to the sizePartitioner.
IsNothingNever(s, ds) == FALSE
\* Without files or packages there is no command line; without directories there is.
IsNothing(s, ds) == s \in {"files", "packages"} /\ ArgsFor(s, ds) = <<>>

\* Mutant of Exceeds: the limit itself counts as too long.
ExceedsAtLimit(arg) == size + Bytes[arg] >= MaxBytes
\* The argument does not fit on the command line any more.
Exceeds(arg) == size + Bytes[arg] > MaxBytes

\* Mutant of Restarted: the argument that did not fit is left out.
RestartedWithout(arg) == <<>>
\* sizePartitioner.new and the append after it.
Restarted(arg) == <<arg>>

\* Mutant of FitsSpare: the array of the base has room for anything.
FitsSpareAlways(xs) == TRUE
\* append(cmdArgs, xs...) writes into the spare room of the array, over what an
\* earlier command line has there.
FitsSpare(xs)   == Len(xs) <= spare
Overwritten(xs) == xs \o SubSeq(tail, Len(xs) + 1, Len(tail))

\* Before the strategy is called.
Idle ==
  /\ strategy \in Strategies
  /\ spare \in Spare
  /\ gopath \in GoPaths
  /\ at = "start"
  /\ args = <<>>
  /\ current = <<>>
  /\ size = 0
  /\ parts = <<>>
  /\ tail = <<>>

Init == Idle /\ paths \in Inputs

Fail ==
  /\ at = "start"
  /\ Fails(strategy, paths)
  /\ at' = "failed"
  /\ UNCHANGED <<input, args, current, size, parts, tail>>

NothingToDo ==
  /\ at = "start"
  /\ ~Fails(strategy, paths)
  /\ IsNothing(strategy, paths)
  /\ at' = "done"
  /\ UNCHANGED <<input, args, current, size, parts, tail>>

Begin ==
  /\ at = "start"
  /\ ~Fails(strategy, paths)
  /\ ~IsNothing(strategy, paths)
  /\ at' = "adding"
  /\ args' = ArgsFor(strategy, paths)
  /\ size' = BaseBytes
  /\ UNCHANGED <<input, current, parts, tail>>

\* sizePartitioner.add.
Add(arg) ==
  /\ at = "adding" /\ strategy \in Sized
  /\ args # <<>> /\ arg = Head(args)
  /\ args' = Tail(args)
  /\ IF Exceeds(arg)
     THEN /\ parts' = Append(parts, [args |-> current, shared |-> FALSE])
          /\ current' = Restarted(arg)
          /\ size' = BaseBytes + Bytes[arg]
     ELSE /\ current' = Append(current, arg)
          /\ size' = size + Bytes[arg]
          /\ UNCHANGED parts
  /\ UNCHANGED <<input, at, tail>>

\* sizePartitioner.end.
End ==
  /\ at = "adding" /\ strategy \in Sized
  /\ args = <<>>
  /\ parts' = Append(parts, [args |-> current, shared |-> FALSE])
  /\ at' = "done"
  /\ UNCHANGED <<input, args, current, size, tail>>

LineOf(d) == IF strategy = "single-directory" THEN <<d>> ELSE FilesOf[d]

\* One turn of the loop of the strategies that take directories one by one.
AddDirectory(d) ==
  /\ at = "adding" /\ strategy \notin Sized
  /\ args # <<>> /\ d = Head(args)
  /\ args' = Tail(args)
  /\ IF LineOf(d) = <<>>
     THEN UNCHANGED <<parts, tail>>
     ELSE /\ parts' = Append(parts, [args |-> LineOf(d), shared |-> FitsSpare(LineOf(d))])
          /\ tail' = IF FitsSpare(LineOf(d)) THEN Overwritten(LineOf(d)) ELSE tail
  /\ UNCHANGED <<input, at, current, size>>

EndDirectories ==
  /\ at = "adding" /\ strategy \notin Sized
  /\ args = <<>>
  /\ at' = "done"
  /\ UNCHANGED <<input, args, current, size, parts, tail>>

Returned == at \in {"done", "failed"} /\ UNCHANGED vars

Next ==
  \/ Fail \/ NothingToDo \/ Begin
  \/ End \/ EndDirectories
  \/ args # <<>> /\ (Add(Head(args)) \/ AddDirectory(Head(args)))
  \/ Returned

Spec == Init /\ [][Next]_vars

-----------------------------------------------------------------------------
(***************************************************************************)
(* Properties.                                                             *)
(***************************************************************************)
\* The arguments a command line is run with, once all are built.
Run(part) == IF part.shared THEN SubSeq(tail, 1, Len(part.args)) ELSE part.args

BytesOf(xs) ==
  LET upTo[n \in 0 .. Len(xs)] == IF n = 0 THEN BaseBytes ELSE upTo[n - 1] + Bytes[xs[n]]
  IN  upTo[Len(xs)]

Given == FlattenSeq([k \in DOMAIN parts |-> parts[k].args])

\* The variables have their types.
TypeOK ==
  /\ strategy \in Strategies /\ spare \in Spare
  /\ gopath \in GoPaths /\ paths \in Seq(Dirs)
  /\ at \in {"start", "adding", "done", "failed"}
  /\ args \in Seq(Args) /\ current \in Seq(Args) /\ size \in Nat
  /\ parts \in Seq([args : Seq(Args), shared : BOOLEAN])
  /\ tail \in Seq(Args) /\ Len(tail) <= spare

\* No command line is longer than the system takes, and none could have taken the
\* first argument of the next as well (partition.go:8-9, 75-82).
FilledToLimit ==
  strategy \in Sized =>
    /\ \A k \in DOMAIN parts : BytesOf(parts[k].args) <= MaxBytes
    /\ \A k \in 1 .. Len(parts) - 1 :
         BytesOf(Append(parts[k].args, parts[k + 1].args[1])) > MaxBytes

Wanted ==
  CASE strategy \in Sized -> ArgsFor(strategy, paths)
    [] strategy = "files-by-package" -> FilesIn(paths)
    [] OTHER -> paths

\* Every argument is on one command line, once and in order, and a linter is run
\* without an argument only by the strategy "directories", if there are no paths
\* at all (partition.go:49-61, 75-90, 99-163).
NothingLost ==
  at = "done" =>
    /\ Given = Wanted
    /\ (\E k \in DOMAIN parts : parts[k].args = <<>>)
         => strategy = "directories" /\ paths = <<>>

\* Command lines are run with the arguments they were built for.  The exception
\* are those with so few that the base's array has room for them, if a later one is
\* as short (partition.go:117, 160): an array with room takes a base of 17 words
\* or more, which no built-in linter has.
RunAsBuilt ==
  at = "done" =>
    \A k \in DOMAIN parts :
      \/ Run(parts[k]) = parts[k].args
      \/ /\ strategy \notin Sized
         /\ Len(parts[k].args) <= spare
         /\ \E m \in k + 1 .. Len(parts) : Len(parts[m].args) <= spare

(***************************************************************************)
(* The inductive invariant behind these properties.                        *)
(***************************************************************************)
Unbegun ==
  at \in {"start", "failed"} => args = <<>> /\ current = <<>> /\ parts = <<>> /\ tail = <<>>

\* sizePartitioner: size is the length of the command line being filled, which fits;
\* the line before it could not take its first argument; and what is still to be
\* added follows what has been.
Filling ==
  at = "adding" /\ strategy \in Sized =>
    /\ ~IsNothing(strategy, paths) /\ ~Fails(strategy, paths)
    /\ size = BytesOf(current) /\ size <= MaxBytes
    /\ Given \o current \o args = ArgsFor(strategy, paths)
    /\ current = <<>> => parts = <<>>
    /\ parts # <<>> => BytesOf(Append(parts[Len(parts)].args, current[1])) > MaxBytes
    /\ \A k \in DOMAIN parts : parts[k].args # <<>>

\* The other strategies: the directories before those still to be taken have given
\* the command lines so far.
InTurn ==
  at = "adding" /\ strategy \notin Sized =>
    \E k \in 0 .. Len(paths) :
      /\ args = SubSeq(paths, k + 1, Len(paths))
      /\ Given = IF strategy = "files-by-package" THEN FilesIn(SubSeq(paths, 1, k))
                 ELSE SubSeq(paths, 1, k)
      /\ \A n \in DOMAIN parts : parts[n].args # <<>>

\* A command line with the spare room of the base's array is as it was built unless a
\* later one has it too.
SharedInTurn ==
  \A k \in DOMAIN parts : parts[k].shared =>
    /\ strategy \notin Sized /\ Len(parts[k].args) <= spare
    /\ \/ Len(parts[k].args) <= Len(tail) /\ SubSeq(tail, 1, Len(parts[k].args)) = parts[k].args
       \/ \E m \in k + 1 .. Len(parts) : parts[m].shared

\* All of it (partition.go:37-163).
Inv == /\ TypeOK /\ Unbegun /\ Filling /\ InTurn /\ SharedInTurn
       /\ FilledToLimit /\ NothingLost
=============================================================================
