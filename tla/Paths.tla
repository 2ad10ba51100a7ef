-------------------------------- MODULE Paths --------------------------------
(***************************************************************************)
(* Which directories are linted: resolvePaths with its filter and the walk *)
(* of filepath.Walk (main.go:317-384), followed by Partition, which makes  *)
(* the command lines of one linter from them.                              *)
(*                                                                         *)
(* A path is a sequence of names, with "/" in front if it is absolute.     *)
(***************************************************************************)
EXTENDS Partition, TLC

CONSTANTS
  Cwd,        \* the working directory
  Kind,       \* the files and directories, by their absolute path
  Link,       \* the symbolic links to directories, with their targets
  Broken,     \* what cannot be read
  GoNames,    \* the names that end in .go
  DotNames,   \* the names that begin with a dot
  UnderNames, \* the names that begin with an underscore
  Names,      \* all names, in their order
  Arguments,  \* the lists of arguments: a path, and whether /... follows it
  Skips       \* the values of --skip, with "vendor" if --vendor is given

VARIABLES
  skip,       \* the value of --skip
  stage,      \* "arguments", "walking" or "resolved"
  given,      \* the arguments
  todo,       \* those that are still to be resolved
  root,       \* the root of the walk
  pending,    \* what the walk has still to visit, the next first
  dirs        \* the directories found so far

walkVars == <<skip, given, stage, todo, root, pending, dirs>>
allVars  == <<vars, walkVars>>
partVars == <<input, at, args, current, size, parts, tail>>

-----------------------------------------------------------------------------
AllNames == Range(Names)
IsAbs(p) == p[1] = "/"
Base(p)  == <<Last(p)>>
Dir(p)   == IF Len(p) = 1 THEN <<".">> ELSE Front(p)

\* filepath.Clean.
CleanStep(q, name) ==
  CASE name = "." -> q
    [] name = ".." /\ q # <<>> -> (IF q = <<"/">> THEN q ELSE IF Last(q) = ".." THEN Append(q, name) ELSE Front(q))
    [] OTHER -> Append(q, name)
Clean(p) == LET q == FoldLeft(CleanStep, <<>>, p) IN IF q = <<>> THEN <<".">> ELSE q

Abs(p) == IF IsAbs(p) THEN p ELSE Clean(Cwd \o p)
\* Where a path leads if links on the way are followed.
Follow(q, name) == LET x == Append(q, name) IN IF x \in DOMAIN Link THEN Link[x] ELSE x
Real(p) == FoldLeft(Follow, <<>>, Abs(p))

Tree == DOMAIN Kind \cup DOMAIN Link
Directory(q) == q \in DOMAIN Kind /\ Kind[q] = "dir"

\* newPathFilter.
SkipPath(p) == Base(p) \in skip \/ p \in skip \/ Last(p) \in (DotNames \cup UnderNames) \ {".", ".."}

\* relativePackagePath.
RelativePackagePath(p) == IF IsAbs(p) \/ p[1] \in DotNames THEN p ELSE <<".">> \o p

\* The order of sort.Strings.
Rank == [m \in AllNames |-> CHOOSE k \in DOMAIN Names : Names[k] = m]
Precedes(p, q) ==
  \/ Len(p) < Len(q) /\ p = SubSeq(q, 1, Len(p))
  \/ \E k \in DOMAIN p \cap DOMAIN q :
       Rank[p[k]] < Rank[q[k]] /\ SubSeq(p, 1, k - 1) = SubSeq(q, 1, k - 1)
Sorted(S) == [k \in 1 .. Cardinality(S) |->
                CHOOSE p \in S : Cardinality({q \in S : Precedes(q, p)}) = k - 1]

\* What a directory holds, in order, as paths of one name.
Listed(p) == Sorted({<<m>> : m \in {m \in AllNames : Append(Real(p), m) \in Tree}})

\* What lies below a root, by the names from there.
Below(r) == {SubSeq(q, Len(Real(r)) + 1, Len(q)) : q \in {p \in Tree : IsPrefix(Real(r), p)}}
From(r, rel) == Clean(r \o rel)

(***************************************************************************)
(* What is in the tree is in a directory of it, and "/" alone is not; the  *)
(* working directory is there, and a link leads to a directory.  Dirs has  *)
(* every directory that can come out, and Glob finds its Go files.         *)
(***************************************************************************)
ASSUME PathsAssumption ==
  /\ Names \in Seq(AllNames) /\ \A j, k \in DOMAIN Names : Names[j] = Names[k] => j = k
  /\ {"/", ".", ".."} \subseteq AllNames /\ {".", ".."} \subseteq DotNames
  /\ GoNames \cap {"/", ".", ".."} = {}
  /\ Cwd \in Seq(AllNames) /\ Cwd # <<>> /\ IsAbs(Cwd)
  /\ \A p \in Tree :
       /\ p \in Seq(AllNames) /\ p # <<>>
       /\ Len(p) > 1 => Last(p) \notin {"/", ".", ".."} /\ Directory(Front(p))
  /\ DOMAIN Kind \cap DOMAIN Link = {} /\ \A p \in DOMAIN Link : Directory(Link[p])
  /\ \A list \in Arguments : list \in Seq([path : Seq(AllNames) \ {<<>>}, all : BOOLEAN])
  /\ <<".">> \in Dirs
  /\ \A a \in UNION {Range(list) : list \in Arguments} :
       LET r == Clean(a.path)
       IN  IF ~a.all THEN RelativePackagePath(r) \in Dirs
           ELSE \A rel \in Below(r) :
                  Directory(Real(r) \o rel) \/ RelativePackagePath(Clean(Dir(From(r, rel)))) \in Dirs
  /\ \A d \in Dirs \ BadGlob : \A m \in GoNames :
       Append(Real(d), m) \in Tree => Clean(Append(d, m)) \in Range(FilesOf[d])

-----------------------------------------------------------------------------
PathsInit ==
  /\ Idle /\ paths = <<>>
  /\ skip \in Skips
  /\ stage = "arguments"
  /\ given \in Arguments /\ todo = given
  /\ root = <<".">> /\ pending = <<>> /\ dirs = {}

AddPath ==
  /\ stage = "arguments" /\ todo # <<>> /\ ~Head(todo).all
  /\ dirs' = dirs \cup {Clean(Head(todo).path)}
  /\ todo' = Tail(todo)
  /\ UNCHANGED <<partVars, skip, given, stage, root, pending>>

WalkTree ==
  /\ stage = "arguments" /\ todo # <<>> /\ Head(todo).all
  /\ root' = Clean(Head(todo).path)
  /\ pending' = <<root'>>
  /\ todo' = Tail(todo)
  /\ stage' = "walking"
  /\ UNCHANGED <<partVars, skip, given, dirs>>

\* Only the root is looked up as what it links to: resolvePaths puts a slash behind it.
Place(p) == IF p = root THEN Real(p) ELSE Append(Real(Dir(p)), Last(p))
Unreadable(p) == Place(p) \notin Tree \/ Place(p) \in Broken
IsDir(p) == Directory(Place(p))

\* Mutant of AfterError: the walk goes on with the next.
AfterErrorOn(rest) == rest
\* The error of one file is returned by the callback and ends the walk.
AfterError(rest) == <<>>

Visit(p) == stage = "walking" /\ pending # <<>> /\ p = Head(pending)

VisitUnreadable(p) ==
  /\ Visit(p) /\ Unreadable(p)
  /\ pending' = AfterError(Tail(pending))
  /\ UNCHANGED <<partVars, skip, given, stage, todo, root, dirs>>

VisitDir(p) ==
  /\ Visit(p) /\ ~Unreadable(p) /\ IsDir(p)
  /\ pending' = (IF SkipPath(p) THEN <<>>
                 ELSE [k \in DOMAIN Listed(p) |-> Clean(p \o Listed(p)[k])]) \o Tail(pending)
  /\ UNCHANGED <<partVars, skip, given, stage, todo, root, dirs>>

VisitFile(p) ==
  /\ Visit(p) /\ ~Unreadable(p) /\ ~IsDir(p)
  /\ dirs' = IF ~SkipPath(p) /\ Last(p) \in GoNames THEN dirs \cup {Clean(Dir(p))} ELSE dirs
  /\ pending' = Tail(pending)
  /\ UNCHANGED <<partVars, skip, given, stage, todo, root>>

WalkEnds ==
  /\ stage = "walking" /\ pending = <<>>
  /\ stage' = "arguments"
  /\ UNCHANGED <<partVars, skip, given, todo, root, pending, dirs>>

\* Without arguments the path is "."; arguments that lead nowhere give none.
Resolve ==
  /\ stage = "arguments" /\ todo = <<>>
  /\ paths' = IF given = <<>> THEN <<<<".">>>>
              ELSE Sorted({RelativePackagePath(d) : d \in dirs})
  /\ stage' = "resolved"
  /\ UNCHANGED <<strategy, spare, gopath, at, args, current, size, parts, tail>>
  /\ UNCHANGED <<skip, given, todo, root, pending, dirs>>

PathsNext ==
  \/ AddPath \/ WalkTree \/ WalkEnds \/ Resolve
  \/ /\ pending # <<>>
     /\ VisitUnreadable(Head(pending)) \/ VisitDir(Head(pending)) \/ VisitFile(Head(pending))
  \/ stage = "resolved" /\ Next /\ UNCHANGED walkVars

PathsSpec == PathsInit /\ [][PathsNext]_allVars

-----------------------------------------------------------------------------
(***************************************************************************)
(* Properties.                                                             *)
(***************************************************************************)
\* What of a tree the walk comes to if nothing stops it, and the Go files it finds
\* before the first thing it cannot read.
Reached(r) ==
  {rel \in Below(r) : \A k \in 0 .. Len(rel) - 1 : ~SkipPath(From(r, SubSeq(rel, 1, k)))}
IsGoFile(r, rel) ==
  LET f == From(r, rel) IN ~Directory(Real(r) \o rel) /\ Last(f) \in GoNames /\ ~SkipPath(f)
FilesFound(r) ==
  {From(r, rel) : rel \in
     {f \in Reached(r) : /\ IsGoFile(r, f)
                         /\ \A e \in Reached(r) : Real(r) \o e \in Broken => Precedes(f, e)}}

\* The directories that come from an argument, and from the first n.
DirsFor(a) ==
  IF a.all THEN {Clean(Dir(f)) : f \in FilesFound(Clean(a.path))} ELSE {Clean(a.path)}
DirsBy(n) == UNION {DirsFor(given[k]) : k \in 1 .. n}

\* The paths are the directories given and those below a given root in which the walk
\* comes to a Go file that is not skipped, before the first file or directory that it
\* cannot read; each once and in order, in whatever order they are given
\* (main.go:317-376).
FindsItsDirectories ==
  stage = "resolved" =>
    /\ Range(paths) = IF given = <<>> THEN {<<".">>}
                      ELSE {RelativePackagePath(d) : d \in DirsBy(Len(given))}
    /\ \A k \in 1 .. Len(paths) - 1 : Precedes(paths[k], paths[k + 1])

\* Every Go file that is found is linted: a command line has the file, its directory
\* or its package, whatever the strategy (main.go:226-232, partition.go:37-163).
EveryFileIsLinted ==
  at = "done" =>
    \A f \in UNION {FilesFound(Clean(a.path)) : a \in {b \in Range(given) : b.all}} :
      LET d == RelativePackagePath(Clean(Dir(f)))
      IN  CASE strategy \in {"files", "files-by-package"} -> Contains(Given, f)
            [] strategy = "packages" -> Contains(Given, PackageOf(d))
            [] OTHER -> Contains(Given, d)
=============================================================================
