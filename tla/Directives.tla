------------------------------ MODULE Directives ------------------------------
(***************************************************************************)
(* How the directive parser turns the comments of a file into line ranges  *)
(* (directives.go:118-186): each nolint comment gets the lines of its      *)
(* comment group, ast.Walk visits the nodes of the file in source order    *)
(* and rangeExpander.Visit lets a range grow over the node it immediately  *)
(* precedes; parseFile's caller sorts the ranges by their end.             *)
(*                                                                         *)
(* Doc comments are nodes too: ast.Walk visits them after the declaration  *)
(* they belong to and before its parts.  Of several nodes that start at    *)
(* one place with no doc comment between them only the outermost counts:   *)
(* a range that has grown over it no longer ends on the line before.       *)
(***************************************************************************)
EXTENDS Integers, Sequences, FiniteSets

CONSTANTS
  Files   \* the files to parse: their nodes in source order and their groups

(***************************************************************************)
(* A file is a record of                                                   *)
(*   nodes  : a sequence of [col, start, end], in the order of ast.Walk    *)
(*   groups : a sequence of [col, start, end, nolints], the comment groups *)
(*            in source order and how many nolint comments each has        *)
(***************************************************************************)
Node  == [col : Nat, start : Nat, end : Nat]
Group == [col : Nat, start : Nat, end : Nat, nolints : Nat]

\* The group is a node too: the doc comment of a declaration, or the comment on the
\* last line of a field or of a specification.
IsDoc(f, g) ==
  \E n \in DOMAIN f.nodes :
    /\ f.nodes[n].col = f.groups[g].col
    /\ f.nodes[n].start = f.groups[g].start
    /\ f.nodes[n].end = f.groups[g].end

\* Comment groups do not overlap; of two nodes that start at one place ast.Walk
\* visits the one that ends later first, since it is an ancestor of the other.  A
\* node is visited after one that starts on a later line only if it is the signature
\* of a function, which encloses the receiver visited before it, or a doc comment
\* (or one of its lines), which is visited after the declaration below it.
ASSUME FilesAssumption ==
  \A f \in Files :
    /\ f \in [nodes : Seq(Node), groups : Seq(Group)]
    /\ \A n \in DOMAIN f.nodes : f.nodes[n].start <= f.nodes[n].end
    /\ \A m, n \in DOMAIN f.nodes :
         m < n /\ f.nodes[m].col = f.nodes[n].col /\ f.nodes[m].start = f.nodes[n].start
           => f.nodes[n].end <= f.nodes[m].end
    /\ \A m, n \in DOMAIN f.nodes :
         m < n /\ f.nodes[n].start < f.nodes[m].start
           => \/ f.nodes[m].end <= f.nodes[n].end
              \/ \A g \in DOMAIN f.groups :
                   f.groups[g].start \in f.nodes[n].start .. f.nodes[n].end => IsDoc(f, g)
    /\ \A g \in DOMAIN f.groups : f.groups[g].start <= f.groups[g].end
    /\ \A g, h \in DOMAIN f.groups : g < h => f.groups[g].end <= f.groups[h].start

VARIABLES
  file,    \* the file being parsed
  ranges,  \* rangeExpander.ranges
  next,    \* the number of the node that is visited next
  walked   \* parseFile has returned and its caller has sorted the ranges

vars == <<file, ranges, next, walked>>

-----------------------------------------------------------------------------
(***************************************************************************)
(* extractCommentGroupRange: one range for each nolint comment, and all    *)
(* comments of a group have the lines and the column of the group.         *)
(***************************************************************************)
RangeOf(f, g) == [col |-> f.groups[g].col, start |-> f.groups[g].start,
                  end |-> f.groups[g].end, group |-> g]

\* Mutant of Extract: one range for each group that has a nolint comment.
ExtractOnce(f) ==
  LET upTo[g \in 0 .. Len(f.groups)] ==
        IF g = 0 THEN <<>>
        ELSE upTo[g - 1] \o (IF f.groups[g].nolints = 0 THEN <<>> ELSE <<RangeOf(f, g)>>)
  IN  upTo[Len(f.groups)]
Extract(f) ==
  LET upTo[g \in 0 .. Len(f.groups)] ==
        IF g = 0 THEN <<>>
        ELSE upTo[g - 1] \o [n \in 1 .. f.groups[g].nolints |-> RangeOf(f, g)]
  IN  upTo[Len(f.groups)]

\* sort.Search over the indices 0 .. hi - 1: the binary search assumes that
\* the predicate is false up to some index and true from there.
Search(hi, P(_)) ==
  LET find[s \in (0 .. hi) \X (0 .. hi)] ==
        LET i == s[1]
            j == s[2]
            h == (i + j) \div 2
        IN  IF i >= j THEN i ELSE IF P(h) THEN find[<<i, h>>] ELSE find[<<h + 1, j>>]
  IN  find[<<0, hi>>]

\* Mutant of Near: the indentation is not looked at.
NearAnyColumn(range, node) == range.end = node.start - 1
Near(range, node) == node.col = range.col /\ range.end = node.start - 1

\* Mutant of Grown: the range takes the lines of the node instead.
GrownOver(range, node) == [range EXCEPT !.start = node.start, !.end = node.end]
Grown(range, node) ==
  [range EXCEPT !.start = IF @ > node.start THEN node.start ELSE @,
                !.end = IF @ < node.end THEN node.end ELSE @]

\* Mutant of Found: the search looks for a range that ends on the node's line.
FoundOnLine(rs, node) == 1 + Search(Len(rs), LAMBDA i : rs[i + 1].end >= node.start)
\* The first range, by the binary search, that ends on the line before the node
\* or later.  Indices start at 1 here.
Found(rs, node) == 1 + Search(Len(rs), LAMBDA i : rs[i + 1].end + 1 >= node.start)

Visited(rs, node) ==
  LET k == Found(rs, node)
  IN  IF k <= Len(rs) /\ Near(rs[k], node)
      THEN [rs EXCEPT ![k] = Grown(@, node)]
      ELSE rs

\* Mutant of SortedByEnd: the ranges stay in the order of their comments.
SortedByStart(rs) == {rs}
\* The orders sort.Sort may leave the ranges in: by their end, ties anyhow.
SortedByEnd(rs) ==
  {[k \in DOMAIN rs |-> rs[p[k]]] :
     p \in {q \in [DOMAIN rs -> DOMAIN rs] :
              /\ \A m, n \in DOMAIN rs : q[m] = q[n] => m = n
              /\ \A m, n \in DOMAIN rs : m < n => rs[q[m]].end <= rs[q[n]].end}}

-----------------------------------------------------------------------------
Init ==
  /\ file \in Files
  /\ ranges = Extract(file)
  /\ next = 1
  /\ walked = FALSE

Visit ==
  /\ next <= Len(file.nodes)
  /\ ranges' = Visited(ranges, file.nodes[next])
  /\ next' = next + 1
  /\ UNCHANGED <<file, walked>>

FinishWalk ==
  /\ next > Len(file.nodes)
  /\ ~walked
  /\ ranges' \in SortedByEnd(ranges)
  /\ walked' = TRUE
  /\ UNCHANGED <<file, next>>

Parsed == walked /\ UNCHANGED vars

Next == Visit \/ FinishWalk \/ Parsed

Spec == Init /\ [][Next]_vars
FairSpec == Spec /\ WF_vars(Next)

-----------------------------------------------------------------------------
(***************************************************************************)
(* What the README promises: a directive suppresses its own lines and, if  *)
(* it immediately precedes a statement at the same indentation, all lines  *)
(* of that statement.                                                      *)
(***************************************************************************)
Precedes(group, node) == node.col = group.col /\ node.start = group.end + 1

PromisedLines(f, g) ==
  (f.groups[g].start .. f.groups[g].end) \cup
  UNION {f.nodes[n].start .. f.nodes[n].end :
           n \in {m \in DOMAIN f.nodes : Precedes(f.groups[g], f.nodes[m])}}

Lines(range) == range.start .. range.end

\* The comment starts on a line of a node or of another comment that ends before it
\* does: it has several lines and follows a token on its first.
Overlaps(a, b) == a.start <= b.start /\ b.start <= a.end /\ a.end < b.end
SticksOut(f, g) ==
  \/ \E n \in DOMAIN f.nodes : Overlaps(f.nodes[n], f.groups[g])
  \/ \E h \in DOMAIN f.groups \ {g} : Overlaps(f.groups[h], f.groups[g])

\* The lines that are reached from line e over the first n nodes, in the order of
\* the walk: those of column col that start on the line after one that is reached.
Chained(f, col, e, n) ==
  LET reach[m \in 0 .. Len(f.nodes)] ==
        IF m = 0 THEN {e}
        ELSE reach[m - 1] \cup
               (IF f.nodes[m].col = col /\ f.nodes[m].start - 1 \in reach[m - 1]
                THEN {f.nodes[m].end} ELSE {})
  IN  reach[n]

\* The types of the ranges, and that extraction loses no nolint comment: at any
\* time every group has as many ranges as nolint comments (directives.go:163-186).
TypeOK ==
  /\ file \in [nodes : Seq(Node), groups : Seq(Group)]
  /\ next \in 1 .. Len(file.nodes) + 1
  /\ walked \in BOOLEAN
  /\ ranges \in Seq([col : Nat, start : Nat, end : Nat, group : DOMAIN file.groups])
  /\ \A g \in DOMAIN file.groups :
       Cardinality({k \in DOMAIN ranges : ranges[k].group = g}) = file.groups[g].nolints

\* However far a range grows, it starts at its comment and still covers the
\* comment's own lines, the line-level suppression of README.md:207-219: the
\* assignment to r.start at directives.go:136-138 never does anything.
KeepsOwnLines ==
  \A k \in DOMAIN ranges :
    LET g == file.groups[ranges[k].group]
    IN  ranges[k].start = g.start /\ ranges[k].end >= g.end

\* A range ends where its comment ends or where a statement of the comment's
\* column ends that is reached over adjacent statements of that column, each visited
\* after the one before it: the binary search, whose order the growing ranges break,
\* never lets one grow over anything else (directives.go:130-143).
GrowsOverNeighbours ==
  \A k \in DOMAIN ranges :
    ranges[k].end \in
      Chained(file, ranges[k].col, file.groups[ranges[k].group].end, next - 1)

\* Which directives get the statement they precede (README.md:223-226) in spite
\* of the broken order of the search: all but those that stand inside lines an
\* earlier range has grown over, or that share their group with another.
GrowsUnlessCovered ==
  walked =>
    \A k \in DOMAIN ranges :
      LET r == ranges[k]
      IN  \/ PromisedLines(file, r.group) \subseteq Lines(r)
          \/ \E m \in DOMAIN ranges \ {k} :
               \/ ranges[m].group = r.group
               \/ ranges[m].group < r.group /\ r.start \in Lines(ranges[m])

\* IsIgnored marks the first range that matches (directives.go:79-85), which is to
\* be the innermost one: of two ranges that share a line and end on different
\* lines, the first lies inside the second.  Two ranges cross only if the comment of
\* the later one is itself a node, as a doc comment is, so that the earlier range has
\* grown over it; if that comment sticks out of what the earlier range has grown
\* over; or if a range between them ends before both, behind which the search has
\* found the later one.
InnermostFirst ==
  walked =>
    \A m, n \in DOMAIN ranges :
      LET inner == ranges[m]
          outer == ranges[n]
      IN  m < n /\ Lines(inner) \cap Lines(outer) # {} /\ inner.end # outer.end
            => \/ Lines(inner) \subseteq Lines(outer)
               \/ /\ inner.group < outer.group
                  /\ \/ IsDoc(file, outer.group)
                     \/ SticksOut(file, outer.group)
                     \/ \E k \in DOMAIN ranges \ {m, n} :
                          /\ ranges[k].group \in inner.group .. outer.group
                          /\ ranges[k].end < inner.end

\* What README.md:223-226 says: a directive that immediately precedes a statement
\* at its own indentation suppresses the entire statement.
StatementSuppressed ==
  walked =>
    \A k \in DOMAIN ranges :
      PromisedLines(file, ranges[k].group) \subseteq Lines(ranges[k])
=============================================================================
