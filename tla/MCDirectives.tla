----------------------------- MODULE MCDirectives -----------------------------
(* Small files for Directives: a package clause on line 2, so that the file   *)
(* itself is a node from line 2 to the last line, at most two declarations at *)
(* column 1 below it, at most two statements at column 2 inside them; and two *)
(* files with what these leave out.                                           *)
EXTENDS Directives, SequencesExt

CONSTANTS LastLine, MaxGroups

Body == 3 .. LastLine

At(col, s, e) == [col |-> col, start |-> s, end |-> e]

Places(col, lines) ==
  {n \in [col : {col}, start : lines, end : lines] : n.start <= n.end}

Apart(a, b) == a.end < b.start \/ b.end < a.start
Within(a, b) == b.start < a.start /\ a.end < b.end

UpToTwo(S) ==
  {T \in UNION {kSubset(k, S) : k \in 0 .. 2} : \A a, b \in T : a = b \/ Apart(a, b)}

Decls == UpToTwo(Places(1, Body))
Stmts(decls) == UpToTwo({s \in Places(2, Body) : \E d \in decls : Within(s, d)})

\* A comment of its own lines stands outside every declaration at column 1, or
\* inside one and outside every statement at column 2; a comment at column 3
\* follows the last token of a declaration or statement on its last line.
OwnLines(decls, stmts) ==
  {g \in Places(1, Body) : g.end <= g.start + 1 /\ \A d \in decls : Apart(g, d)} \cup
  {g \in Places(2, Body) : /\ g.end <= g.start + 1
                           /\ \E d \in decls : Within(g, d)
                           /\ \A s \in stmts : Apart(g, s)}
Trailing(decls, stmts) == {At(3, n.end, n.end) : n \in decls \cup stmts}

\* Comments on adjacent lines are one group unless one of them follows a token.
Separate(a, b) ==
  /\ Apart(a, b)
  /\ a.col # 3 /\ b.col # 3 => a.end + 1 < b.start \/ b.end + 1 < a.start

Comments(decls, stmts) ==
  LET all == OwnLines(decls, stmts) \cup Trailing(decls, stmts)
      own == UNION {kSubset(k, all) : k \in 0 .. MaxGroups}
  IN  {c \in own \cup {o \cup {At(1, 1, 1)} : o \in own} :
         c # {} /\ \A a, b \in c : a = b \/ Separate(a, b)}

InOrder(S) ==
  SetToSortSeq(S, LAMBDA a, b : a.start < b.start \/ (a.start = b.start /\ a.col < b.col))

\* Every declaration is a function: it is visited before its doc comment, its
\* signature, on its first line, and the statements of its body after it.
NodesOf(decls, stmts, comments) ==
  LET doc(d) == {c \in comments : c.col = 1 /\ c.end = d.start - 1}
      pkg == At(1, 2, LastLine)
      visit(d) == <<d>> \o InOrder(doc(d)) \o <<At(1, d.start, d.start)>>
                  \o InOrder({s \in stmts : Within(s, d)})
      order == InOrder(decls)
  IN  <<pkg>> \o InOrder(doc(pkg)) \o FlattenSeq([k \in DOMAIN order |-> visit(order[k])])

\* counts is the number of nolint comments in each group.
FileWith(decls, stmts, comments, counts) ==
  [nodes  |-> NodesOf(decls, stmts, comments),
   groups |-> LET c == InOrder(comments)
              IN  [g \in DOMAIN c |->
                    [col |-> c[g].col, start |-> c[g].start, end |-> c[g].end,
                     nolints |-> counts[g]]]]

FilesWith(Counts(_)) ==
  UNION {UNION {UNION {{FileWith(decls, stmts, comments, counts) :
                          counts \in Counts(Cardinality(comments))} :
                        comments \in Comments(decls, stmts)} :
                 stmts \in Stmts(decls)} : decls \in Decls}

Commented(col, s, e) == [col |-> col, start |-> s, end |-> e, nolints |-> 1]

\* package p
\* func f() {
\*     if a {
\*         // nolint
\*         x = g(T{
\*             // nolint
\*             1,
\*         }, y) // nolint
\*     } else if b {
\*         x = y
\*     }
\* }
\* The column of the last comment is that of the second if.
ElseIf ==
  [nodes  |-> <<At(1, 1, 12), At(9, 1, 1), At(1, 2, 12), At(6, 2, 2), At(1, 2, 2), At(7, 2, 2),
                At(10, 2, 12), At(2, 3, 11), At(5, 3, 3), At(7, 3, 9),
                At(3, 5, 8), At(3, 5, 5), At(7, 5, 8), At(7, 5, 5), At(9, 5, 8), At(9, 5, 5),
                At(4, 7, 7), At(6, 8, 8), At(9, 9, 11), At(12, 9, 9), At(14, 9, 11),
                At(3, 10, 10), At(3, 10, 10), At(7, 10, 10)>>,
   groups |-> <<Commented(3, 4, 4), Commented(4, 6, 6), Commented(9, 8, 8)>>]

\* package p
\* func f() {
\*     // nolint
\*     x = 1 /* two
\*     lines */ // nolint
\* }
TwoLines ==
  [nodes  |-> <<At(1, 1, 6), At(9, 1, 1), At(1, 2, 6), At(6, 2, 2), At(1, 2, 2), At(7, 2, 2),
                At(10, 2, 6), At(2, 4, 4), At(2, 4, 4), At(6, 4, 4)>>,
   groups |-> <<Commented(2, 3, 3), Commented(8, 4, 5)>>]

\* Each group has a nolint comment or none, or the first has two and the rest one.
MCFiles  == {ElseIf, TwoLines} \cup FilesWith(LAMBDA n : [1 .. n -> 0 .. 1] \cup {[g \in 1 .. n |-> IF g = 1 THEN 2 ELSE 1]})
\* One nolint comment in every group.
MCNested == FilesWith(LAMBDA n : {[g \in 1 .. n |-> 1]})
=============================================================================
