-------------------------- MODULE Pipeline_invariant --------------------------
(***************************************************************************)
(* The inductive invariant behind the properties of Pipeline: in which     *)
(* order the stages finish, where each report is, what the issues in each  *)
(* place are, and what the stages have recorded about them.                *)
(***************************************************************************)
EXTENDS Pipeline

\* A stage sends nothing to the next one before it may and nothing after it has
\* closed the channel; a stage that is not configured is never used.
InOrder ==
  /\ ~opts.aggregate =>
       merging = {} /\ chan["aggregated"] = <<>> /\ "aggregated" \notin closed
  /\ MainIn # "sorted" =>
       sorting = {} /\ chan["sorted"] = <<>> /\ "sorted" \notin closed
  /\ opts.aggregate /\ ~Drained("incoming") =>
       /\ chan["aggregated"] = <<>> /\ "aggregated" \notin closed
       /\ held = {} /\ suppressed = {} /\ sorting = {}
       /\ chan["filtered"] = <<>> /\ chan["sorted"] = <<>> /\ received = <<>>
  /\ "aggregated" \in closed => Drained("incoming") /\ merging = {}
  /\ filterAt = "filtering" => unused = {} /\ "filtered" \notin closed
  /\ filterAt = "warning" => Drained(FilterIn) /\ held = {}
  /\ "filtered" \in closed => unused = {}
  /\ MainIn = "sorted" /\ ~Drained("filtered") =>
       chan["sorted"] = <<>> /\ received = <<>> /\ "sorted" \notin closed
  /\ "sorted" \in closed => Drained("filtered") /\ sorting = {}
  /\ finished => Drained(MainIn)

\* A report is in at most one place of the lines L and the pools P.
OnLine(L, r) == \E c \in DOMAIN L : \E n \in DOMAIN L[c] : r \in L[c][n].from
InPool(P, r) == \E p \in DOMAIN P : \E i \in P[p] : r \in i.from

OncePlaced(L, P, r) ==
  /\ \A c, d \in DOMAIN L : \A m \in DOMAIN L[c], n \in DOMAIN L[d] :
       r \in L[c][m].from /\ r \in L[d][n].from => c = d /\ m = n
  /\ \A p, q \in DOMAIN P : \A i \in P[p], j \in P[q] :
       r \in i.from /\ r \in j.from => p = q /\ i = j
  /\ ~(OnLine(L, r) /\ InPool(P, r))

\* The reports in S, and no others, have a place, and each has one.
Placed(L, P, S) ==
  \A r \in Reports : /\ OncePlaced(L, P, r)
                     /\ OnLine(L, r) \/ InPool(P, r) <=> r \in S

\* What an issue is before the filter: it has the position and the message of every
\* report in it and the severity of one, and is a single report without --aggregate.
IsReported(i) ==
  /\ i.from \subseteq Reports
  /\ \E r \in i.from : i.severity = ReportOf[r].severity
  /\ \A r \in i.from : /\ i.path = ReportOf[r].path /\ i.line = ReportOf[r].line
                       /\ i.message = ReportOf[r].message
  /\ ~opts.aggregate => \E r \in Reports : i.from = {r}

\* What it is after the filter: not suppressed, or a warning about a directive.
IsWarning(i) == \E u \in AllRanges : i = Unmatched(u[1], u[2])
IsLetThrough(i) == (IsReported(i) /\ MatchingRanges(i) = {}) \/ IsWarning(i)

BeforeFilter == IssuesIn(chan["incoming"]) \cup merging \cup IssuesIn(chan["aggregated"])
AfterFilter  == IssuesIn(chan["filtered"]) \cup sorting
                \cup IssuesIn(chan["sorted"]) \cup IssuesIn(received)

IssuesAsReported ==
  /\ \A i \in IssuesIn(chan["incoming"]) : \E r \in Reports : i = Issue(r, {r})
  /\ \A i \in BeforeFilter : IsReported(i)
  /\ \A i \in held : IsReported(i) /\ MatchingRanges(i) = {}
  /\ \A i \in suppressed : IsReported(i) /\ MatchingRanges(i) # {}
  /\ \A i \in AfterFilter : IsLetThrough(i)

\* issueMap has one issue for each key, and an issue that has left the first channel
\* takes all its company with it, except for what is still in that channel.
Everything == BeforeFilter \cup held \cup suppressed \cup AfterFilter
TogetherBut(S) ==
  \A i \in Everything \ IssuesIn(chan["incoming"]) : \A r \in i.from \cap Reports :
    Company(r) \subseteq i.from \cup S
InFirst == {r \in Reports : \E i \in IssuesIn(chan["incoming"]) : r \in i.from}
OneForEachKey ==
  opts.aggregate =>
    /\ \A i, j \in merging : SameKey(i, j) => i = j
    /\ TogetherBut(InFirst)

\* The first matching range of every suppressed issue is marked, and no other is; the
\* files are those loaded at the start and those that had an issue.
MarkedFirst(path, k) ==
  \E i \in suppressed : /\ i.path = path /\ k \in MatchingRanges(i)
                        /\ \A n \in MatchingRanges(i) : k <= n
MarksAreRight ==
  /\ \A u \in matched : u[1][2] = FALSE
  /\ \A path \in Paths : \A k \in DOMAIN Directives[path] :
       <<IssueKey(path), k>> \in matched <=> MarkedFirst(path, k)
  /\ opts.warnUnmatched => \A path \in Paths : LoadKey(path) \in files
  /\ \A key \in files : key[2] => opts.absolute

\* Every range that is not marked at the end of the filter is still to be warned
\* about, or the warning is on its way or has been received.
WarnedAbout(u) == u \in unused \/ \E i \in AfterFilter : i.from = {u}
WarningsAreRight ==
  /\ filterAt = "filtering" => \A i \in AfterFilter : IsReported(i)
  /\ filterAt = "warning" =>
       \A u \in AllRanges : WarnedAbout(u) <=> opts.warnUnmatched /\ u \notin matched

\* What has left the sorting stage is in order, and nothing in it comes before that.
SortedSoFar(seq) ==
  \A m, n \in DOMAIN seq : m < n => ~Before(seq[n], seq[m], SortOrder)
NotBefore(later, earlier) ==
  \A i \in later, j \in earlier : ~Before(i, j, SortOrder)
InSortOrder ==
  /\ SortedSoFar(received) /\ SortedSoFar(chan["sorted"])
  /\ NotBefore(IssuesIn(chan["sorted"]), IssuesIn(received))
  /\ NotBefore(sorting, IssuesIn(chan["sorted"]) \cup IssuesIn(received))

\* The status says whether an issue has been shown.
StatusIsRight == status = 1 <=> \E i \in IssuesIn(received) : IsShown(i)

\* The inductive invariant of the proofs (aggregate.go:25-48, directives.go:186-226,
\* issue.go:145-166, main.go:232-298).
Inv ==
  /\ TypeOK
  /\ InOrder
  /\ Placed(Lines, Pools, fed)
  /\ IssuesAsReported
  /\ OneForEachKey
  /\ MarksAreRight
  /\ WarningsAreRight
  /\ InSortOrder
  /\ StatusIsRight
===============================================================================
