------------------------------- MODULE Pipeline -------------------------------
(***************************************************************************)
(* What happens to an issue after a worker has sent it to incomingIssues:  *)
(* maybeAggregateIssues, filterIssuesViaDirectives and maybeSortIssues,    *)
(* each a goroutine that reads one channel and writes the next, and the    *)
(* output function of main at the end (execute.go:77, main.go:232-240).    *)
(*                                                                         *)
(* The workers are the surroundings: they feed issues in any order and the *)
(* channel is closed at some time after main has begun to read; Scheduler  *)
(* says when.                                                              *)
(***************************************************************************)
EXTENDS Integers, Sequences, FiniteSets

CONSTANTS
  Reports,     \* the issues workers may send, one name for each
  ReportOf,    \* the fields of each: linter, path, line, severity, message
  Paths,       \* the files, relative to the working directory
  Directives,  \* per file, its ignored ranges sorted by their end
  Options,     \* the configurations, see OptionSet
  ChanCap      \* the capacity of a channel (1000000 in the code)

(***************************************************************************)
(* A configuration: --aggregate, --warn-unmatched-nolint, --errors, the    *)
(* output chosen by --json and --checkstyle, the keys of --sort, and       *)
(* whether the directories to lint were given as absolute paths.           *)
(***************************************************************************)
SortKeys == {"path", "line", "severity"}
OptionSet == [aggregate : BOOLEAN, warnUnmatched : BOOLEAN, errors : BOOLEAN,
              output : {"console", "json", "checkstyle"},
              sort : Seq(SortKeys), absolute : BOOLEAN]

ASSUME PipelineAssumption ==
  /\ IsFiniteSet(Reports) /\ IsFiniteSet(Paths)
  /\ ReportOf \in [Reports -> [linter : STRING, path : Paths, line : Nat,
                               severity : {"error", "warning"}, message : STRING]]
  /\ \A o \in Options : o \in OptionSet
  /\ ChanCap \in Nat \ {0}
ASSUME DirectivesAssumption ==
  Directives \in [Paths -> Seq([start : Nat, end : Nat, linters : SUBSET STRING])]
\* The name of a report is not that of a range, see Unmatched.
ASSUME NamesAssumption == \A r \in Reports : r \notin (Paths \X BOOLEAN) \X Nat

Channels == {"incoming", "aggregated", "filtered", "sorted"}

VARIABLES
  opts,        \* the configuration
  reading,     \* runLinters has returned and main reads the issues
  chan,        \* the contents of each channel
  closed,      \* the channels that are closed
  merging,     \* issueMap of the aggregating goroutine
  files,       \* the files the directive parser has read, by key
  matched,     \* the ranges with matched set, as <<key, index>>
  held,        \* the issue the filter has received and not yet sent
  unused,      \* the unmatched ranges still to be sent, once computed
  filterAt,    \* where the filtering goroutine is
  sorting,     \* the issues the sorting goroutine has collected
  received,    \* the issues the output function has received, in order
  status,      \* its result
  finished,    \* it has returned
  fed,         \* history: the reports sent to incoming
  suppressed   \* history: the issues a directive suppressed

vars == <<opts, reading, chan, closed, merging, files, matched, held, unused,
          filterAt, sorting, received, status, finished, fed, suppressed>>

filterVars == <<files, matched, held, unused, filterAt, suppressed>>
mainVars   == <<received, status, finished>>
envVars    == <<opts, reading, fed>>

-----------------------------------------------------------------------------
(***************************************************************************)
(* The directive parser.  A file is known by the path it was first parsed  *)
(* as: LoadFiles uses the globs of the directories to lint, IsIgnored the  *)
(* path relative to the working directory.                                 *)
(***************************************************************************)
LoadKey(path)  == <<path, opts.absolute>>
IssueKey(path) == <<path, FALSE>>
RangesOf(key)  == Directives[key[1]]

(***************************************************************************)
(* An issue on its way: its fields, and the reports it was made from.      *)
(***************************************************************************)
Issue(r, from) == [path |-> ReportOf[r].path, line |-> ReportOf[r].line,
                   severity |-> ReportOf[r].severity,
                   message |-> ReportOf[r].message, from |-> from]

Unmatched(key, k) == [path |-> key[1], line |-> RangesOf(key)[k].start,
                      severity |-> "warning",
                      message |-> "unmatched", from |-> {<<key, k>>}]

\* The linter name of an issue.  An aggregated issue has the names of several
\* reports joined by commas, which is the name of no linter.
NamedBy(i, linter) == \E r \in Reports : i.from = {r} /\ ReportOf[r].linter = linter

\* Mutant of SameKey: the severity is a part of the key.
SameKeySeverity(i, j) == /\ i.path = j.path /\ i.line = j.line
                         /\ i.message = j.message /\ i.severity = j.severity
\* issueKey.
SameKey(i, j) == i.path = j.path /\ i.line = j.line /\ i.message = j.message

\* Mutant of Merged: the issue is replaced instead of extended.
MergedLast(set, i) == {j \in set : ~SameKey(i, j)} \cup {i}
\* issueMap after an issue: an issue with the same key gets one more linter
\* and keeps its other fields, the severity of the first to arrive included.
Merged(set, i) ==
  IF \E j \in set : SameKey(i, j)
  THEN {IF SameKey(i, j) THEN [j EXCEPT !.from = @ \cup i.from] ELSE j : j \in set}
  ELSE set \cup {i}

\* Mutant of Matches: the end of the range is exclusive.
MatchesBeforeEnd(range, i) ==
  /\ range.start <= i.line /\ i.line < range.end
  /\ range.linters = {} \/ \E l \in range.linters : NamedBy(i, l)
Matches(range, i) ==
  /\ range.start <= i.line /\ i.line <= range.end
  /\ range.linters = {} \/ \E l \in range.linters : NamedBy(i, l)

MatchingRanges(i) ==
  {k \in DOMAIN Directives[i.path] : Matches(Directives[i.path][k], i)}

\* Mutant of Used: the range is not marked.
UsedNone(set, key, ks) == set
\* IsIgnored stops at the first range that matches and marks that one.
Used(set, key, ks) == set \cup {<<key, k>> : k \in {m \in ks : \A n \in ks : m <= n}}

AllRanges == UNION {{<<key, k>> : k \in DOMAIN RangesOf(key)} : key \in files}

\* Mutant of Unused: only the ranges of files that had an issue are looked at.
UnusedSeen == {u \in AllRanges \ matched : \E i \in suppressed : i.path = u[1][1]}
Unused == AllRanges \ matched

(***************************************************************************)
(* Sorting.  CompareIssue compares by the keys in turn.                    *)
(***************************************************************************)
PathRank == CHOOSE f \in [Paths -> 1 .. Cardinality(Paths)] :
              \A p, q \in Paths : f[p] = f[q] => p = q
SortValue(i, key) == CASE key = "path" -> PathRank[i.path]
                       [] key = "line" -> i.line
                       [] key = "severity" -> IF i.severity = "error" THEN 1 ELSE 2

Before(i, j, order) ==
  \E n \in DOMAIN order :
    /\ SortValue(i, order[n]) < SortValue(j, order[n])
    /\ \A m \in 1 .. n - 1 : SortValue(i, order[m]) = SortValue(j, order[m])

\* Mutant of SortOrder: checkstyle does not force an order.
SortOrderAsGiven == opts.sort
\* --checkstyle without --json forces the order by path.
SortOrder == IF opts.output = "checkstyle" THEN <<"path">> ELSE opts.sort

\* Mutant of Least: the issues leave in the order they came.
LeastAny(i) == TRUE
Least(i) == ~\E j \in sorting : Before(j, i, SortOrder)

-----------------------------------------------------------------------------
(***************************************************************************)
(* Channels.  A stage that is not configured is left out, and the next one *)
(* reads the channel before it.                                            *)
(***************************************************************************)
FilterIn == IF opts.aggregate THEN "aggregated" ELSE "incoming"
MainIn   == IF SortOrder # <<>> THEN "sorted" ELSE "filtered"

\* Mutant of HasRoom: a send never blocks.
HasRoomAlways(c) == TRUE
HasRoom(c)    == Len(chan[c]) < ChanCap
Drained(c)    == c \in closed /\ chan[c] = <<>>
Send(c, i)    == HasRoom(c) /\ chan' = [chan EXCEPT ![c] = Append(@, i)]
Receive(c, i) == chan[c] # <<>> /\ i = Head(chan[c]) /\ chan' = [chan EXCEPT ![c] = Tail(@)]
Close(c)      == c \notin closed /\ closed' = closed \cup {c}

Init ==
  /\ opts \in Options
  /\ reading = FALSE
  /\ chan = [c \in Channels |-> <<>>]
  /\ closed = {}
  /\ merging = {}
  /\ files = IF opts.warnUnmatched THEN {LoadKey(p) : p \in Paths} ELSE {}
  /\ matched = {}
  /\ held = {}
  /\ unused = {}
  /\ filterAt = "filtering"
  /\ sorting = {}
  /\ received = <<>>
  /\ status = 0
  /\ finished = FALSE
  /\ fed = {}
  /\ suppressed = {}

-----------------------------------------------------------------------------
(***************************************************************************)
(* The surroundings: main goes on to read, a worker sends an issue, the    *)
(* closer closes the channel.                                              *)
(***************************************************************************)
StartReading ==
  /\ ~reading
  /\ reading' = TRUE
  /\ UNCHANGED <<opts, chan, closed, merging, sorting, fed>>
  /\ UNCHANGED filterVars /\ UNCHANGED mainVars

Feed(r) ==
  /\ r \notin fed
  /\ "incoming" \notin closed
  /\ Send("incoming", Issue(r, {r}))
  /\ fed' = fed \cup {r}
  /\ UNCHANGED <<opts, reading, closed, merging, sorting>>
  /\ UNCHANGED filterVars /\ UNCHANGED mainVars

CloseIncoming ==
  /\ reading
  /\ Close("incoming")
  /\ UNCHANGED <<chan, merging, sorting>>
  /\ UNCHANGED envVars /\ UNCHANGED filterVars /\ UNCHANGED mainVars

-----------------------------------------------------------------------------
(***************************************************************************)
(* AggregateIssueChan.                                                     *)
(***************************************************************************)
Merge(i) ==
  /\ opts.aggregate
  /\ Receive("incoming", i)
  /\ merging' = Merged(merging, i)
  /\ UNCHANGED <<closed, sorting>>
  /\ UNCHANGED envVars /\ UNCHANGED filterVars /\ UNCHANGED mainVars

\* The issues leave in the order of a map, which is any.
EmitMerged(i) ==
  /\ Drained("incoming")
  /\ i \in merging
  /\ Send("aggregated", i)
  /\ merging' = merging \ {i}
  /\ UNCHANGED <<closed, sorting>>
  /\ UNCHANGED envVars /\ UNCHANGED filterVars /\ UNCHANGED mainVars

CloseAggregated ==
  /\ opts.aggregate
  /\ Drained("incoming")
  /\ merging = {}
  /\ Close("aggregated")
  /\ UNCHANGED <<chan, merging, sorting>>
  /\ UNCHANGED envVars /\ UNCHANGED filterVars /\ UNCHANGED mainVars

Aggregator == (\E i \in merging : EmitMerged(i)) \/ CloseAggregated
              \/ (chan["incoming"] # <<>> /\ Merge(Head(chan["incoming"])))

-----------------------------------------------------------------------------
(***************************************************************************)
(* filterIssuesViaDirectives.  A file is parsed for the first issue in it. *)
(***************************************************************************)
Filter(i) ==
  /\ filterAt = "filtering"
  /\ held = {}
  /\ Receive(FilterIn, i)
  /\ files' = files \cup {IssueKey(i.path)}
  /\ IF MatchingRanges(i) # {}
     THEN /\ matched' = Used(matched, IssueKey(i.path), MatchingRanges(i))
          /\ suppressed' = suppressed \cup {i}
          /\ UNCHANGED held
     ELSE /\ held' = {i}
          /\ UNCHANGED <<matched, suppressed>>
  /\ UNCHANGED <<closed, merging, unused, filterAt, sorting>>
  /\ UNCHANGED envVars /\ UNCHANGED mainVars

PassOn(i) ==
  /\ i \in held
  /\ Send("filtered", i)
  /\ held' = {}
  /\ UNCHANGED <<closed, merging, files, matched, unused, filterAt, suppressed,
                 sorting>>
  /\ UNCHANGED envVars /\ UNCHANGED mainVars

\* Mutant of FindUnused: the goroutine goes on to range over a closed channel.
FindUnusedForever ==
  /\ filterAt = "filtering" /\ held = {}
  /\ Drained(FilterIn)
  /\ UNCHANGED vars

FindUnused ==
  /\ filterAt = "filtering"
  /\ held = {}
  /\ Drained(FilterIn)
  /\ filterAt' = "warning"
  /\ unused' = IF opts.warnUnmatched THEN Unused ELSE {}
  /\ UNCHANGED <<chan, closed, merging, files, matched, held, suppressed, sorting>>
  /\ UNCHANGED envVars /\ UNCHANGED mainVars

WarnUnused(u) ==
  /\ u \in unused
  /\ Send("filtered", Unmatched(u[1], u[2]))
  /\ unused' = unused \ {u}
  /\ UNCHANGED <<closed, merging, files, matched, held, filterAt, suppressed,
                 sorting>>
  /\ UNCHANGED envVars /\ UNCHANGED mainVars

CloseFiltered ==
  /\ filterAt = "warning"
  /\ unused = {}
  /\ Close("filtered")
  /\ UNCHANGED <<chan, merging, sorting>>
  /\ UNCHANGED envVars /\ UNCHANGED filterVars /\ UNCHANGED mainVars

DirectiveFilter ==
  \/ chan[FilterIn] # <<>> /\ Filter(Head(chan[FilterIn]))
  \/ \E i \in held : PassOn(i)
  \/ FindUnused
  \/ \E u \in unused : WarnUnused(u)
  \/ CloseFiltered

-----------------------------------------------------------------------------
(***************************************************************************)
(* SortIssueChan.  Ties leave in any order: sort.Sort is not stable.       *)
(***************************************************************************)
Collect(i) ==
  /\ MainIn = "sorted"
  /\ Receive("filtered", i)
  /\ sorting' = sorting \cup {i}
  /\ UNCHANGED <<closed, merging>>
  /\ UNCHANGED envVars /\ UNCHANGED filterVars /\ UNCHANGED mainVars

EmitSorted(i) ==
  /\ Drained("filtered")
  /\ i \in sorting
  /\ Least(i)
  /\ Send("sorted", i)
  /\ sorting' = sorting \ {i}
  /\ UNCHANGED <<closed, merging>>
  /\ UNCHANGED envVars /\ UNCHANGED filterVars /\ UNCHANGED mainVars

CloseSorted ==
  /\ MainIn = "sorted"
  /\ Drained("filtered")
  /\ sorting = {}
  /\ Close("sorted")
  /\ UNCHANGED <<chan, merging, sorting>>
  /\ UNCHANGED envVars /\ UNCHANGED filterVars /\ UNCHANGED mainVars

Sorter == (\E i \in sorting : EmitSorted(i)) \/ CloseSorted
          \/ (chan["filtered"] # <<>> /\ Collect(Head(chan["filtered"])))

-----------------------------------------------------------------------------
(***************************************************************************)
(* outputToConsole, outputToJSON and outputToCheckstyle.                   *)
(***************************************************************************)
\* Mutant of IsShown: --errors has no effect.
IsShownAlways(i) == TRUE
IsShown(i) == opts.errors => i.severity = "error"

Output(i) ==
  /\ reading
  /\ Receive(MainIn, i)
  /\ received' = Append(received, i)
  /\ status' = IF IsShown(i) THEN 1 ELSE status
  /\ UNCHANGED <<closed, merging, sorting, finished>>
  /\ UNCHANGED envVars /\ UNCHANGED filterVars

FinishOutput ==
  /\ reading
  /\ ~finished
  /\ Drained(MainIn)
  /\ finished' = TRUE
  /\ UNCHANGED <<chan, closed, merging, sorting, received, status>>
  /\ UNCHANGED envVars /\ UNCHANGED filterVars

Main == FinishOutput \/ (chan[MainIn] # <<>> /\ Output(Head(chan[MainIn])))

-----------------------------------------------------------------------------
Terminated == finished /\ UNCHANGED vars

Next ==
  \/ StartReading
  \/ \E r \in Reports : Feed(r)
  \/ CloseIncoming
  \/ Aggregator
  \/ DirectiveFilter
  \/ Sorter
  \/ Main
  \/ Terminated

Spec == Init /\ [][Next]_vars

(***************************************************************************)
(* Every goroutine that can run does.  That main comes to read and the     *)
(* channel is closed is what Scheduler promises when no worker hangs.      *)
(***************************************************************************)
FairSpec ==
  /\ Spec
  /\ WF_vars(StartReading) /\ WF_vars(CloseIncoming)
  /\ WF_vars(Aggregator) /\ WF_vars(DirectiveFilter)
  /\ WF_vars(Sorter) /\ WF_vars(Main)

-----------------------------------------------------------------------------
(***************************************************************************)
(* Properties.                                                             *)
(***************************************************************************)
Messages == {ReportOf[r].message : r \in Reports} \cup {"unmatched"}
Items == [path : Paths, line : Nat, severity : {"error", "warning"},
          message : Messages,
          from : SUBSET (Reports \cup ((Paths \X BOOLEAN) \X Nat))]

\* The variables have their types and no channel holds more than it can.
TypeOK ==
  /\ opts \in Options
  /\ reading \in BOOLEAN /\ finished \in BOOLEAN
  /\ chan \in [Channels -> Seq(Items)] /\ \A c \in Channels : Len(chan[c]) <= ChanCap
  /\ closed \subseteq Channels
  /\ merging \cup held \cup sorting \cup suppressed \subseteq Items
  /\ files \subseteq Paths \X BOOLEAN
  /\ matched \subseteq AllRanges /\ unused \subseteq AllRanges
  /\ \A i, j \in held : i = j
  /\ filterAt \in {"filtering", "warning"}
  /\ received \in Seq(Items)
  /\ status \in {0, 1}
  /\ fed \subseteq Reports

IssuesIn(seq) == {seq[n] : n \in DOMAIN seq}
Holds(set, r) == \E i \in set : r \in i.from

\* The places where issues wait in line, and those where a stage keeps them.
Lines == [c \in Channels \cup {"received"} |->
            IF c = "received" THEN received ELSE chan[c]]
Pools == [p \in {"merging", "held", "sorting", "suppressed"} |->
            CASE p = "merging" -> merging [] p = "held" -> held
              [] p = "sorting" -> sorting [] OTHER -> suppressed]

\* Where a report is: in an issue in a channel, with a stage, received by main,
\* or suppressed.
Whereabouts(r) ==
  (UNION {{<<c, n>> : n \in {m \in DOMAIN Lines[c] : r \in Lines[c][m].from}} : c \in DOMAIN Lines})
    \cup (UNION {{<<p, i>> : i \in {j \in Pools[p] : r \in j.from}} : p \in DOMAIN Pools})

\* No report is lost or doubled on its way through the stages: at every moment
\* each is in exactly one place (aggregate.go:25-48, directives.go:191-202,
\* issue.go:156-163).
Accounted == \A r \in Reports :
  Cardinality(Whereabouts(r)) = IF r \in fed THEN 1 ELSE 0

\* The ranges that cover a report by themselves, whatever it is merged with.
CoversReport(range, r) ==
  /\ ReportOf[r].line \in range.start .. range.end
  /\ range.linters = {} \/ ReportOf[r].linter \in range.linters
Covering(r) == {k \in DOMAIN Directives[ReportOf[r].path] :
                  CoversReport(Directives[ReportOf[r].path][k], r)}

\* What is suppressed was covered by a directive, and without --aggregate
\* everything covered is suppressed (directives.go:22-35, 188-195).
SuppressesWhatItSays ==
  finished => \A r \in fed :
    /\ Holds(suppressed, r) => Covering(r) # {}
    /\ ~opts.aggregate /\ Covering(r) # {} => Holds(suppressed, r)

WarnedOf(path, k) == \E i \in IssuesIn(received), b \in BOOLEAN :
                       i.from = {<<<<path, b>>, k>>}

\* A range is reported as unmatched only if every report it covers was suppressed
\* by an earlier range, and one that covers no report is reported
\* (directives.go:90-99, 207-226).  With directories named absolutely every range
\* is reported, matched or not: the entry of the file that LoadFiles made is not
\* the one that IsIgnored looks at (directives.go:71, 106-113).
UnmatchedExact ==
  finished /\ opts.warnUnmatched /\ ~opts.aggregate =>
    \A path \in Paths : \A k \in DOMAIN Directives[path] :
      LET covered == {r \in fed : ReportOf[r].path = path /\ k \in Covering(r)}
      IN  WarnedOf(path, k) <=> opts.absolute \/ \A r \in covered : \E n \in Covering(r) : n < k

\* The output follows the order asked for (issue.go:127-166).
SortedOutput ==
  finished => \A m, n \in DOMAIN received :
                m < n => ~Before(received[n], received[m], SortOrder)

\* A file has one element in the checkstyle output, although the code only
\* compares each issue with the one before it (checkstyle.go:35-60,
\* main.go:258-263).
OneElementPerFile ==
  finished /\ opts.output = "checkstyle" =>
    \A l, m, n \in DOMAIN received :
      l < m /\ m < n /\ received[l].path = received[n].path
        => received[m].path = received[l].path

\* The reports that leave as one issue with a report.
Company(r) ==
  {q \in fed : \/ q = r
               \/ /\ opts.aggregate
                  /\ ReportOf[r].path = ReportOf[q].path
                  /\ ReportOf[r].line = ReportOf[q].line
                  /\ ReportOf[r].message = ReportOf[q].message}

\* With --aggregate, reports with the same position and message are printed as one
\* issue or, if a directive covers them, suppressed as one (aggregate.go:25-41).
MergedTogether ==
  finished =>
    \A r \in fed : \E i \in IssuesIn(received) \cup suppressed : Company(r) \subseteq i.from

\* A directive silences a report if it covers it and names no linter, or if the report
\* is not merged with others.
Silent(r) ==
  \E k \in Covering(r) : Company(r) = {r} \/ Directives[ReportOf[r].path][k].linters = {}
IsError(r) == ReportOf[r].severity = "error"

\* Bit 0 of the status says whether there was something to show: a report that is not
\* silent, an error if --errors is given, or a warning about a directive.  Only if
\* merged reports differ in severity does it depend on which of them came first
\* (aggregate.go:34, main.go:286-296, README.md:275).
StatusTells ==
  finished =>
    LET warning == ~opts.errors /\ \E path \in Paths : \E k \in DOMAIN Directives[path] : WarnedOf(path, k)
        shown   == {r \in fed : ~Silent(r)}
    IN  /\ status = 1 => warning \/ \E r \in shown : opts.errors => \E q \in Company(r) : IsError(q)
        /\ warning \/ (\E r \in shown : opts.errors => \A q \in Company(r) : IsError(q)) => status = 1

\* The output ends once the workers have (execute.go:77, main.go:232-240).
Finishes == <>finished

\* A directive that names the linter suppresses its message on that line, as
\* "Comment directives" in the README says (README.md:211).
NolintSuppresses ==
  finished => \A r \in fed : Covering(r) # {} => Holds(suppressed, r)

=============================================================================
