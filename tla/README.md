# gometalinter in TLA+

gometalinter runs many Go linters side by side, turns what they print into
issues, drops those that a `nolint` comment suppresses, and prints the rest in
one format. These modules model the program from its command line to its exit
status: how flags and files become a configuration, how the linters and the
directories are chosen, how the goroutines run the linters, what is made of
their output, the chain of channels the issues pass, and the way a comment's
lines are found.

Line numbers refer to the files in `src/`.

## The system's parts

| Part | State it keeps | Operations | What makes it correct |
|---|---|---|---|
| **Scheduler**: `runLinters`, `executeLinter` (execute.go:67-185), the end of `main` (main.go:232-247) | the linters not yet reached, the partitions of the current one, a semaphore `concurrencych`, a WaitGroup, the channels `incomingIssues` and `errch`, a timer per linter, a process per worker | range over the linters, split one, spawn a worker, start, wait or kill, send issues or an error, release the slot, close the channels, read issues, read errors, exit | never more processes than slots; nothing sent on a closed channel; each partition reported or failed once; every failure told; nothing left behind; it ends |
| **Pipeline**: aggregation (aggregate.go), directive filter (directives.go:69-99, 188-226), sorting (issue.go:112-166), output (main.go:286-315, checkstyle.go) | a channel between each two stages, the map of merged issues, the parser's files and which ranges matched, the issues being sorted, the status | receive, merge, filter, warn of unmatched directives, sort, output, close | no issue lost or doubled; directives suppress what they say; warnings exact; order; status |
| **Directive parser** (directives.go:118-186) | the ranges of one file | extract a range per comment, grow over the node that follows, sort by end | a range covers its comment and the statement it precedes, no other |
| **Commands and output**: `Vars`, `parseCommand`, `processOutput` (execute.go:19-65, 187-275) | the words of the command, the variables of the hits so far | replace variables, split into words; one issue per hit, overrides, `--exclude` and `--include` | the words are those written; the fields of an issue are those of its hit |
| **Partitions** (partition.go) | the command line being filled | split the paths into command lines of bounded size, by five strategies | every path once, in order, within the size |
| **Configuration** (main.go:35-143, config.go) | the global `config` | defaults, files, flags, enable and disable, in the order kingpin calls them | what is given later and more specifically wins |
| **Linter registry** (linters.go:30-92, 168-201, main.go:386-399) | the table of linters | override, look up, enable | the linters asked for, each with its settings |
| **Path resolution** (main.go:317-384) | a set of paths | walk the tree, skip, make relative | every package once, none skipped by accident |
| **Installer and environment** (linters.go:94-166, main.go:401-515) | GOPATH, GOBIN, PATH | install vendored or fetched linters, one by one or together; set up the environment | success is told only if all are installed, where a later run finds them |

How they interact: `main` reads the configuration, resolves the paths, looks up
the linters and calls `runLinters`. That builds the pipeline first: three
goroutines joined by channels. Then it runs the loop of the scheduler, in which
each linter's paths are partitioned and one worker per partition is started;
the workers write to the first channel of the pipeline, and their errors to
`errch`. Only when the loop is over does `main` read the last channel of the
pipeline, and only when that is closed does it read `errch`. The directive
parser is called by the filter, under a lock, once per file.

What is hard about it: the workers, the loop, the closing goroutine and `main`
wait for one another over four bounded resources (slots, the two channels, the
timers); a linter may never return, may return just as its deadline expires,
may fail to start or print nonsense; the stages of the pipeline keep issues
back until their input is closed; the parser searches an array by binary search
while it changes the values the array is sorted by. Before all that, the library
that reads the command line goes over it twice, so that what a flag does and
when depends on its kind. `PROJECT.json` lists these hazards, each at its line,
with the properties aimed at it.

## The modules

| Module | Models | Run by |
|---|---|---|
| `LintPromise` | what one invocation promises, without goroutines | (the abstract side of `Scheduler!KeepsPromise`) |
| `Scheduler` | execute.go:67-185, main.go:232-247 | `MCScheduler`, three runs |
| `Scheduler_proofs` | the theorems about `Scheduler`, and that it implements `LintPromise` | the proof system |
| `Pipeline` | the stages and the output | `MCPipeline`, two runs |
| `Pipeline_invariant` | its inductive invariant | with `Pipeline` |
| `Pipeline_proofs` | that it is inductive, and what follows from it | the proof system |
| `Invocation` | extends `Scheduler` by the channels of the stages | `MCInvocation`, one run |
| `Invocation_proofs` | that it implements `Scheduler`, and the theorems about the stages' channels | the proof system |
| `Directives` | the lines of a directive, directives.go:23-67, 118-186 | `MCDirectives`, two runs |
| `Directives_proofs` | the theorems about `Directives` | the proof system |
| `Output` | commands and output, execute.go:19-65, 187-275 | `MCOutput`, one run |
| `Output_proofs` | the theorems about `Output`: the scanner, the variables and the issues | the proof system |
| `Partition` | partition.go | with `Paths` |
| `Partition_proofs` | the theorems about `Partition` and about `Paths`, from the walk to the command lines | the proof system |
| `Paths` | extends `Partition` by the walk, main.go:317-384 | `MCPaths`, one run |
| `Configuration` | flags and files, main.go:35-143, config.go:143-192 | with `Startup` |
| `Startup` | extends `Configuration` by installation, environment and the choice of linters, linters.go:30-201, main.go:222-232, 386-499 | `MCStartup`, two runs |
| `Startup_proofs` | the theorems about `Configuration` and `Startup` | the proof system |
| `SequenceLemmas` | lemmas for the proofs: induction over the natural numbers, and what the library's recursive operators on sequences do | the proof system |

### Scheduler

A *source* is something an error can come from: `<<l, 0>>`, the splitting of
linter `l`, or `<<l, k>>`, its `k`-th partition. `pc` says where each source is;
for a partition it is the program counter of its worker:

    none -> ready -> running -> reporting -> leaving -> released -> done
              |         |                       ^
              +---------+------> failed --------+

| Action | Code |
|---|---|
| `Split`, `SplitFails`, `SendSplitError` | one turn of the loop, execute.go:98-113; the deadline starts here |
| `Spawn` | `wg.Add`, the send on `concurrencych`, `go`, 115-120 |
| `Start`, `StartFails` | `executeLinter` up to `cmd.Start`, 140-161 |
| `Collect`, `Deadline` | the two cases of the select, 164-175 |
| `ReportIssue`, `SkipIssue`, `FatalHit`, `FinishReport` | one hit of `processOutput`, 216-274, and its end |
| `SendError`, `Release`, `Done` | 121-126 |
| `StartCloser`, `CloseIssues`, `CloseErrors` | 132-136 |
| `FinishOutput`, `WarnError`, `Exit` | main.go:232-247 |
| `TakeIssue`, `ProcessExits`, `TimerFires` | the first stage of the pipeline, a linter, the clock |

Two simplifications keep it small. `wg.Add(1)` is one step with the send that
follows, since nobody reads the WaitGroup before the loop is over. And the
issues that main's output function reads come from `incoming` directly;
`Invocation` puts the stages between.

### Pipeline

An issue is a record of the fields the stages look at and of `from`, the
reports it was made from, by which the properties follow it. Each stage has a
group of variables (`merging`; `files`, `matched`, `held`, `unused`,
`filterAt`; `sorting`) and a disjunct of `Next`; a stage that is switched off is
bypassed by `FilterIn` or `MainIn`, like `maybeAggregateIssues` and
`maybeSortIssues` do. The configuration is chosen in `Init`. The order of a
`range` over a map and of ties in `sort.Sort` is any.

A file is known to the directive parser by the path it was parsed under, so
`files` holds keys `<<path, absolute?>>`: `LoadFiles` uses the directories as
given, `IsIgnored` the path relative to the working directory.

### Invocation

`Scheduler` with the stages of the pipeline behind `incoming`, each with its
channel: `Take`, `Pass`, `FinishTaking` and `CloseStage` are the loop and the end
of one stage's goroutine, `ReadOutput` is main's output function. What a stage
does to an issue is the subject of `Pipeline`; here `kept` counts what it has
taken and not passed on, and `After` says how taking one may change the count: the
aggregation may merge it with one it has, the filter may drop it. Every step of
`Invocation` is a step of `Scheduler` or changes none of its variables (`Take` of
the first stage is `TakeIssue`, and `MainStep` only delays the end of main's
reading), so the invariants proved of `Scheduler` hold here too
(`ImplementsScheduler`). What `Invocation` adds is the wait in the other
direction: main reads the last channel only after its loop, so the stages fill up
behind the workers whose slots the loop waits for.

### Directives

One state machine per file: `Init` extracts the ranges, `Visit` is one call of
`rangeExpander.Visit`, `FinishWalk` the `sort.Sort` in `parseFile`'s callers.
`Search` is the binary search itself and not "the first that satisfies",
because the array it works on does not stay sorted. A node is a syntax node's
column, first and last line; the file is one, and so are doc comments, which
`ast.Walk` visits after the declaration and before its signature. Of two nodes
that start at one place the walk visits the outer one first, and only signatures
and doc comments come after a node that starts below them (`FilesAssumption`);
a file with `//line` comments, after which positions start anew, is left out.

### Output

One worker with its linter: `ParseCommand` replaces the variables in the
command and splits it into words, `ProcessHit` is one turn of the loop over
the matches, `FatalHit` the number that does not fit. A text is a sequence of
runes, of which only those matter that are special to the scanner, and
placeholders. `Scan` is one rune of shlex. `Replace` takes an order of the
variables, since Go ranges over the map in any.

A linter's command is given as the words someone wants to write, each with a
way of writing it (bare, in quotes, with quotes inside the word, or raw), so
that `WordsAsWritten` can say that the words come back. It and
`UnfinishedFails` speak of the text that is scanned, `Read`: the command with all
variables replaced at once, which is what is scanned if no configured value has
the form of a placeholder (`PlainVars`).

### Partition

One command line after another: `Begin` is the work of a strategy before its
first `add`, `Add` is `sizePartitioner.add`, `End` its `end`; the two strategies
that take directories one by one have `AddDirectory` and `EndDirectories`. Only
the arguments are kept, with their lengths in bytes.

Those two strategies build each command line with `append(cmdArgs, ...)`, which
writes into the array of the base words if that has room. `spare` is that room
and `tail` what it holds; a part that is `shared` is run with what `tail` holds
in the end (`Run`). `RunAsBuilt` says exactly which command lines come out
wrong: those short enough for the room, if a later one is short enough too.
Since Go doubles an array that is full, room is left only for bases longer than
any built-in linter's, but a configured linter may have one.

### Paths

A path is a sequence of names, with "/" in front if it is absolute. `AddPath` and
`WalkTree` take one argument each; a walk visits what is `pending`, in lexical
order (`VisitDir`, `VisitFile`, `VisitUnreadable`), and `Resolve` sorts the set
that results. Of the links, only the root of a walk is looked up as what it leads
to, since `resolvePaths` puts a slash behind it (`Place`); a link that is met
below is a file, whose name may end in .go. Names that begin with a dot or an
underscore are skipped, but only those with a dot go without "./" in front
(`DotNames`, `UnderNames`). The paths are the input of `Partition`, so that
`EveryFileIsLinted` can follow a file from the tree to a command line.
`FindsItsDirectories` gives the result of a walk without walking: the files of the
tree that have no skipped directory above them and come before the first thing
that cannot be read.

### Configuration and Startup

kingpin goes over the command line twice: `Reset` and `SetValue` set the values
of all flags, `LoadDefaultConfig` is the action of the application and `Act`
the action of one flag. The flags are one of each kind: a single value
(`--fast`), a list (`--exclude`), a map (`--severity`) and those with actions,
which are all there. A file is the set of keys it has. `Startup` goes on from
the configuration: `PrepareInstall`, `InstallTogether`, `InstallOne`,
`InstallEnds`, or `ConfigureEnvironment`, `ProcessConfig`, `LintersFromConfig`,
`ValidateLinters`.

The properties speak of what was said, not of how it is processed: `Story` is
the default file followed by the flags, `AskedFor(l)` the last word in it about
a linter, `SeverityInForce(l)` the last value given to a key.

## The runs

| Run | Instance | Shows |
|---|---|---|
| `scheduler_safety` | 2 linters of 0 to 2 partitions, 2 slots, an issue channel of 1, a process prints a good hit or a malformed one; the linters are symmetric | `TypeOK`, `Inv` (the invariant of the proofs), `ConcurrencyBound`, `NoSendOnClosed`, `LeavesNothing`, `OneKillPerLinter`, and the refinement `KeepsPromise` |
| `scheduler_errors` | 1 linter with several partitions that may all fail | `FailureIsTold` does **not** hold |
| `scheduler_deadline` | linters that need not return | `CancelledAtDeadline` does **not** hold |
| `pipeline_safety` | 5 reports of 2 linters in 2 files, 3 ranges, 33 configurations, channels of 2 | `Inv` (the invariant of the proofs), `Accounted`, `SuppressesWhatItSays`, `UnmatchedExact`, `SortedOutput`, `OneElementPerFile`, `MergedTogether`, `StatusTells`, `Finishes` |
| `pipeline_aggregate` | the same with `--aggregate` | `NolintSuppresses` does **not** hold |
| `directives_safety` | all files of 7 lines with a package clause, up to 2 functions, 2 statements, a package comment and 2 other comment groups with 0 to 2 nolint comments; and two longer files with a comment inside a statement and one of two lines | `TypeOK`, `KeepsOwnLines`, `GrowsOverNeighbours`, `GrowsUnlessCovered`, `InnermostFirst` |
| `directives_nested` | the same, one nolint comment per group | `StatementSuppressed` does **not** hold |
| `config_safety` | 2 built-in linters and 1 defined by the user, every command line of up to 3 of 20 flags with values, 4 surroundings of default files, and 24 environments for the installation | `ValuesInForce`, `RunsWhatWasAsked`, `StopsForBadLinters`, `InstalledIsFound` |
| `config_order` | the same with 2 flags | `FlagAfterFileWins` does **not** hold |
| `output_safety` | commands of up to 3 words in 5 ways of writing, outputs of up to 3 hits of a pattern with two alternatives for the path, with and without override, severity, `--exclude`, `--include` | `WordsAsWritten`, `UnfinishedFails`, `OverrideShowsLastMatch`, `ReportsItsHits` |
| `paths_safety` | up to 2 of 10 arguments over a tree of 11 directories with hidden, skipped, linked, empty and unreadable ones, and a name that is no glob; 5 strategies, 3 values of GOPATH, room for 0 to 2 words | `FindsItsDirectories`, `EveryFileIsLinted`, `Inv` (of `Partition`, as the next three), `FilledToLimit`, `NothingLost`, `RunAsBuilt` |
| `invocation_ends` | 2 linters of 0 or 1 partition that print nothing, a malformed hit or 4 issues and need not return, 1 slot, all combinations of stages, channels of 1 | `FlowInv` (the invariant of the proofs), `NothingUnread`, `NoErrorBlocks`, `EndsUnlessOutOfRoom`, `OutOfRoomForGood` |

Deadlock is checked in all runs but `scheduler_safety`, `scheduler_errors`,
`scheduler_deadline` and `invocation_ends`. With several partitions per linter
the program really may stop, which is what `scheduler_errors` is about; and it
may run out of room, which is `OutOfRoom` of `Invocation`.

### Bounds

Two linters of two partitions are the least at which errors outnumber the room
in `errch` (2) with two slots in use, at which two partitions share a timer,
and at which workers of different linters overlap. An issue channel of one
makes every second send block. The error channel has its real capacity, the
number of linters.

`invocation_ends` has two linters and one slot, so that the loop waits for a
slot that only a deadline or the pipeline gives back. Two channels of one and
the issue in the filter's hands take three issues before main reads: four from
the first linter leave it blocked with the slot the second one needs. With
channels of the real 1000000 the number is 2000001.

In the pipeline five reports over channels of two fill every channel. Two of
the reports agree in everything but linter and severity, so that they merge;
three ranges overlap, end where a report is, and name one linter or none.

In `Directives` seven lines are enough for a directive above a function that
contains a directive above a statement, for two statements in a row below a
directive, and for two functions with doc comments in a row. They are not enough
for three comments around the parts of one statement, nor is there a comment that begins
behind a token and ends on a later line: `ElseIf` and `TwoLines` are files that have
them. Each exception of `InnermostFirst` is needed for some file of the run.

In `paths_safety` the base of a command line has 3 bytes and the command line 10,
which some lists reach exactly and others overstep by one. `Partition` assumes
that the base and any single argument fit a command line (`PartitionAssumption`):
Linux takes paths of at most 4096 bytes, and the code's limit is 32000.

In `config_safety` three flags are enough for one word about a linter before a
file and one after it, and for a definition, an enabling and `--fast`. In
`output_safety` three hits let a group match, not match and be printed, with
another hit between.

### Fairness

`FairSpec` of `Scheduler` and `InvocationSpec` assume that every goroutine that
can run does and that timers fire: weak fairness of main, of each worker, of
the closer, of the reading of the pipeline or of each stage, and of each timer.
Neither assumes that a linter's process ever ends; only `scheduler_errors` adds
that, so that the standstill it shows cannot be blamed on the linters. In
`Pipeline`, each goroutine is weakly fair, and so are the two things it needs
of the scheduler, that main comes to read and that the channel is closed. Go
schedules runnable goroutines fairly, and a goroutine here that may run stays
able to run, since each channel has one reader; the senders that compete for
one channel are the exception, which the runtime serves first come, first
served.

## Where the code does not do what is said of it

Each of these is a run that TLC must find violated, with the quoted text in
`PROJECT.json`:

* **Errors can stop the program** (`scheduler_errors`). `errch` holds one error
  per linter, but there may be one per partition, and main reads none until all
  issues are read. When it is full, failing workers keep their slots, the loop
  waits for a slot for ever, or the closer for the workers. With one partition
  per linter this cannot happen (`NoErrorBlocks`).
* **A deadline cancels one partition** (`scheduler_deadline`). `time.After`
  delivers one value and all partitions of the linter wait for it
  (`OneKillPerLinter` is the positive statement). The remaining ones are never
  cancelled.
* **`--aggregate` hides linter names from directives** (`pipeline_aggregate`),
  because the filter comes after the aggregation.
* **A directive inside lines that an earlier one has grown over does not get
  its statement** (`directives_nested`): the growing range breaks the order the
  binary search needs. `GrowsUnlessCovered` says that these, and two nolint
  comments in one group, are the only directives that are passed over.
* **A flag after `--config` does not override the file** (`config_order`):
  kingpin sets all values before it runs any action. `ValuesInForce` says whose
  value counts instead.

The following are as noteworthy, but are parts of properties that hold, which
say exactly what the code does:

* Out of room in its channels, with neither `--aggregate` nor `--sort`, the
  program stands still for ever, whatever the deadlines (`OutOfRoomForGood`).
  That takes more than two million issues before the last linter is started.
* A malformed number in a linter's output ends the program from inside a
  worker, with the status of "issues found" (`FatalHit`, and `LintPromise`).
* With absolute directories `--warn-unmatched-nolint` warns about every
  directive, matched or not, since the cache has two entries for each file
  (`UnmatchedExact`).
* A directive grows on over adjacent statements of its column, so one above a
  block of consecutive lines suppresses the block, and it may enter the doc
  comment of the next function and its signature (`GrowsOverNeighbours`). It
  may then cross that function's own range (`InnermostFirst`).
* A directive behind the last line of a statement grows over what starts on the next
  line in its own column, as the `if` of `} else if` may, although it stands before
  no statement (`ElseIf` in `MCDirectives`).
* With `--aggregate` and `--errors` the status may depend on which of two
  merged reports arrives first, if their severities differ (`StatusTells`).
* A message override prints, for a group that has not matched, the value of an
  earlier hit (`OverrideShowsLastMatch`).
* A linter that a file disables cannot be enabled by a flag, and
  `--no-enable-all` enables all (`RunsWhatWasAsked`). One `--severity` takes
  away all default severities (`ValuesInForce`).
* What cannot be read ends the walk of its tree, silently
  (`FindsItsDirectories`).
* Command lines that share an array may be overwritten by later ones
  (`RunAsBuilt`).

Three that no property is about: the variable GOMETALINTER_CONFIG and the key
`EnableAll` of a file are set and never read, and `filepath.Rel` does not fail
for a directory outside an entry of GOPATH, so that only the first absolute
entry is ever used (`PackageOf`).

## What is proved

The proof system checks the theorems below for every value of the constants that
satisfies the modules' assumptions; `PROJECT.json` lists them with the
properties they state. Each follows the same argument: an inductive invariant
holds initially and is kept by each action, with a step per action in the proof;
the properties follow from it. The invariants of `Scheduler`, `Pipeline`,
`Invocation` and `Partition` are checked by the runs too. The first of `Directives`
is made of checked properties. The others (`CoverInv` of `Directives`, `RunInv` of
`Paths`, those of `Startup` and `Output`) imply the properties that are checked;
that of `Paths` names the walk's frontier by an existential over sequences, which
TLC cannot enumerate.

### Scheduler

For any finite set of linters (`LintersAssumption`), any natural bounds on
partitions, slots and the issue channel (`BoundsAssumption`) and any outputs
(`HitsAssumption`): `InvCorrect` (`[]Inv`), `TypeCorrect` (so the channels never
exceed their capacities, and neither the semaphore nor the WaitGroup is released
too often), `BoundCorrect` (at most `Concurrency` live processes),
`ClosedCorrect` (nothing is sent on a closed channel), `KillCorrect` (a deadline
ends at most one process of its linter) and `NothingLeft` (an exit after the
channels are closed leaves nothing behind).

None of these but the first is inductive. `Inv` adds what they rest on:
`Counted`, that the semaphore and the WaitGroup equal the number of workers in
the states that hold them (so a live process, which by `AliveRuns` belongs to a
worker in its select, holds a slot); `Fresh`, that a partition not yet spawned
has no state, without which `Spawn` would count twice; `OneSplitError`, that the
only error of the loop itself is the one main is waiting with; `CloserLast`, that
the closer begins after the loop and acts when the WaitGroup is zero;
`KilledOnce`, that a killed process has used up the timer its linter will not get
again; `OutputKept`, that a worker past its work has turned all output into
issues or has sent an error that is in the channel or printed; `SplitOrRun`,
that a linter whose splitting fails has no partitions; `ErrorsKept`, that the
errors in the channel and those printed are those of the sources that have sent
one; and `Drained`, that main goes on only when a closed channel is empty.

`ErrorsFit` proves `NoErrorBlocks` if `MaxPartitions <= 1`: then each linter has
at most one source that fails, by `SplitOrRun`, and `errch` has room for one
error per linter. The hypothesis is the point of the theorem: with two partitions
the run `scheduler_errors` shows the standstill.

`PromiseKept` is the refinement: `Spec => KeepsPromise`. `Outcome` maps a source
to what the promise says of it; the proof takes each action in turn and shows
that it is the step of `LintPromise` that settles, tells, aborts or finishes, or
changes no outcome, no warning and not the end. It rests on `ErrorsKept`, without
which a source whose error is in the channel could not be told from one that
never failed.

### Invocation

`ImplementsScheduler` proves `InvocationSpec => Spec`: each step of the program
with the stages is a step of the scheduler alone or a stutter. So all of the
above, the promise included, holds behind the pipeline (`SchedulerHolds`).
`FlowCorrect` adds the invariant of the stages' channels (`FlowInv`), from which
follow their capacities and that an exit leaves no issue unread (`AllIsRead`).
`NoWayOut` proves the action property `OutOfRoomForGood`: out of room is for
good, for any number of linters and any room (`WarningsAssumption` bounds the
filter's warnings).

### Pipeline

For any finite reports and paths, any directives, options and channel capacity
(`PipelineAssumption`, `DirectivesAssumption`, and `NamesAssumption`, that a
report is not called like a range): `InvCorrect` proves the invariant of
`Pipeline_invariant`, whose parts are the order in which the stages finish
(`InOrder`), that each report fed in is in one place and no other (`Placed`),
what the issues of each place are (`IssuesAsReported`), that the map of the
aggregation has one issue for each key and what leaves it takes its company along
(`OneForEachKey`), that the ranges marked are the first matches of what was
suppressed (`MarksAreRight`), that at the end each unmarked range is warned about
once (`WarningsAreRight`), the order behind the sorting stage (`InSortOrder`) and
the status (`StatusIsRight`). `Placed` is `Accounted` without cardinalities, in
the form a step can keep.

The rest of `Pipeline_proofs` derives all seven safety properties of the run from it:
`NoneLost`, `ComesSorted`, `FilesAreTogether`, `SuppressesAsSaid`,
`UnmatchedAsSaid`, `MergedIsTogether` and `StatusIsTold`. Most combine two or
three parts: `UnmatchedAsSaid`, for instance, takes a warning back to a range
that is not marked, hence not the first match of anything suppressed, and a report that
it covers to the earlier range that suppressed it.

### Partition and Paths

For any paths, lengths, limits and GOPATH (`PartitionAssumption`):
`PartitionCorrect` (`[]Inv`), `FilledIsFull`, `NoneIsLost` and `RunsAsBuilt`.
`FilledToLimit` and `NothingLost` are about finished command lines; `Inv` adds
what holds while they are filled. `Filling` says of `sizePartitioner` that `size`
is the length of the line in the making, that it fits, that the line before could
not have taken its first argument, and that lines, current line and remaining
arguments are the arguments in order; `InTurn` says for the other strategies
which directories have been taken; `SharedInTurn`, that a line in the base's
array is still there unless a later one is. That two flattened lists are equal is
proved with lemmas about `FlattenSeq` and the folds of the library, whose
recursion is unfolded once and then reasoned about by induction over sets of
numbers (`SequenceLemmas`).

For any tree, links, names in any order, arguments and values of `--skip`
(`PathsAssumption`, which says of the tree that what is in it is in a directory of
it, and of `Dirs` and `FilesOf` that they have what the tree has):
`WalkFindsDirectories` proves `FindsItsDirectories`. The property gives the result
of a walk without walking, and the invariant `RunInv` ties the two together:

* What is `pending` is the *frontier* of a walk: paths from the root by different
  names, in order, none of them below another (`Walking`, `WalkOf`). What is still
  to be reached is in the frontier or below it, and nothing that was passed is.
* `dirs` are the directories of the arguments done so far, and of the tree being
  walked those of the Go files in front of the frontier. So nothing that cannot be
  read has been passed, and when the first such thing is met, what has been found
  is exactly what comes before it.
* A step replaces the first of the frontier by what its directory holds, in order,
  or by nothing. That this is a frontier again is the heart of the proof: every name
  below `a/x` comes between `a/x` and the next name in `a`.

Below it are lemmas about the operators: `Clean` and `Real` read a path name by
name, as folds, so that a path of the walk cleans to the root's own path with the
names put behind it; `Precedes` is a strict order of all paths; and `Sorted` lists
a finite set in that order, each member once.

`ResolvedIsPartitioned` carries the theorems about `Partition` over to the paths
found: nothing that `resolvePaths` gives is outside `Dirs`. `FoundIsLinted` proves
`EveryFileIsLinted` from `WalkFindsDirectories` and `NothingLost`; of its own it
needs `Sound`, that a strategy that has begun to fill command lines has read all
its directories.

### Directives

For any files whose comment groups come in order, whose nodes and groups do
not end before they begin, and whose nodes come in the order of `ast.Walk`, the
outer of two that start at one place first, and with only signatures and doc
comments out of the order of the lines (`FilesAssumption`): `TypeCorrect`
(extraction, walk and sort lose and add no comment), `OwnLinesKept` and
`GrowsInTurn` (a range grows only over adjacent statements of its column, in the
order of the walk). The three together are inductive, whatever the binary search
finds, so none of them depends on the order of the array, which is what breaks.
`Chained`, the lines that can be reached over the first `n` nodes, makes growth
inductive: `Visit` adds one node, and the lines reached with it are those reached
before and at most one more.

`MissesOnlyTheCovered` proves `GrowsUnlessCovered`, which is about the search. Its
invariant is `CoverInv`: until the sort, the ranges stay in the order of their
groups (`InOrderOfGroups`); a range that has grown covers the node it grew over
first, which stands right below its comment (`CoversFirst`); and every range that
none of the property's exceptions holds for covers all nodes visited so far that
its comment precedes (`CoversVisited`). When the next of these nodes is visited,
there are two cases. The range has grown: then it covers a node that starts at the
same place and was visited earlier, so this one as well. Or it has not: then all
ranges before it end before it, since none of them reaches its first line, and all
ranges after it end where it ends or later (`PartsTheRanges`). The array as a
whole need not be sorted by the ends, but for this node the search's predicate is
false up to the range and true from there, and then the search finds it
(`SearchFinds`). It follows from what the search gives for a predicate of any
shape, by induction over the length of what is left to search: the predicate holds
of the place found, if that is one, and not of the place before it
(`SearchStops`).

`InnermostComesFirst` proves `InnermostFirst`: of two ranges that share a line,
the one that ends first lies inside the other, or the two cross for one of three
reasons. Its invariant is `CrossInv`: a range that has grown ends with a node
visited that starts below its comment (`GrownLast`), and whenever an earlier range
ends inside a later one, one of the reasons is there already (`CrossesRightly`). A
range that grows over a node can come to end inside a later one whose comment
starts in that node. If the later one has not grown, its comment sticks out of the
node; if it has, over a node visited before this one though it starts below, then
the walk is out of order, and so the comment is a doc comment (`NodeCrosses`). And
if the later range grows, past the end of an earlier one that ends on the line
before the node or later, then the search has passed over that one, because the
range just before the place found ends earlier. That range, or the one before it
once it has grown itself, is the third reason.

### Configuration and Startup

For any files, command lines and surroundings (`ConfigurationAssumption`,
`StartupAssumption`; a non-empty GOPATH, which `getGoPathList` sees to):

* `InstallsWhereSearched` proves `InstalledIsFound`, by an invariant of its own
  (`InstallInv`): what has been tried one by one is installed or known to have
  failed, and the directory that is installed to is the one the invocation's own
  environment gives. That `SearchPath` then has that directory is a fact about
  two folds, one that only removes and one that only adds.
* `InvCorrect` proves what the rest follows from. `ReadInv` says of the
  configuration, after the values of `m` flags, that it is what these values
  and the defaults give (`IsSet`), and, after the actions of `n` words of the
  story, that the lists of enabled and disabled linters and the definitions are
  those that the last word about each linter decides (`IsHeard`); `ChoiceInv`,
  that the linters to run are the chosen ones with their settings, and that the
  program has stopped only for a bad one. The induction is over the story, in
  which the default file comes before the flags.
* `LastToSpeakWins`, `LastWordDecides` and `BadLinterStops` take from it
  `ValuesInForce`, `RunsWhatWasAsked` and `StopsForBadLinters`.

### Output

For any patterns, hits, overrides, filters and variables (`OutputAssumption`,
which says of the data that texts are texts, that a linter has at most one
override, that the text of a placeholder has no placeholder, since it ends at the
first brace, that the space, both quotes and the backslash have their classes, and
that what is written in single quotes has none): `InvCorrect` proves that the
local variables are `ValueAt` the last hit (`VarsInv`) and that what is sent is
`Reported`. From it follow `EveryHitReported` (`ReportsItsHits`) and
`LastMatchShown` (`OverrideShowsLastMatch`).

The substance is `AnyOrder`: whichever order Go ranges over the map of variables
in, replacing them one by one gives what `Expanded` gives at once, if no value
has the form of a placeholder (`PlainValues`). One replacement more (`OneMore`)
finds no placeholder in what earlier ones put in; and every variable that the text
mentions comes up once, since the order is one of all of them. Without
`PlainValues` the order matters, and nothing is claimed.

`ArgvIsRead` says that a linter is run with what the scanner makes of `Read`
(`ArgvInv`), by `AnyOrder` once more, and if it has read it to its end. What the
scanner makes of a text is a fold over its runes, so that the rest is about texts
alone:

* `WordsComeBack` proves `WordsAsWritten`. `Reads` says of a text that the scanner,
  inside a word or a quote, takes another from it and is there again; it holds of
  a rune with or without its escape, hence of an escaped text, with what is
  put in for its variables. `ReadsWord` follows one word in each style from its
  first rune to its last, and `ReadsCommand` goes from word to word: after each,
  the scanner has stopped with the words so far (`Stops`), and the space in front
  of the next one ends it.
* `OpenFails` proves `UnfinishedFails`. With one kind of quote and no other special
  rune but spaces, the scanner is in a quote exactly after an odd number of them
  (`QuotesOpen`); and a text whose only special rune is an escape at its end leaves
  the scanner waiting for what it escapes (`EscapeEnds`).

### What the proofs changed in the models

Some models were wrong or said less than meant until a proof attempt failed.
`OutOfRoom` now requires that a waiting worker's next hit is one it sends: with a
malformed one at the head, the program ends, so that `OutOfRoomForGood` did not
hold. `PartitionAssumption` must require that the base of a command line fits, or
a line without arguments overflows. `SplitOrRun` and `ErrorsKept` were missing
from `Inv`. `GrowsOverNeighbours` allowed any order of the nodes, which is not
inductive; in the order of the walk it is, and says more. `PackageOf` took the
first absolute entry of GOPATH by `CHOOSE` where there may be none.
`RunsWhatWasAsked` gave a linter that is defined without a pattern, and is not in
the table, the table's pattern; it now has none (`TablePattern`), and the instance
has such a linter. `PlainValues` did not look at the values of the configured
variables. `Says` and the override of a definition were in a form that means
nothing for a file that does not exist or cannot be reasoned about (`:>`,
`SelectSeq`).

`RelativePackagePath` left "./" away in front of names with an underscore as well
as of those with a dot, which the code does not (main.go:378-384); they are
different constants now. `Paths` looked up whether a file can be read at what a
link leads to, where `filepath.Walk` follows no link but the root that ends in a
slash (`Place`), and `FindsItsDirectories` did not count a link to a directory
that is met below the root and whose name ends in .go, which to the walk is a Go
file. `WordsAsWritten` and `UnfinishedFails` spoke of the command before its
variables are replaced, and the first only of the time before any hit; they now
speak of the text that is read and of all times, and say that no value has the
form of a placeholder (`PlainVars`), without which they do not hold.
`OutputAssumption` allowed an empty word in the mixed style, which has no first
rune, and a quote in single quotes, which cannot be written. `GrowsUnlessCovered`
does not hold for nodes in any order, and `FilesAssumption` now has what it and
`InnermostFirst` need of the order of `ast.Walk`. `InnermostFirst` held of all
files that the instance laid out and is false without two of its three exceptions:
for a comment of several lines behind a token, and for three directives of which
the search passes over the middle one, so that the last grows over a node that
follows its line only by chance. `ElseIf` and `TwoLines` are such files.

## What is only model-checked

* Liveness (`EndsUnlessOutOfRoom` and `Finishes`), since the prover handles
  neither fairness nor ENABLED.
* The findings, which are counterexamples.

## Plan

The modules came in the order of their weight: the scheduler with its promise
first, then the pipeline and both joined, the directive parser, and what goes
before and between: output, partitions, configuration, installation, paths. Each
got its runs first, then its theorems. Every invariant that the passing runs check
is now proved. What could come next are the parts that "What is not modelled" lists,
first of all kingpin's parsing of values.

## What is not modelled

* The wording of output: templates, JSON and XML encoding, logging. A format
  template that cannot be executed panics, which is left out.
* The table of linters and its regular expressions: matching is an input of
  `Output`, and a linter's settings are its pattern and whether it is fast.
* The flags that only set one more value of a kind that is modelled, the
  parsing of values, and kingpin's own help and completion flags.
  `--update`, `--force` and `--download-only` change the arguments of the go
  command only, and the linters' settings for GOMAXPROCS and
  GO15VENDOREXPERIMENT reach nobody in the program.
* `--concurrency=0`: `Spawn` is then never enabled, and the program waits at
  its first partition for ever, as the code does.
* Links to files, and what a link below the root of a walk leads to, which is not
  followed; and the place of the separator in the order of strings, for which names
  are compared one by one.
* Columns of issues, since they are treated like lines. A file that does not
  parse has no ranges and is not looked at further.
* The vendored linters and libraries, but for the parts of kingpin and shlex
  that decide the configuration and the words of a command; scripts and the
  regression tests of the linters.
