------------------------------ MODULE Scheduler ------------------------------
(***************************************************************************)
(* How one invocation runs its linters: runLinters and executeLinter       *)
(* (execute.go), with the part of main (main.go:232-247) that waits for    *)
(* them.                                                                   *)
(*                                                                         *)
(* main's goroutine walks over the linters, splits each one into           *)
(* partitions (one command line each) and starts one worker goroutine per  *)
(* partition; a buffered channel, concurrencych, is the semaphore that     *)
(* bounds the workers.  A worker starts the process, waits for its exit or *)
(* for the linter's deadline, turns the output into issues and passes an   *)
(* error, if there is one, to errch.  A last goroutine closes both         *)
(* channels when every worker is done.  main reads the issues first and    *)
(* the errors after them, and then exits.                                  *)
(*                                                                         *)
(* What happens to an issue after the channel incomingIssues is the        *)
(* subject of Pipeline; here TakeIssue stands for it.                      *)
(***************************************************************************)
EXTENDS Integers, Sequences, FiniteSets

CONSTANTS
  Linters,        \* the enabled linters, by name
  MaxPartitions,  \* the most command lines one linter is split into
  Concurrency,    \* --concurrency, the capacity of concurrencych
  IssueCap,       \* the capacity of incomingIssues (1000000 in the code)
  Hits,           \* the matches a linter's pattern may have in its output
  Outputs,        \* the outputs of a process, as sequences of hits
  Malformed,      \* the hits whose line or column is no 32-bit integer
  Filtered        \* the <<linter, hit>> that --exclude or --include drop

ASSUME LintersAssumption == IsFiniteSet(Linters)
ASSUME BoundsAssumption ==
  /\ MaxPartitions \in Nat
  /\ Concurrency \in Nat
  /\ IssueCap \in Nat
ASSUME HitsAssumption ==
  /\ Outputs \subseteq Seq(Hits)
  /\ Malformed \subseteq Hits

(***************************************************************************)
(* Where an error can come from.  <<l, 0>> is the splitting of linter l    *)
(* into partitions, <<l, k>> with k > 0 the worker of its k-th partition.  *)
(***************************************************************************)
Sources == Linters \X (0 .. MaxPartitions)
Jobs    == Linters \X (1 .. MaxPartitions)
LinterOf(s) == s[1]
Splitting(l) == <<l, 0>>

Issues == [linter : Linters, hit : Hits]

VARIABLES
  main,      \* where main's goroutine is
  todo,      \* the linters the range loop has not reached
  queued,    \* the partitions of the current linter not yet started
  pc,        \* where each source is
  proc,      \* the process of each job
  output,    \* the hits of each job that are not yet processed
  timer,     \* the deadline channel of each linter
  sem,       \* the number of tokens in concurrencych
  wg,        \* the counter of the WaitGroup
  incoming,  \* the channel incomingIssues
  errch,     \* the channel errch: the sources whose error is in it
  closer,    \* the goroutine that closes both channels
  warned,    \* the sources whose error main has printed as a warning
  status     \* the bits of the exit status that are set

vars == <<main, todo, queued, pc, proc, output, timer, sem, wg, incoming,
          errch, closer, warned, status>>

chanVars == <<sem, wg, closer>>
mainVars == <<main, todo, queued, warned, status>>

MainAt   == {"range", "split failed", "reading", "draining", "exited"}
SourceAt == {"none", "ready", "running", "reporting", "failed", "leaving",
             "released", "done"}
ProcIs   == {"none", "alive", "exited", "killed"}
TimerIs  == {"unset", "armed", "fired", "received"}
CloserIs == {"none", "waiting", "closing", "finished"}

HoldsSlot == {"ready", "running", "reporting", "failed", "leaving"}
InGroup   == HoldsSlot \cup {"released"}

\* Mutant of ErrCap: a channel for one error only.
ErrCapOne == 1
\* The capacity of errch: one error per linter.
ErrCap == Cardinality(Linters)

IssuesClosed == closer \in {"closing", "finished"}
ErrsClosed   == closer = "finished"
Exited       == main = "exited"

Init ==
  /\ main = "range"
  /\ todo = Linters
  /\ queued = {}
  /\ pc = [s \in Sources |-> "none"]
  /\ proc = [j \in Jobs |-> "none"]
  /\ output = [j \in Jobs |-> <<>>]
  /\ timer = [l \in Linters |-> "unset"]
  /\ sem = 0
  /\ wg = 0
  /\ incoming = <<>>
  /\ errch = {}
  /\ closer = "none"
  /\ warned = {}
  /\ status = {}

-----------------------------------------------------------------------------
(***************************************************************************)
(* The steps the actions below are made of.                                *)
(***************************************************************************)
\* Mutant of SlotFree: the worker starts without taking a token.
SlotAlways == TRUE
\* concurrencych <- true does not block.
SlotFree == sem < Concurrency

\* errch <- err does not block.
ErrRoom == Cardinality(errch) < ErrCap

\* Mutant of WithError: a later error takes the place of an earlier one.
WithErrorLast(ch, s) == {s}
\* The channel after the send.  A source sends once, so a set is enough.
WithError(ch, s) == ch \cup {s}

\* Mutant of AfterKill: the deadline returns without killing the process.
AfterNoKill(p) == p
\* cmd.Process.Kill: on a process that has exited it fails, which only warns.
AfterKill(p) == IF p = "alive" THEN "killed" ELSE p

\* Mutant of AfterReceive: the deadline is closed instead of sent, so that
\* every partition sees it.
AfterReceiveClosed(t) == t
\* The channel of time.After carries a single value.
AfterReceive(t) == "received"

\* Mutant of AllDone: the WaitGroup is released one worker early.
AllDoneEarly == wg <= 1
\* wg.Wait() returns.
AllDone == wg = 0

-----------------------------------------------------------------------------
(***************************************************************************)
(* main's goroutine: the loop of runLinters.  A map is ranged over in any  *)
(* order.  The deadline of a linter starts to run when the loop reaches    *)
(* it, before its partitions have a slot.                                  *)
(***************************************************************************)
\* Mutant of NextLinter: the deadline is never armed.
NextLinterNoDeadline(l) ==
  /\ main = "range" /\ queued = {} /\ l \in todo
  /\ todo' = todo \ {l}
  /\ UNCHANGED timer

NextLinter(l) ==
  /\ main = "range"
  /\ queued = {}
  /\ l \in todo
  /\ todo' = todo \ {l}
  /\ timer' = [timer EXCEPT ![l] = "armed"]

Split(l, n) ==
  /\ NextLinter(l)
  /\ queued' = {l} \X (1 .. n)
  /\ UNCHANGED <<main, pc, proc, output, incoming, errch, warned, status>>
  /\ UNCHANGED chanVars

SplitFails(l) ==
  /\ NextLinter(l)
  /\ main' = "split failed"
  /\ pc' = [pc EXCEPT ![Splitting(l)] = "failed"]
  /\ UNCHANGED <<queued, proc, output, incoming, errch, warned, status>>
  /\ UNCHANGED chanVars

SendSplitError(l) ==
  /\ main = "split failed"
  /\ pc[Splitting(l)] = "failed"
  /\ ErrRoom
  /\ errch' = WithError(errch, Splitting(l))
  /\ pc' = [pc EXCEPT ![Splitting(l)] = "done"]
  /\ main' = "range"
  /\ UNCHANGED <<todo, queued, proc, output, timer, incoming, warned, status>>
  /\ UNCHANGED chanVars

\* wg.Add(1), the send on concurrencych and the go statement.  The WaitGroup
\* is read by nobody before the loop ends, so the three are one step.
Spawn(j) ==
  /\ main = "range"
  /\ j \in queued
  /\ \A q \in queued : j[2] <= q[2]
  /\ SlotFree
  /\ sem' = sem + 1
  /\ wg' = wg + 1
  /\ queued' = queued \ {j}
  /\ pc' = [pc EXCEPT ![j] = "ready"]
  /\ UNCHANGED <<main, todo, proc, output, timer, incoming, errch, closer,
                 warned, status>>

StartCloser ==
  /\ main = "range"
  /\ todo = {}
  /\ queued = {}
  /\ main' = "reading"
  /\ closer' = "waiting"
  /\ UNCHANGED <<todo, queued, pc, proc, output, timer, sem, wg, incoming,
                 errch, warned, status>>

-----------------------------------------------------------------------------
(***************************************************************************)
(* The rest of main: the output function returns when the channel it reads *)
(* is closed, with 1 if it printed an issue; then the errors are drained.  *)
(***************************************************************************)
FinishOutput(bits) ==
  /\ main = "reading"
  /\ IssuesClosed
  /\ incoming = <<>>
  /\ main' = "draining"
  /\ status' = status \cup bits
  /\ UNCHANGED <<todo, queued, pc, proc, output, timer, incoming, errch,
                 warned>>
  /\ UNCHANGED chanVars

WarnError(s) ==
  /\ main = "draining"
  /\ s \in errch
  /\ errch' = errch \ {s}
  /\ warned' = warned \cup {s}
  /\ status' = status \cup {1}
  /\ UNCHANGED <<main, todo, queued, pc, proc, output, timer, incoming>>
  /\ UNCHANGED chanVars

Exit ==
  /\ main = "draining"
  /\ errch = {}
  /\ ErrsClosed
  /\ main' = "exited"
  /\ UNCHANGED <<todo, queued, pc, proc, output, timer, incoming, errch,
                 warned, status>>
  /\ UNCHANGED chanVars

-----------------------------------------------------------------------------
(***************************************************************************)
(* A worker: executeLinter and the function literal that calls it.         *)
(***************************************************************************)
Start(j) ==
  /\ pc[j] = "ready"
  /\ pc' = [pc EXCEPT ![j] = "running"]
  /\ proc' = [proc EXCEPT ![j] = "alive"]
  /\ UNCHANGED <<output, timer, incoming, errch>>
  /\ UNCHANGED chanVars

StartFails(j) ==
  /\ pc[j] = "ready"
  /\ pc' = [pc EXCEPT ![j] = "failed"]
  /\ UNCHANGED <<proc, output, timer, incoming, errch>>
  /\ UNCHANGED chanVars

\* The select takes the answer of cmd.Wait.  The exit code is only logged.
Collect(j) ==
  /\ pc[j] = "running"
  /\ proc[j] = "exited"
  /\ pc' = [pc EXCEPT ![j] = "reporting"]
  /\ UNCHANGED <<proc, output, timer, incoming, errch>>
  /\ UNCHANGED chanVars

\* The select takes the deadline.  The channel of time.After carries one
\* value, and the workers of all partitions of a linter share it.
Deadline(j) ==
  /\ pc[j] = "running"
  /\ timer[LinterOf(j)] = "fired"
  /\ timer' = [timer EXCEPT ![LinterOf(j)] = AfterReceive(@)]
  /\ proc' = [proc EXCEPT ![j] = AfterKill(@)]
  /\ pc' = [pc EXCEPT ![j] = "failed"]
  /\ UNCHANGED <<output, incoming, errch>>
  /\ UNCHANGED chanVars

IsHidden(j, h) == <<LinterOf(j), h>> \in Filtered

NextHit(j, h) ==
  /\ pc[j] = "reporting"
  /\ output[j] # <<>>
  /\ h = Head(output[j])

ReportIssue(j, h) ==
  /\ NextHit(j, h)
  /\ h \notin Malformed
  /\ ~IsHidden(j, h)
  /\ Len(incoming) < IssueCap
  /\ incoming' = Append(incoming, [linter |-> LinterOf(j), hit |-> h])
  /\ output' = [output EXCEPT ![j] = Tail(@)]
  /\ UNCHANGED <<pc, proc, timer, errch>>
  /\ UNCHANGED chanVars

SkipIssue(j, h) ==
  /\ NextHit(j, h)
  /\ h \notin Malformed
  /\ IsHidden(j, h)
  /\ output' = [output EXCEPT ![j] = Tail(@)]
  /\ UNCHANGED <<pc, proc, timer, incoming, errch>>
  /\ UNCHANGED chanVars

FinishReport(j) ==
  /\ pc[j] = "reporting"
  /\ output[j] = <<>>
  /\ pc' = [pc EXCEPT ![j] = "leaving"]
  /\ UNCHANGED <<proc, output, timer, incoming, errch>>
  /\ UNCHANGED chanVars

SendError(j) ==
  /\ pc[j] = "failed"
  /\ ErrRoom
  /\ errch' = WithError(errch, j)
  /\ pc' = [pc EXCEPT ![j] = "leaving"]
  /\ UNCHANGED <<proc, output, timer, incoming>>
  /\ UNCHANGED chanVars

Release(j) ==
  /\ pc[j] = "leaving"
  /\ sem' = sem - 1
  /\ pc' = [pc EXCEPT ![j] = "released"]
  /\ UNCHANGED <<proc, output, timer, wg, incoming, errch, closer>>

Done(j) ==
  /\ pc[j] = "released"
  /\ wg' = wg - 1
  /\ pc' = [pc EXCEPT ![j] = "done"]
  /\ UNCHANGED <<proc, output, timer, sem, incoming, errch, closer>>

WorkerStep(j) ==
  \/ Start(j)
  \/ StartFails(j)
  \/ Collect(j)
  \/ Deadline(j)
  \/ \E h \in Hits : ReportIssue(j, h) \/ SkipIssue(j, h)
  \/ FinishReport(j)
  \/ SendError(j)
  \/ Release(j)
  \/ Done(j)

Worker(j) == ~Exited /\ WorkerStep(j) /\ UNCHANGED mainVars

\* A line or column that does not fit 32 bits: kingpin.FatalIfError ends the
\* whole program from inside the worker, with status 1.
FatalHit(j, h) ==
  /\ ~Exited
  /\ NextHit(j, h)
  /\ h \in Malformed
  /\ main' = "exited"
  /\ status' = {0}
  /\ UNCHANGED <<todo, queued, pc, proc, output, timer, incoming, errch,
                 warned>>
  /\ UNCHANGED chanVars

-----------------------------------------------------------------------------
(***************************************************************************)
(* The goroutine that closes the channels.                                 *)
(***************************************************************************)
CloseIssues ==
  /\ ~Exited
  /\ closer = "waiting"
  /\ AllDone
  /\ closer' = "closing"
  /\ UNCHANGED <<pc, proc, output, timer, sem, wg, incoming, errch>>
  /\ UNCHANGED mainVars

CloseErrors ==
  /\ ~Exited
  /\ closer = "closing"
  /\ closer' = "finished"
  /\ UNCHANGED <<pc, proc, output, timer, sem, wg, incoming, errch>>
  /\ UNCHANGED mainVars

(***************************************************************************)
(* The surroundings: the first stage of the pipeline takes an issue, a     *)
(* linter's process ends by itself, a deadline expires.                    *)
(***************************************************************************)
TakeIssue ==
  /\ ~Exited
  /\ incoming # <<>>
  /\ incoming' = Tail(incoming)
  /\ UNCHANGED <<pc, proc, output, timer, errch>>
  /\ UNCHANGED chanVars
  /\ UNCHANGED mainVars

ProcessExits(j, out) ==
  /\ proc[j] = "alive"
  /\ proc' = [proc EXCEPT ![j] = "exited"]
  /\ output' = [output EXCEPT ![j] = out]
  /\ UNCHANGED <<pc, timer, incoming, errch>>
  /\ UNCHANGED chanVars
  /\ UNCHANGED mainVars

TimerFires(l) ==
  /\ ~Exited
  /\ timer[l] = "armed"
  /\ timer' = [timer EXCEPT ![l] = "fired"]
  /\ UNCHANGED <<pc, proc, output, incoming, errch>>
  /\ UNCHANGED chanVars
  /\ UNCHANGED mainVars

-----------------------------------------------------------------------------
Main ==
  \/ \E l \in Linters :
       \/ \E n \in 0 .. MaxPartitions : Split(l, n)
       \/ SplitFails(l)
       \/ SendSplitError(l)
  \/ \E j \in Jobs : Spawn(j)
  \/ StartCloser
  \/ \E bits \in SUBSET {0} : FinishOutput(bits)
  \/ \E s \in Sources : WarnError(s)
  \/ Exit

Closer == CloseIssues \/ CloseErrors

ProcessEnds(j) == \E out \in Outputs : ProcessExits(j, out)

\* The program has ended; without this step TLC would call that a deadlock.
Terminated == Exited /\ UNCHANGED vars

Next ==
  \/ Main
  \/ \E j \in Jobs : Worker(j) \/ (\E h \in Hits : FatalHit(j, h))
  \/ Closer
  \/ TakeIssue
  \/ \E j \in Jobs : ProcessEnds(j)
  \/ \E l \in Linters : TimerFires(l)
  \/ Terminated

Spec == Init /\ [][Next]_vars

(***************************************************************************)
(* The Go scheduler runs every goroutine that can run, and timers fire.    *)
(* Nothing makes a process end: whether linters return by themselves is    *)
(* an assumption of its own, LintersReturn.                                *)
(***************************************************************************)
Fairness ==
  /\ WF_vars(Main)
  /\ \A j \in Jobs :
       WF_vars(Worker(j) \/ (\E h \in Hits : FatalHit(j, h)))
  /\ WF_vars(Closer)
  /\ WF_vars(TakeIssue)
  /\ \A l \in Linters : WF_vars(TimerFires(l))

FairSpec == Spec /\ Fairness

LintersReturn == \A j \in Jobs : WF_vars(ProcessEnds(j))

ReturningSpec == FairSpec /\ LintersReturn

-----------------------------------------------------------------------------
(***************************************************************************)
(* Properties.                                                             *)
(***************************************************************************)
Types ==
  /\ main \in MainAt
  /\ todo \subseteq Linters
  /\ queued \subseteq Jobs
  /\ pc \in [Sources -> SourceAt]
  /\ proc \in [Jobs -> ProcIs]
  /\ output \in [Jobs -> Seq(Hits)]
  /\ timer \in [Linters -> TimerIs]
  /\ sem \in Int /\ sem <= Concurrency
  /\ wg \in Int
  /\ incoming \in Seq(Issues) /\ Len(incoming) <= IssueCap
  /\ errch \subseteq Sources /\ Cardinality(errch) <= ErrCap
  /\ closer \in CloserIs
  /\ warned \subseteq Sources
  /\ status \subseteq {0, 1}

\* The variables have their types, no channel holds more than it can, and
\* neither the semaphore nor the WaitGroup is ever released too often.
TypeOK == Types /\ sem >= 0 /\ wg >= 0

\* At no time are more linter processes alive than --concurrency allows,
\* although a worker gives its slot back without waiting for a process it
\* has killed (execute.go:116, 125, 167-174).
ConcurrencyBound ==
  Cardinality({j \in Jobs : proc[j] = "alive"}) <= Concurrency

\* Nobody is about to send on a channel that is closed, which would panic:
\* the workers and main's loop are past their sends when the closer acts
\* (execute.go:111, 123, 132-136, 273).
NoSendOnClosed ==
  /\ IssuesClosed => \A j \in Jobs : pc[j] \notin {"ready", "running", "reporting"}
  /\ ErrsClosed => /\ main # "split failed"
                   /\ \A s \in Sources : pc[s] # "failed"

\* An exit after the channels are closed leaves nothing behind: no process, no
\* worker, no issue and no error that nobody has read, no linter that was not
\* reached; output that was not turned into issues has been warned about
\* (main.go:232-247).
LeavesNothing ==
  Exited /\ ErrsClosed =>
    /\ todo = {} /\ queued = {} /\ incoming = <<>> /\ errch = {}
    /\ \A s \in Sources : pc[s] \in {"none", "done"}
    /\ \A j \in Jobs : proc[j] # "alive" /\ (output[j] = <<>> \/ j \in warned)

(***************************************************************************)
(* The inductive invariant behind these.  The counters count what they are *)
(* meant to; only a worker in its select has a live process; the closer    *)
(* starts after main's loop.                                               *)
(***************************************************************************)
JobsIn(f, S) == {j \in Jobs : f[j] \in S}

Counted ==
  /\ sem = Cardinality(JobsIn(pc, HoldsSlot))
  /\ wg = Cardinality(JobsIn(pc, InGroup))

Fresh ==
  /\ \A j \in queued : pc[j] = "none"
  /\ \A j \in Jobs : LinterOf(j) \in todo => j \notin queued /\ pc[j] = "none"

AliveRuns == \A j \in Jobs : proc[j] = "alive" => pc[j] = "running"

SplitFailing(l) == pc[Splitting(l)] = "failed"

OneSplitError ==
  /\ main # "exited" =>
       ((\E l \in Linters : SplitFailing(l)) => main = "split failed")
  /\ \A l, m \in Linters : SplitFailing(l) /\ SplitFailing(m) => l = m

CloserLast ==
  /\ closer # "none" => /\ main \in {"reading", "draining", "exited"}
                        /\ todo = {} /\ queued = {}
                        /\ \A l \in Linters : ~SplitFailing(l)
  /\ IssuesClosed => wg = 0

\* A linter whose process was killed has used up its deadline, for good.
KilledOnce ==
  /\ \A j \in Jobs : proc[j] = "killed" => /\ timer[LinterOf(j)] = "received"
                                          /\ LinterOf(j) \notin todo
  /\ \A i, j \in Jobs :
       proc[i] = "killed" /\ proc[j] = "killed" /\ LinterOf(i) = LinterOf(j) => i = j

\* A worker that is past its work has turned its output into issues or has sent
\* an error, which is in the channel or has been printed.
OutputKept ==
  \A j \in Jobs :
    /\ pc[j] \in {"none", "ready"} => proc[j] = "none" /\ output[j] = <<>>
    /\ pc[j] \in {"leaving", "released", "done"} =>
         output[j] = <<>> \/ j \in errch \cup warned

\* A linter that could not be split has no job, and one that the loop has not
\* reached has not been split.
SplitOrRun ==
  /\ \A l \in todo : pc[Splitting(l)] = "none"
  /\ \A j \in Jobs :
       pc[Splitting(LinterOf(j))] # "none" => j \notin queued /\ pc[j] = "none"

\* An error is sent once and printed once, and it is the printing that sets bit 1.
ErrorsKept ==
  /\ errch \cap warned = {}
  /\ \A s \in errch \cup warned : pc[s] \in {"leaving", "released", "done"}
  /\ main # "exited" => (1 \in status <=> warned # {})

Drained ==
  /\ \A l \in Linters : pc[Splitting(l)] \in {"none", "failed", "done"}
  /\ main = "draining" => IssuesClosed /\ incoming = <<>>
  /\ Exited /\ ErrsClosed => incoming = <<>> /\ errch = {}

\* The inductive invariant of the proofs (execute.go:67-138).
Inv == /\ Types
       /\ Counted
       /\ Fresh
       /\ AliveRuns
       /\ OneSplitError
       /\ CloserLast
       /\ KilledOnce
       /\ OutputKept
       /\ SplitOrRun
       /\ ErrorsKept
       /\ Drained

\* The partitions of a linter share one timer channel, so that its deadline
\* ends at most one of them (execute.go:99, 167).
OneKillPerLinter ==
  \A l \in Linters :
    Cardinality({j \in Jobs : LinterOf(j) = l /\ proc[j] = "killed"}) <= 1

\* A source that has an error to send finds room in errch (execute.go:68, 111,
\* 123).  It holds as long as no linter has more than one partition.
NoErrorBlocks == (\E s \in Sources : pc[s] = "failed") => ErrRoom

(***************************************************************************)
(* The refinement: a source has failed from the moment its error exists,   *)
(* whether it waits to be sent, is in the channel or has been printed.     *)
(***************************************************************************)
HasFailed(s) == pc[s] = "failed" \/ s \in errch \cup warned

OutcomeOf(s) ==
  IF HasFailed(s) THEN "failed"
  ELSE IF s[2] = 0 THEN IF s[1] \in todo THEN "pending" ELSE "reported"
  ELSE IF s \in queued \/ pc[s] \in {"ready", "running", "reporting"} THEN "pending"
  ELSE IF pc[s] = "none" THEN "unplanned"
  ELSE "reported"

Promise == INSTANCE LintPromise WITH
  outcome <- [s \in Sources |-> OutcomeOf(s)],
  told <- warned,
  ended <- Exited,
  bits <- IF Exited THEN status ELSE {}

\* Every step of the goroutines is a step of LintPromise or none at all: no
\* linter is forgotten, nothing is reported twice or both reported and failed,
\* every failure is printed before the exit and sets bit 1 of the status.
KeepsPromise == Promise!Spec

\* A failure is told to the user in a warning, as "Exit status" in the README
\* says (README.md:276).
FailureIsTold == \A s \in Sources : pc[s] = "failed" ~> s \in warned

\* A linter is cancelled if it has not completed within the deadline, as the
\* help of --deadline says (main.go:67).
CancelledAtDeadline ==
  \A j \in Jobs :
    proc[j] = "alive" /\ timer[LinterOf(j)] \in {"fired", "received"}
      ~> proc[j] # "alive"
=============================================================================
