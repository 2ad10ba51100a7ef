--------------------------- MODULE Scheduler_proofs ---------------------------
(***************************************************************************)
(* Proofs about Scheduler, for any finite set of linters, any number of    *)
(* partitions, any concurrency and any outputs.  At the end, that it       *)
(* implements LintPromise.                                                 *)
(***************************************************************************)
EXTENDS Scheduler, FiniteSetTheorems, TLAPS

\* The jobs are finitely many.
LEMMA JobsFinite == IsFiniteSet(Jobs)
<1>1. IsFiniteSet(1 .. MaxPartitions)
  BY FS_Interval, BoundsAssumption
<1>2. QED
  BY <1>1, FS_Product, LintersAssumption DEF Jobs

\* Jobs are sources, and no job is the splitting of a linter.
LEMMA JobsAndSplits ==
  /\ Jobs \subseteq Sources
  /\ \A l \in Linters : Splitting(l) \in Sources /\ Splitting(l) \notin Jobs
  /\ \A j \in Jobs : LinterOf(j) \in Linters
  /\ \A l, m \in Linters : Splitting(l) = Splitting(m) => l = m
BY BoundsAssumption DEF Jobs, Sources, Splitting, LinterOf

\* m is what the number n of things in S becomes when one goes from v to w.
Follows(n, m, S, v, w) ==
  /\ (v \in S <=> w \in S) => m = n
  /\ v \notin S /\ w \in S => m = n + 1
  /\ v \in S /\ w \notin S => m = n - 1

\* What moving one job does to the number of jobs in a group of states.
LEMMA MoveCounts ==
  ASSUME NEW f, NEW g, NEW j \in Jobs, NEW S,
         \A i \in Jobs \ {j} : g[i] = f[i]
  PROVE  Follows(Cardinality(JobsIn(f, S)), Cardinality(JobsIn(g, S)),
                 S, f[j], g[j])
<1> DEFINE A == JobsIn(f, S)
           B == JobsIn(g, S)
<1>1. IsFiniteSet(A) /\ Cardinality(A) \in Nat
  BY JobsFinite, FS_Subset, FS_CardinalityType DEF JobsIn
<1>2. (f[j] \in S <=> g[j] \in S) => B = A
  BY DEF JobsIn
<1>3. ASSUME f[j] \notin S, g[j] \in S
      PROVE  Cardinality(B) = Cardinality(A) + 1
  <2>1. B = A \cup {j} /\ j \notin A
    BY <1>3 DEF JobsIn
  <2>2. QED
    BY <2>1, <1>1, FS_AddElement
<1>4. ASSUME f[j] \in S, g[j] \notin S
      PROVE  Cardinality(B) = Cardinality(A) - 1
  <2>1. B = A \ {j} /\ j \in A
    BY <1>4 DEF JobsIn
  <2>2. QED
    BY <2>1, <1>1, FS_RemoveElement
<1>5. QED
  BY <1>2, <1>3, <1>4 DEF Follows

-----------------------------------------------------------------------------
\* The sources are finitely many, so that errch is finite.
LEMMA SourcesFinite == IsFiniteSet(Sources)
<1>1. IsFiniteSet(0 .. MaxPartitions)
  BY FS_Interval, BoundsAssumption
<1>2. QED
  BY <1>1, FS_Product, LintersAssumption DEF Sources

\* An error that finds room leaves errch within its capacity.
LEMMA SendKeepsCap ==
  ASSUME errch \subseteq Sources, NEW s \in Sources, ErrRoom
  PROVE  /\ WithError(errch, s) \subseteq Sources
         /\ Cardinality(WithError(errch, s)) <= ErrCap
<1>1. IsFiniteSet(errch) /\ Cardinality(errch) \in Nat /\ ErrCap \in Nat
  BY SourcesFinite, FS_Subset, FS_CardinalityType, LintersAssumption DEF ErrCap
<1>2. /\ WithError(errch, s) \subseteq Sources
      /\ IsFiniteSet(WithError(errch, s))
      /\ Cardinality(WithError(errch, s)) =
           IF s \in errch THEN Cardinality(errch) ELSE Cardinality(errch) + 1
  BY <1>1, FS_AddElement DEF WithError
<1>3. QED
  BY <1>1, <1>2 DEF ErrRoom

\* Reading an error leaves errch within its capacity.
LEMMA ReadKeepsCap ==
  ASSUME errch \subseteq Sources, Cardinality(errch) <= ErrCap, NEW s
  PROVE  /\ errch \ {s} \subseteq Sources
         /\ Cardinality(errch \ {s}) <= ErrCap
<1>1. IsFiniteSet(errch) /\ Cardinality(errch) \in Nat /\ ErrCap \in Nat
  BY SourcesFinite, FS_Subset, FS_CardinalityType, LintersAssumption DEF ErrCap
<1>2. Cardinality(errch \ {s}) =
        IF s \in errch THEN Cardinality(errch) - 1 ELSE Cardinality(errch)
  BY <1>1, FS_RemoveElement
<1>3. QED
  BY <1>1, <1>2

\* The initial state has the types.
LEMMA TypesInit == Init => Types
<1> SUFFICES ASSUME Init PROVE Types
  OBVIOUS
<1>1. Cardinality({}) = 0 /\ ErrCap \in Nat
  BY FS_EmptySet, FS_CardinalityType, LintersAssumption DEF ErrCap
<1>2. incoming \in Seq(Issues) /\ Len(incoming) <= IssueCap
  BY BoundsAssumption DEF Init
<1>3. pc \in [Sources -> SourceAt] /\ proc \in [Jobs -> ProcIs]
      /\ output \in [Jobs -> Seq(Hits)] /\ timer \in [Linters -> TimerIs]
  BY DEF Init, SourceAt, ProcIs, TimerIs
<1>4. QED
  BY <1>1, <1>2, <1>3, BoundsAssumption DEF Init, Types, MainAt, CloserIs

\* Every step keeps the types and the capacities of the channels.
LEMMA TypesStep == Types /\ [Next]_vars => Types'
<1> SUFFICES ASSUME Types, [Next]_vars PROVE Types'
  OBVIOUS
<1> USE DEF Types, chanVars, mainVars
<1>1. ASSUME NEW l \in Linters, NEW n \in 0 .. MaxPartitions, Split(l, n)
      PROVE  Types'
  <2>1. {l} \X (1 .. n) \subseteq Jobs
    BY BoundsAssumption DEF Jobs
  <2>2. QED
    BY <1>1, <2>1 DEF Split, NextLinter, TimerIs
<1>2. ASSUME NEW l \in Linters, SplitFails(l) PROVE Types'
  BY <1>2, JobsAndSplits DEF SplitFails, NextLinter, TimerIs, MainAt, SourceAt
<1>3. ASSUME NEW l \in Linters, SendSplitError(l) PROVE Types'
  BY <1>3, JobsAndSplits, SendKeepsCap DEF SendSplitError, MainAt, SourceAt
<1>4. ASSUME NEW j \in Jobs, Spawn(j) PROVE Types'
  BY <1>4, JobsAndSplits, BoundsAssumption DEF Spawn, SlotFree, SourceAt
<1>5. CASE StartCloser
  BY <1>5 DEF StartCloser, MainAt, CloserIs
<1>6. ASSUME NEW bits \in SUBSET {0}, FinishOutput(bits) PROVE Types'
  BY <1>6 DEF FinishOutput, MainAt
<1>7. ASSUME NEW s \in Sources, WarnError(s) PROVE Types'
  BY <1>7, ReadKeepsCap DEF WarnError
<1>8. CASE Exit
  BY <1>8 DEF Exit, MainAt
<1>9. ASSUME NEW j \in Jobs, Worker(j) PROVE Types'
  <2> USE <1>9, JobsAndSplits DEF Worker
  <2>1. CASE Start(j)
    BY <2>1 DEF Start, SourceAt, ProcIs
  <2>2. CASE StartFails(j)
    BY <2>2 DEF StartFails, SourceAt
  <2>3. CASE Collect(j)
    BY <2>3 DEF Collect, SourceAt
  <2>4. CASE Deadline(j)
    BY <2>4 DEF Deadline, AfterReceive, AfterKill, SourceAt, ProcIs, TimerIs
  <2>5. ASSUME NEW h \in Hits, ReportIssue(j, h) PROVE Types'
    <3>1. [linter |-> LinterOf(j), hit |-> h] \in Issues
      BY DEF Issues
    <3>2. incoming' \in Seq(Issues) /\ Len(incoming') <= IssueCap
      BY <2>5, <3>1, BoundsAssumption DEF ReportIssue
    <3>3. output' \in [Jobs -> Seq(Hits)]
      BY <2>5 DEF ReportIssue, NextHit
    <3>4. QED
      BY <2>5, <3>2, <3>3 DEF ReportIssue
  <2>6. ASSUME NEW h \in Hits, SkipIssue(j, h) PROVE Types'
    <3>1. output' \in [Jobs -> Seq(Hits)]
      BY <2>6 DEF SkipIssue, NextHit
    <3>2. QED
      BY <2>6, <3>1 DEF SkipIssue
  <2>7. CASE FinishReport(j)
    BY <2>7 DEF FinishReport, SourceAt
  <2>8. CASE SendError(j)
    BY <2>8, SendKeepsCap DEF SendError, SourceAt
  <2>9. CASE Release(j)
    BY <2>9, BoundsAssumption DEF Release, SourceAt
  <2>10. CASE Done(j)
    BY <2>10 DEF Done, SourceAt
  <2>11. QED
    BY <2>1, <2>2, <2>3, <2>4, <2>5, <2>6, <2>7, <2>8, <2>9, <2>10
       DEF WorkerStep
<1>10. ASSUME NEW j \in Jobs, NEW h \in Hits, FatalHit(j, h) PROVE Types'
  BY <1>10 DEF FatalHit, MainAt
<1>11. CASE Closer
  BY <1>11 DEF Closer, CloseIssues, CloseErrors, CloserIs
<1>12. CASE TakeIssue
  <2>1. incoming' \in Seq(Issues) /\ Len(incoming') <= IssueCap
    BY <1>12, BoundsAssumption DEF TakeIssue
  <2>2. QED
    BY <1>12, <2>1 DEF TakeIssue
<1>13. ASSUME NEW j \in Jobs, NEW out \in Outputs, ProcessExits(j, out)
       PROVE  Types'
  BY <1>13, HitsAssumption DEF ProcessExits, ProcIs
<1>14. ASSUME NEW l \in Linters, TimerFires(l) PROVE Types'
  BY <1>14 DEF TimerFires, TimerIs
<1>15. CASE UNCHANGED vars
  BY <1>15 DEF vars
<1>16. QED
  BY <1>1, <1>2, <1>3, <1>4, <1>5, <1>6, <1>7, <1>8, <1>9, <1>10, <1>11,
     <1>12, <1>13, <1>14, <1>15
     DEF Next, Main, ProcessEnds, Terminated

-----------------------------------------------------------------------------
\* The inductive invariant holds initially.
LEMMA InvInit == Init => Inv
<1> SUFFICES ASSUME Init PROVE Inv
  OBVIOUS
<1>1. JobsIn(pc, HoldsSlot) = {} /\ JobsIn(pc, InGroup) = {}
  BY JobsAndSplits DEF Init, JobsIn, HoldsSlot, InGroup
<1>2. Counted
  BY <1>1, FS_EmptySet DEF Init, Counted
<1>3. Fresh /\ AliveRuns /\ CloserLast
  BY JobsAndSplits DEF Init, Fresh, AliveRuns, CloserLast, IssuesClosed
<1>4. OneSplitError
  BY JobsAndSplits DEF Init, OneSplitError, SplitFailing
<1>5. KilledOnce /\ OutputKept /\ Drained
  BY JobsAndSplits DEF Init, KilledOnce, OutputKept, Drained, IssuesClosed, ErrsClosed, Exited
<1>6. SplitOrRun /\ ErrorsKept
  BY JobsAndSplits DEF Init, SplitOrRun, ErrorsKept
<1>7. QED
  BY <1>2, <1>3, <1>4, <1>5, <1>6, TypesInit DEF Inv

\* A job that goes from one state to another, with both counters following.
LEMMA MoveKeepsCounted ==
  ASSUME Types, Counted, NEW j \in Jobs, NEW v,
         pc' = [pc EXCEPT ![j] = v],
         Follows(sem, sem', HoldsSlot, pc[j], v),
         Follows(wg, wg', InGroup, pc[j], v)
  PROVE  Counted'
<1>1. pc'[j] = v /\ \A i \in Jobs \ {j} : pc'[i] = pc[i]
  BY JobsAndSplits DEF Types
<1>2. Follows(sem, Cardinality(JobsIn(pc', HoldsSlot)), HoldsSlot, pc[j], v)
  BY <1>1, MoveCounts DEF Counted
<1>3. Follows(wg, Cardinality(JobsIn(pc', InGroup)), InGroup, pc[j], v)
  BY <1>1, MoveCounts DEF Counted
<1>4. sem' = Cardinality(JobsIn(pc', HoldsSlot)) /\ wg' = Cardinality(JobsIn(pc', InGroup))
  BY <1>2, <1>3 DEF Follows
<1>5. QED
  BY <1>4 DEF Counted

\* Moving the splitting of a linter changes neither counter.
LEMMA SplitKeepsCounted ==
  ASSUME Types, Counted, NEW l \in Linters, NEW v,
         pc' = [pc EXCEPT ![Splitting(l)] = v], UNCHANGED <<sem, wg>>
  PROVE  Counted'
<1>1. \A i \in Jobs : pc'[i] = pc[i]
  BY JobsAndSplits DEF Types
<1>2. JobsIn(pc', HoldsSlot) = JobsIn(pc, HoldsSlot)
      /\ JobsIn(pc', InGroup) = JobsIn(pc, InGroup)
  BY <1>1 DEF JobsIn
<1>3. QED
  BY <1>2 DEF Counted

\* Every step keeps both counters, the semaphore and the WaitGroup, in agreement
\* with the workers they count.
LEMMA CountedStep == Inv /\ [Next]_vars => Counted'
<1> SUFFICES ASSUME Inv, [Next]_vars PROVE Counted'
  OBVIOUS
<1> USE DEF Inv, chanVars, mainVars
<1>1. ASSUME UNCHANGED <<pc, sem, wg>> PROVE Counted'
  BY <1>1 DEF Counted
<1>2. ASSUME NEW l \in Linters, SplitFails(l) PROVE Counted'
  BY <1>2, SplitKeepsCounted DEF SplitFails, NextLinter
<1>3. ASSUME NEW l \in Linters, SendSplitError(l) PROVE Counted'
  BY <1>3, SplitKeepsCounted DEF SendSplitError
<1>4. ASSUME NEW j \in Jobs, Spawn(j) PROVE Counted'
  <2>1. pc[j] = "none"
    BY <1>4 DEF Spawn, Fresh
  <2>2. QED
    BY <1>4, <2>1, MoveKeepsCounted DEF Spawn, HoldsSlot, InGroup, Follows
<1>5. ASSUME NEW j \in Jobs, Worker(j) PROVE Counted'
  <2>1. ASSUME NEW v \in HoldsSlot, pc' = [pc EXCEPT ![j] = v],
               pc[j] \in HoldsSlot, sem' = sem, wg' = wg
        PROVE  Counted'
    <3>1. v \in InGroup /\ pc[j] \in InGroup
      BY <2>1 DEF InGroup
    <3>2. QED
      BY <2>1, <3>1, MoveKeepsCounted DEF Follows
  <2>2. CASE Start(j)
    BY <2>1, <2>2 DEF Start, HoldsSlot
  <2>3. CASE StartFails(j)
    BY <2>1, <2>3 DEF StartFails, HoldsSlot
  <2>4. CASE Collect(j)
    BY <2>1, <2>4 DEF Collect, HoldsSlot
  <2>5. CASE Deadline(j)
    BY <2>1, <2>5 DEF Deadline, HoldsSlot
  <2>6. CASE \E h \in Hits : ReportIssue(j, h) \/ SkipIssue(j, h)
    BY <2>6, <1>1 DEF ReportIssue, SkipIssue
  <2>7. CASE FinishReport(j)
    BY <2>1, <2>7 DEF FinishReport, HoldsSlot
  <2>8. CASE SendError(j)
    BY <2>1, <2>8 DEF SendError, HoldsSlot
  <2>9. CASE Release(j)
    <3>1. /\ Follows(sem, sem', HoldsSlot, pc[j], pc'[j])
          /\ Follows(wg, wg', InGroup, pc[j], pc'[j])
      BY <2>9, JobsAndSplits DEF Release, Types, HoldsSlot, InGroup, Follows
    <3>2. pc'[j] = "released" /\ pc' = [pc EXCEPT ![j] = "released"]
      BY <2>9, JobsAndSplits DEF Release, Types
    <3>3. QED
      BY <3>1, <3>2, MoveKeepsCounted
  <2>10. CASE Done(j)
    <3>1. /\ Follows(sem, sem', HoldsSlot, pc[j], pc'[j])
          /\ Follows(wg, wg', InGroup, pc[j], pc'[j])
      BY <2>10, JobsAndSplits DEF Done, Types, HoldsSlot, InGroup, Follows
    <3>2. pc'[j] = "done" /\ pc' = [pc EXCEPT ![j] = "done"]
      BY <2>10, JobsAndSplits DEF Done, Types
    <3>3. QED
      BY <3>1, <3>2, MoveKeepsCounted
  <2>11. QED
    BY <2>2, <2>3, <2>4, <2>5, <2>6, <2>7, <2>8, <2>9, <2>10, <1>5
       DEF Worker, WorkerStep
<1>6. CASE \/ \E l \in Linters, n \in 0 .. MaxPartitions : Split(l, n)
           \/ StartCloser
           \/ \E bits \in SUBSET {0} : FinishOutput(bits)
           \/ \E s \in Sources : WarnError(s)
           \/ Exit
  BY <1>1, <1>6 DEF Split, StartCloser, FinishOutput, WarnError, Exit
<1>7. CASE \/ \E j \in Jobs, h \in Hits : FatalHit(j, h)
           \/ Closer
           \/ TakeIssue
           \/ \E j \in Jobs, out \in Outputs : ProcessExits(j, out)
           \/ \E l \in Linters : TimerFires(l)
           \/ UNCHANGED vars
  BY <1>1, <1>7 DEF FatalHit, Closer, CloseIssues, CloseErrors, TakeIssue,
     ProcessExits, TimerFires, vars
<1>8. QED
  BY <1>2, <1>3, <1>4, <1>5, <1>6, <1>7
     DEF Next, Main, ProcessEnds, Terminated

-----------------------------------------------------------------------------
\* The workers, one action at a time: they move their own job, out of "none"
\* never, and leave main's variables and the closer alone.
LEMMA WorkerMoves ==
  ASSUME Inv, NEW j \in Jobs, Worker(j)
  PROVE  /\ pc[j] # "none"
         /\ \A s \in Sources \ {j} : pc'[s] = pc[s]
         /\ \A i \in Jobs \ {j} : proc'[i] = proc[i]
         /\ proc'[j] = "alive" => pc'[j] = "running"
         /\ pc' \in [Sources -> SourceAt]
         /\ UNCHANGED <<main, todo, queued, closer>>
         /\ wg' # wg => pc[j] = "released"
<1> USE JobsAndSplits DEF Inv, Types, Worker, AliveRuns, chanVars, mainVars
<1>1. CASE Start(j) \/ StartFails(j) \/ Collect(j)
  BY <1>1 DEF Start, StartFails, Collect, SourceAt
<1>2. CASE Deadline(j)
  BY <1>2 DEF Deadline, AfterKill, SourceAt
<1>3. CASE \E h \in Hits : ReportIssue(j, h) \/ SkipIssue(j, h)
  BY <1>3 DEF ReportIssue, SkipIssue, NextHit
<1>4. CASE FinishReport(j) \/ SendError(j)
  BY <1>4 DEF FinishReport, SendError, SourceAt
<1>5. CASE Release(j) \/ Done(j)
  BY <1>5 DEF Release, Done, SourceAt
<1>6. QED
  BY <1>1, <1>2, <1>3, <1>4, <1>5 DEF WorkerStep

\* The steps that touch neither the sources nor the closer nor main's place.
Idle ==
  UNCHANGED <<main, todo, queued, pc, sem, wg, closer>>

\* The steps of main after its loop and of the surroundings that touch nothing the
\* invariant counts.
LEMMA OtherSteps ==
  ASSUME \/ \E s \in Sources : WarnError(s)
         \/ TakeIssue
         \/ \E j \in Jobs, out \in Outputs : ProcessExits(j, out)
         \/ \E l \in Linters : TimerFires(l)
         \/ UNCHANGED vars
  PROVE  Idle
BY DEF Idle, WarnError, TakeIssue, ProcessExits, TimerFires, vars, chanVars,
   mainVars

\* A job that is queued, or whose linter the loop has not reached, stays unstarted.
LEMMA FreshStep == Inv /\ [Next]_vars => Fresh'
<1> SUFFICES ASSUME Inv, [Next]_vars PROVE Fresh'
  OBVIOUS
<1> USE JobsAndSplits DEF Inv, Fresh, chanVars
<1>1. ASSUME NEW l \in Linters, NEW n \in 0 .. MaxPartitions, Split(l, n)
      PROVE  Fresh'
  <2>1. \A j \in {l} \X (1 .. n) : j \in Jobs /\ LinterOf(j) = l
    BY BoundsAssumption DEF Jobs, LinterOf
  <2>2. QED
    BY <1>1, <2>1 DEF Split, NextLinter
<1>2. ASSUME NEW l \in Linters, SplitFails(l) \/ SendSplitError(l) PROVE Fresh'
  BY <1>2 DEF SplitFails, SendSplitError, NextLinter, Types
<1>3. ASSUME NEW j \in Jobs, Spawn(j) PROVE Fresh'
  BY <1>3 DEF Spawn, Types
<1>4. ASSUME NEW j \in Jobs, Worker(j) PROVE Fresh'
  BY <1>4, WorkerMoves DEF Types
<1>5. CASE \/ StartCloser
           \/ \E bits \in SUBSET {0} : FinishOutput(bits)
           \/ Exit
           \/ \E j \in Jobs, h \in Hits : FatalHit(j, h)
           \/ Closer
  BY <1>5 DEF StartCloser, FinishOutput, Exit, FatalHit, Closer, CloseIssues,
     CloseErrors, mainVars
<1>6. CASE Idle
  BY <1>6 DEF Idle
<1>7. QED
  BY <1>1, <1>2, <1>3, <1>4, <1>5, <1>6, OtherSteps
     DEF Next, Main, ProcessEnds, Terminated

\* A live process stays that of a worker in its select.
LEMMA AliveStep == Inv /\ [Next]_vars => AliveRuns'
<1> SUFFICES ASSUME Inv, [Next]_vars PROVE AliveRuns'
  OBVIOUS
<1> USE JobsAndSplits DEF Inv, AliveRuns, chanVars
<1>1. ASSUME UNCHANGED <<pc, proc>> PROVE AliveRuns'
  BY <1>1
<1>2. ASSUME NEW l \in Linters, SplitFails(l) \/ SendSplitError(l)
      PROVE  AliveRuns'
  BY <1>2 DEF SplitFails, SendSplitError, NextLinter, Types
<1>3. ASSUME NEW j \in Jobs, Spawn(j) PROVE AliveRuns'
  BY <1>3 DEF Spawn, Types, Fresh
<1>4. ASSUME NEW j \in Jobs, Worker(j) PROVE AliveRuns'
  BY <1>4, WorkerMoves DEF Types
<1>5. ASSUME NEW j \in Jobs, NEW out \in Outputs, ProcessExits(j, out)
      PROVE  AliveRuns'
  BY <1>5 DEF ProcessExits, Types
<1>6. CASE \/ \E l \in Linters, n \in 0 .. MaxPartitions : Split(l, n)
           \/ StartCloser
           \/ \E bits \in SUBSET {0} : FinishOutput(bits)
           \/ \E s \in Sources : WarnError(s)
           \/ Exit
  BY <1>1, <1>6 DEF Split, StartCloser, FinishOutput, WarnError, Exit
<1>7. CASE \/ \E j \in Jobs, h \in Hits : FatalHit(j, h)
           \/ Closer
           \/ TakeIssue
           \/ \E l \in Linters : TimerFires(l)
           \/ UNCHANGED vars
  BY <1>1, <1>7 DEF FatalHit, Closer, CloseIssues, CloseErrors, TakeIssue,
     TimerFires, vars
<1>8. QED
  BY <1>2, <1>3, <1>4, <1>5, <1>6, <1>7
     DEF Next, Main, ProcessEnds, Terminated

\* At most one linter is between the failure of its splitting and the send of the
\* error, and main waits with it.
LEMMA SplitErrorStep == Inv /\ [Next]_vars => OneSplitError'
<1> SUFFICES ASSUME Inv, [Next]_vars PROVE OneSplitError'
  OBVIOUS
<1> USE JobsAndSplits DEF Inv, OneSplitError, SplitFailing, chanVars
<1>1. ASSUME NEW l \in Linters, SplitFails(l) PROVE OneSplitError'
  BY <1>1 DEF SplitFails, NextLinter, Types
<1>2. ASSUME NEW l \in Linters, SendSplitError(l) PROVE OneSplitError'
  BY <1>2 DEF SendSplitError, Types
<1>3. ASSUME NEW j \in Jobs, Spawn(j) PROVE OneSplitError'
  BY <1>3 DEF Spawn, Types
<1>4. ASSUME NEW j \in Jobs, Worker(j) PROVE OneSplitError'
  <2>1. \A l \in Linters : pc'[Splitting(l)] = pc[Splitting(l)]
    BY <1>4, WorkerMoves
  <2>2. main' = main
    BY <1>4, WorkerMoves
  <2>3. QED
    BY <2>1, <2>2
<1>5. CASE \/ \E l \in Linters, n \in 0 .. MaxPartitions : Split(l, n)
           \/ StartCloser
           \/ \E bits \in SUBSET {0} : FinishOutput(bits)
           \/ Exit
           \/ \E j \in Jobs, h \in Hits : FatalHit(j, h)
           \/ Closer
  BY <1>5 DEF Split, NextLinter, StartCloser, FinishOutput, Exit, FatalHit,
     Closer, CloseIssues, CloseErrors, mainVars
<1>6. CASE Idle
  BY <1>6 DEF Idle
<1>7. QED
  BY <1>1, <1>2, <1>3, <1>4, <1>5, <1>6, OtherSteps
     DEF Next, Main, ProcessEnds, Terminated

\* The closer stays behind the loop, and a closed channel behind the last worker.
LEMMA CloserStep == Inv /\ [Next]_vars => CloserLast'
<1> SUFFICES ASSUME Inv, [Next]_vars PROVE CloserLast'
  OBVIOUS
<1> USE JobsAndSplits DEF Inv, CloserLast, SplitFailing, IssuesClosed, chanVars
<1>1. ASSUME NEW l \in Linters,
             \/ \E n \in 0 .. MaxPartitions : Split(l, n)
             \/ SplitFails(l)
             \/ SendSplitError(l)
      PROVE  CloserLast'
  BY <1>1 DEF Split, SplitFails, SendSplitError, NextLinter
<1>2. ASSUME NEW j \in Jobs, Spawn(j) PROVE CloserLast'
  BY <1>2 DEF Spawn
<1>3. CASE StartCloser
  BY <1>3 DEF StartCloser, OneSplitError, SplitFailing
<1>4. ASSUME NEW j \in Jobs, Worker(j) PROVE CloserLast'
  <2>1. ASSUME IssuesClosed PROVE pc[j] \notin InGroup
    <3>1. Cardinality(JobsIn(pc, InGroup)) = 0
      BY <2>1 DEF Counted
    <3>2. JobsIn(pc, InGroup) = {}
      BY <3>1, JobsFinite, FS_Subset, FS_EmptySet DEF JobsIn
    <3>3. QED
      BY <3>2 DEF JobsIn
  <2>2. QED
    BY <1>4, <2>1, WorkerMoves DEF InGroup
<1>5. CASE \/ \E bits \in SUBSET {0} : FinishOutput(bits)
           \/ Exit
           \/ \E j \in Jobs, h \in Hits : FatalHit(j, h)
  BY <1>5 DEF FinishOutput, Exit, FatalHit
<1>6. CASE Closer
  BY <1>6 DEF Closer, CloseIssues, CloseErrors, AllDone, mainVars
<1>7. CASE Idle
  BY <1>7 DEF Idle
<1>8. QED
  BY <1>1, <1>2, <1>3, <1>4, <1>5, <1>6, <1>7, OtherSteps
     DEF Next, Main, ProcessEnds, Terminated

\* When the channel of issues is closed, every worker has left the WaitGroup.
LEMMA ClosedIdle ==
  ASSUME Inv, IssuesClosed PROVE \A j \in Jobs : pc[j] \notin InGroup
<1>1. Cardinality(JobsIn(pc, InGroup)) = 0
  BY DEF Inv, CloserLast, Counted
<1>2. JobsIn(pc, InGroup) = {}
  BY <1>1, JobsFinite, FS_Subset, FS_EmptySet DEF JobsIn
<1>3. QED
  BY <1>2 DEF JobsIn

\* A deadline is received once, so that a linter never has two processes killed.
LEMMA KilledStep == Inv /\ [Next]_vars => KilledOnce'
<1> SUFFICES ASSUME Inv, [Next]_vars PROVE KilledOnce'
  OBVIOUS
<1> USE JobsAndSplits DEF Inv, Types, KilledOnce
<1>1. ASSUME UNCHANGED <<proc, timer, todo>> PROVE KilledOnce'
  BY <1>1
<1>2. ASSUME NEW l \in Linters, NextLinter(l), UNCHANGED proc PROVE KilledOnce'
  BY <1>2 DEF NextLinter
<1>3. CASE \E l \in Linters : \/ \E n \in 0 .. MaxPartitions : Split(l, n)
                             \/ SplitFails(l)
                             \/ SendSplitError(l)
  BY <1>1, <1>2, <1>3 DEF Split, SplitFails, SendSplitError
<1>4. ASSUME NEW j \in Jobs, Worker(j), UNCHANGED timer PROVE KilledOnce'
  <2>1. proc' = proc \/ proc' = [proc EXCEPT ![j] = "alive"]
    <3>1. Deadline(j) => FALSE
      BY <1>4 DEF Deadline, AfterReceive
    <3>2. QED
      BY <1>4, <3>1 DEF Worker, WorkerStep, Start, StartFails, Collect, ReportIssue,
         SkipIssue, FinishReport, SendError, Release, Done
  <2>2. todo' = todo
    BY <1>4 DEF Worker, mainVars
  <2>3. QED
    BY <1>4, <2>1, <2>2
<1>5. ASSUME NEW j \in Jobs, Worker(j), timer' # timer PROVE KilledOnce'
  <2>1. Deadline(j)
    BY <1>5 DEF Worker, WorkerStep, Start, StartFails, Collect, ReportIssue,
       SkipIssue, FinishReport, SendError, Release, Done
  <2>2. timer[LinterOf(j)] = "fired" /\ timer' = [timer EXCEPT ![LinterOf(j)] = "received"]
    BY <2>1 DEF Deadline, AfterReceive
  <2>3. proc' = [proc EXCEPT ![j] = AfterKill(@)]
    BY <2>1 DEF Deadline
  <2>4. todo' = todo
    BY <1>5 DEF Worker, mainVars
  <2>5. LinterOf(j) \notin todo
    BY <2>1 DEF Deadline, Fresh
  <2>6. \A i \in Jobs : LinterOf(i) = LinterOf(j) => proc[i] # "killed"
    BY <2>2
  <2>7. \A i \in Jobs \ {j} : proc'[i] = proc[i]
    BY <2>3
  <2>8. QED
    BY <2>2, <2>4, <2>5, <2>6, <2>7
<1>6. ASSUME NEW j \in Jobs, NEW out \in Outputs, ProcessExits(j, out)
      PROVE  KilledOnce'
  BY <1>6 DEF ProcessExits, mainVars
<1>7. ASSUME NEW l \in Linters, TimerFires(l) PROVE KilledOnce'
  BY <1>7 DEF TimerFires, mainVars
<1>8. CASE \/ \E j \in Jobs : Spawn(j)
           \/ StartCloser
           \/ \E bits \in SUBSET {0} : FinishOutput(bits)
           \/ \E s \in Sources : WarnError(s)
           \/ Exit
  BY <1>1, <1>8 DEF Spawn, StartCloser, FinishOutput, WarnError, Exit
<1>9. CASE \/ \E j \in Jobs, h \in Hits : FatalHit(j, h)
           \/ Closer
           \/ TakeIssue
           \/ UNCHANGED vars
  BY <1>1, <1>9 DEF FatalHit, Closer, CloseIssues, CloseErrors, TakeIssue,
     mainVars, vars
<1>10. QED
  BY <1>3, <1>4, <1>5, <1>6, <1>7, <1>8, <1>9
     DEF Next, Main, ProcessEnds, Terminated

\* A worker leaves with its output reported or its error sent, and a sent error is
\* only taken out of the channel to be printed.
LEMMA OutputStep == Inv /\ [Next]_vars => OutputKept'
<1> SUFFICES ASSUME Inv, [Next]_vars PROVE OutputKept'
  OBVIOUS
<1> USE JobsAndSplits DEF Inv, Types, OutputKept
<1>1. ASSUME UNCHANGED <<pc, proc, output>>,
             errch \cup warned \subseteq errch' \cup warned'
      PROVE  OutputKept'
  BY <1>1
<1>2. ASSUME NEW l \in Linters, SplitFails(l) \/ SendSplitError(l)
      PROVE  OutputKept'
  BY <1>2 DEF SplitFails, SendSplitError, WithError
<1>3. ASSUME NEW j \in Jobs, Spawn(j) PROVE OutputKept'
  BY <1>3 DEF Spawn, Fresh
<1>4. ASSUME NEW j \in Jobs, Worker(j) PROVE OutputKept'
  <2> USE <1>4 DEF Worker, mainVars
  <2>1. CASE Start(j) \/ StartFails(j) \/ Collect(j)
    BY <2>1 DEF Start, StartFails, Collect
  <2>2. CASE Deadline(j)
    BY <2>2 DEF Deadline
  <2>3. CASE \E h \in Hits : ReportIssue(j, h) \/ SkipIssue(j, h)
    BY <2>3 DEF ReportIssue, SkipIssue, NextHit
  <2>4. CASE FinishReport(j)
    BY <2>4 DEF FinishReport
  <2>5. CASE SendError(j)
    BY <2>5 DEF SendError, WithError
  <2>6. CASE Release(j) \/ Done(j)
    BY <2>6 DEF Release, Done
  <2>7. QED
    BY <2>1, <2>2, <2>3, <2>4, <2>5, <2>6 DEF WorkerStep
<1>5. ASSUME NEW j \in Jobs, NEW out \in Outputs, ProcessExits(j, out)
      PROVE  OutputKept'
  BY <1>5 DEF ProcessExits, mainVars, AliveRuns
<1>6. CASE \/ \E l \in Linters, n \in 0 .. MaxPartitions : Split(l, n)
           \/ StartCloser
           \/ \E bits \in SUBSET {0} : FinishOutput(bits)
           \/ \E s \in Sources : WarnError(s)
           \/ Exit
  BY <1>1, <1>6 DEF Split, StartCloser, FinishOutput, WarnError, Exit
<1>7. CASE \/ \E j \in Jobs, h \in Hits : FatalHit(j, h)
           \/ Closer
           \/ TakeIssue
           \/ \E l \in Linters : TimerFires(l)
           \/ UNCHANGED vars
  BY <1>1, <1>7 DEF FatalHit, Closer, CloseIssues, CloseErrors, TakeIssue,
     TimerFires, mainVars, vars
<1>8. QED
  BY <1>2, <1>3, <1>4, <1>5, <1>6, <1>7
     DEF Next, Main, ProcessEnds, Terminated

\* A linter that could not be split never gets a job.
LEMMA SplitOrRunStep == Inv /\ [Next]_vars => SplitOrRun'
<1> SUFFICES ASSUME Inv, [Next]_vars PROVE SplitOrRun'
  OBVIOUS
<1> USE JobsAndSplits DEF Inv, Types, SplitOrRun, chanVars
<1>1. ASSUME NEW l \in Linters, NEW n \in 0 .. MaxPartitions, Split(l, n)
      PROVE  SplitOrRun'
  <2>1. \A j \in {l} \X (1 .. n) : LinterOf(j) = l
    BY DEF LinterOf
  <2>2. QED
    BY <1>1, <2>1 DEF Split, NextLinter
<1>2. ASSUME NEW l \in Linters, SplitFails(l) PROVE SplitOrRun'
  <2>1. \A s \in Sources \ {Splitting(l)} : pc'[s] = pc[s]
    BY <1>2 DEF SplitFails
  <2>2. \A j \in Jobs : LinterOf(j) = l => j \notin queued /\ pc[j] = "none"
    BY <1>2 DEF SplitFails, NextLinter, Fresh
  <2>3. todo' = todo \ {l} /\ queued' = queued
    BY <1>2 DEF SplitFails, NextLinter
  <2>4. QED
    BY <2>1, <2>2, <2>3
<1>3. ASSUME NEW l \in Linters, SendSplitError(l) PROVE SplitOrRun'
  <2>1. pc[Splitting(l)] = "failed"
    BY <1>3 DEF SendSplitError
  <2>2. \A s \in Sources \ {Splitting(l)} : pc'[s] = pc[s]
    BY <1>3 DEF SendSplitError
  <2>3. UNCHANGED <<todo, queued>>
    BY <1>3 DEF SendSplitError
  <2>4. QED
    BY <2>1, <2>2, <2>3
<1>4. ASSUME NEW j \in Jobs, Spawn(j) PROVE SplitOrRun'
  BY <1>4 DEF Spawn
<1>5. ASSUME NEW j \in Jobs, Worker(j) PROVE SplitOrRun'
  BY <1>5, WorkerMoves
<1>6. CASE \/ StartCloser
           \/ \E bits \in SUBSET {0} : FinishOutput(bits)
           \/ Exit
           \/ \E j \in Jobs, h \in Hits : FatalHit(j, h)
           \/ Closer
  BY <1>6 DEF StartCloser, FinishOutput, Exit, FatalHit, Closer, CloseIssues,
     CloseErrors, mainVars
<1>7. CASE Idle
  BY <1>7 DEF Idle
<1>8. QED
  BY <1>1, <1>2, <1>3, <1>4, <1>5, <1>6, <1>7, OtherSteps
     DEF Next, Main, ProcessEnds, Terminated

\* An error goes from its source to the channel and from there to a warning, and
\* never back.
LEMMA ErrorsStep == Inv /\ [Next]_vars => ErrorsKept'
<1> SUFFICES ASSUME Inv, [Next]_vars PROVE ErrorsKept'
  OBVIOUS
<1> USE JobsAndSplits DEF Inv, Types, ErrorsKept, chanVars
<1>1. ASSUME UNCHANGED <<pc, errch, warned>>,
             main' # "exited" => main # "exited" /\ (1 \in status' <=> 1 \in status)
      PROVE  ErrorsKept'
  BY <1>1
<1>2. ASSUME NEW s \in Sources, pc[s] \in {"none", "ready", "running", "reporting"},
             \A t \in Sources \ {s} : pc'[t] = pc[t],
             UNCHANGED <<errch, warned, status>>,
             main' # "exited" => main # "exited"
      PROVE  ErrorsKept'
  BY <1>2
<1>3. ASSUME NEW l \in Linters, SplitFails(l) PROVE ErrorsKept'
  <2>1. pc[Splitting(l)] = "none"
    BY <1>3 DEF SplitFails, NextLinter, SplitOrRun
  <2>2. QED
    BY <1>2, <1>3, <2>1 DEF SplitFails, NextLinter
<1>4. ASSUME NEW s \in Sources, pc[s] = "failed",
             errch' = WithError(errch, s),
             pc'[s] \in {"leaving", "done"},
             \A t \in Sources \ {s} : pc'[t] = pc[t],
             UNCHANGED <<warned, status>>,
             main' # "exited" => main # "exited"
      PROVE  ErrorsKept'
  BY <1>4 DEF WithError
<1>5. ASSUME NEW l \in Linters, SendSplitError(l) PROVE ErrorsKept'
  BY <1>4, <1>5 DEF SendSplitError
<1>6. ASSUME NEW j \in Jobs, Spawn(j) PROVE ErrorsKept'
  BY <1>2, <1>6 DEF Spawn, Fresh
<1>7. ASSUME NEW s \in Sources, WarnError(s) PROVE ErrorsKept'
  BY <1>7 DEF WarnError
<1>8. ASSUME NEW j \in Jobs, Worker(j) PROVE ErrorsKept'
  <2> USE <1>8 DEF Worker, mainVars
  <2>1. CASE Start(j) \/ StartFails(j) \/ Collect(j)
    BY <1>2, <2>1 DEF Start, StartFails, Collect
  <2>2. CASE Deadline(j) \/ FinishReport(j)
    BY <1>2, <2>2 DEF Deadline, FinishReport
  <2>3. CASE \E h \in Hits : ReportIssue(j, h) \/ SkipIssue(j, h)
    BY <1>1, <2>3 DEF ReportIssue, SkipIssue
  <2>4. CASE SendError(j)
    BY <1>4, <2>4 DEF SendError
  <2>5. CASE Release(j) \/ Done(j)
    BY <2>5 DEF Release, Done
  <2>6. QED
    BY <2>1, <2>2, <2>3, <2>4, <2>5 DEF WorkerStep
<1>9. CASE \/ \E l \in Linters, n \in 0 .. MaxPartitions : Split(l, n)
           \/ StartCloser
           \/ \E bits \in SUBSET {0} : FinishOutput(bits)
           \/ Exit
  BY <1>1, <1>9 DEF Split, StartCloser, FinishOutput, Exit
<1>10. CASE \/ \E j \in Jobs, h \in Hits : FatalHit(j, h)
            \/ Closer
            \/ TakeIssue
            \/ \E j \in Jobs, out \in Outputs : ProcessExits(j, out)
            \/ \E l \in Linters : TimerFires(l)
            \/ UNCHANGED vars
  BY <1>1, <1>10 DEF FatalHit, Closer, CloseIssues, CloseErrors, TakeIssue,
     ProcessExits, TimerFires, mainVars, vars
<1>11. QED
  BY <1>3, <1>5, <1>6, <1>7, <1>8, <1>9, <1>10
     DEF Next, Main, ProcessEnds, Terminated

\* Once main has read the last issue none comes, and once it has read the last
\* error of a closed channel it exits.
LEMMA DrainedStep == Inv /\ [Next]_vars => Drained'
<1> SUFFICES ASSUME Inv, [Next]_vars PROVE Drained'
  OBVIOUS
<1> USE JobsAndSplits DEF Inv, Types, Drained, IssuesClosed, ErrsClosed, Exited
<1>1. CASE \E l \in Linters : \/ \E n \in 0 .. MaxPartitions : Split(l, n)
                             \/ SplitFails(l)
                             \/ SendSplitError(l)
  BY <1>1 DEF Split, SplitFails, SendSplitError, NextLinter, chanVars
<1>2. CASE \E j \in Jobs : Spawn(j)
  BY <1>2 DEF Spawn
<1>3. CASE StartCloser \/ Exit \/ (\E bits \in SUBSET {0} : FinishOutput(bits))
  BY <1>3 DEF StartCloser, Exit, FinishOutput, chanVars
<1>4. CASE \E s \in Sources : WarnError(s)
  BY <1>4 DEF WarnError, chanVars
<1>5. ASSUME NEW j \in Jobs, Worker(j) PROVE Drained'
  <2>1. UNCHANGED <<main, closer>> /\ main # "exited"
    BY <1>5, WorkerMoves DEF Worker
  <2>2. \A l \in Linters : pc'[Splitting(l)] = pc[Splitting(l)]
    BY <1>5, WorkerMoves
  <2>3. ASSUME IssuesClosed PROVE incoming' = incoming
    <3>1. pc[j] # "reporting"
      BY <2>3, ClosedIdle DEF InGroup, HoldsSlot
    <3>2. QED
      BY <1>5, <3>1 DEF Worker, WorkerStep, Start, StartFails, Collect, Deadline,
         ReportIssue, NextHit, SkipIssue, FinishReport, SendError, Release, Done
  <2>4. QED
    BY <2>1, <2>2, <2>3
<1>6. ASSUME NEW j \in Jobs, NEW h \in Hits, FatalHit(j, h) PROVE Drained'
  <2>1. pc[j] = "reporting"
    BY <1>6 DEF FatalHit, NextHit
  <2>2. ~IssuesClosed
    BY <2>1, ClosedIdle DEF InGroup, HoldsSlot
  <2>3. QED
    BY <1>6, <2>2 DEF FatalHit, chanVars
<1>7. CASE Closer
  BY <1>7 DEF Closer, CloseIssues, CloseErrors, mainVars
<1>8. CASE TakeIssue
  BY <1>8 DEF TakeIssue, mainVars, chanVars
<1>9. CASE \/ \E j \in Jobs, out \in Outputs : ProcessExits(j, out)
           \/ \E l \in Linters : TimerFires(l)
           \/ UNCHANGED vars
  BY <1>9 DEF ProcessExits, TimerFires, mainVars, chanVars, vars
<1>10. QED
  BY <1>1, <1>2, <1>3, <1>4, <1>5, <1>6, <1>7, <1>8, <1>9
     DEF Next, Main, ProcessEnds, Terminated

\* Every reachable state satisfies the inductive invariant.
THEOREM InvCorrect == Spec => []Inv
<1>1. Inv /\ [Next]_vars => Inv'
  BY TypesStep, CountedStep, FreshStep, AliveStep, SplitErrorStep, CloserStep,
     KilledStep, OutputStep, SplitOrRunStep, ErrorsStep, DrainedStep
     DEF Inv
<1>2. QED
  BY <1>1, InvInit, PTL DEF Spec

\* The variables keep their types; the semaphore and the WaitGroup are never
\* released more often than taken (execute.go:115-126).
THEOREM TypeCorrect == Spec => []TypeOK
<1>1. Inv => TypeOK
  <2> SUFFICES ASSUME Inv PROVE TypeOK
    OBVIOUS
  <2>1. \A S : Cardinality(JobsIn(pc, S)) \in Nat
    BY JobsFinite, FS_Subset, FS_CardinalityType DEF JobsIn
  <2>2. QED
    BY <2>1 DEF Inv, Counted, TypeOK
<1>2. QED
  BY <1>1, InvCorrect, PTL

\* At most Concurrency linter processes are alive: a live process belongs to a
\* worker in its select, which holds a slot (execute.go:116-126, 164-175).
THEOREM BoundCorrect == Spec => []ConcurrencyBound
<1>1. Inv => ConcurrencyBound
  <2> SUFFICES ASSUME Inv PROVE ConcurrencyBound
    OBVIOUS
  <2> DEFINE Alive == {j \in Jobs : proc[j] = "alive"}
             Slots == JobsIn(pc, HoldsSlot)
  <2>1. Alive \in SUBSET Slots
    BY DEF Inv, AliveRuns, JobsIn, HoldsSlot
  <2>2. IsFiniteSet(Slots)
    BY JobsFinite, FS_Subset DEF JobsIn
  <2>3. Cardinality(Alive) <= Cardinality(Slots)
    BY <2>1, <2>2, FS_Subset
  <2>4. Cardinality(Alive) \in Nat
    BY <2>1, <2>2, FS_Subset, FS_CardinalityType
  <2>5. Cardinality(Slots) = sem /\ sem \in Int /\ sem <= Concurrency
    BY DEF Inv, Counted, Types
  <2>6. QED
    BY <2>3, <2>4, <2>5, BoundsAssumption DEF ConcurrencyBound
<1>2. QED
  BY <1>1, InvCorrect, PTL

\* No send on a closed channel: when the closer has seen the WaitGroup at zero,
\* no worker is before its Done and the loop is over (execute.go:132-136).
THEOREM ClosedCorrect == Spec => []NoSendOnClosed
<1>1. Inv => NoSendOnClosed
  <2> SUFFICES ASSUME Inv, IssuesClosed PROVE NoSendOnClosed
    BY DEF NoSendOnClosed, ErrsClosed, IssuesClosed
  <2>3. \A j \in Jobs : pc[j] \notin InGroup
    BY ClosedIdle
  <2>4. closer # "none"
    BY DEF IssuesClosed
  <2>5. main # "split failed" /\ \A l \in Linters : ~SplitFailing(l)
    BY <2>4 DEF Inv, CloserLast
  <2>6. \A s \in Sources : s \in Jobs \/ \E l \in Linters : s = Splitting(l)
    BY BoundsAssumption DEF Sources, Jobs, Splitting
  <2>7. QED
    BY <2>3, <2>5, <2>6 DEF NoSendOnClosed, InGroup, HoldsSlot, SplitFailing
<1>2. QED
  BY <1>1, InvCorrect, PTL


\* The partitions of a linter share one deadline, which ends at most one of them
\* (execute.go:99, 167).
THEOREM KillCorrect == Spec => []OneKillPerLinter
<1>1. Inv => OneKillPerLinter
  <2> SUFFICES ASSUME Inv, NEW l \in Linters
               PROVE  Cardinality({j \in Jobs : LinterOf(j) = l /\ proc[j] = "killed"}) <= 1
    BY DEF OneKillPerLinter
  <2> DEFINE Killed == {j \in Jobs : LinterOf(j) = l /\ proc[j] = "killed"}
  <2>1. CASE Killed = {}
    BY <2>1, FS_EmptySet
  <2>2. CASE Killed # {}
    <3>1. PICK j \in Jobs : j \in Killed
      BY <2>2
    <3>2. Killed = {j}
      BY <3>1 DEF Inv, KilledOnce
    <3>3. Cardinality({j}) = 1
      BY FS_Singleton
    <3>4. QED
      BY <3>2, <3>3
  <2>3. QED
    BY <2>1, <2>2
<1>2. QED
  BY <1>1, InvCorrect, PTL

\* An exit after the channels are closed leaves no process, worker, issue or error
\* behind, and no output without a warning (main.go:232-247).
THEOREM NothingLeft == Spec => []LeavesNothing
<1>1. Inv => LeavesNothing
  <2> SUFFICES ASSUME Inv, Exited, ErrsClosed
               PROVE  /\ todo = {} /\ queued = {} /\ incoming = <<>> /\ errch = {}
                      /\ \A s \in Sources : pc[s] \in {"none", "done"}
                      /\ \A j \in Jobs : proc[j] # "alive" /\ (output[j] = <<>> \/ j \in warned)
    BY DEF LeavesNothing
  <2>1. incoming = <<>> /\ errch = {}
    BY DEF Inv, Drained
  <2>2. todo = {} /\ queued = {} /\ \A l \in Linters : ~SplitFailing(l)
    BY DEF Inv, CloserLast, ErrsClosed
  <2>3. \A j \in Jobs : pc[j] \in {"none", "done"}
    BY ClosedIdle, JobsAndSplits DEF Inv, Types, SourceAt, InGroup, HoldsSlot, IssuesClosed, ErrsClosed
  <2>4. \A l \in Linters : pc[Splitting(l)] \in {"none", "done"}
    BY <2>2 DEF Inv, Drained, SplitFailing
  <2>5. \A s \in Sources : s \in Jobs \/ \E l \in Linters : s = Splitting(l)
    BY BoundsAssumption DEF Sources, Jobs, Splitting
  <2>6. \A j \in Jobs : proc[j] # "alive"
    BY <2>3 DEF Inv, AliveRuns
  <2>7. \A j \in Jobs : output[j] = <<>> \/ j \in warned
    BY <2>1, <2>3 DEF Inv, OutputKept
  <2>8. QED
    BY <2>1, <2>2, <2>3, <2>4, <2>5, <2>6, <2>7
<1>2. QED
  BY <1>1, InvCorrect, PTL
\* With one partition for each linter, its splitting and its only job do not both
\* fail, so that no two errors are of the same linter.
LEMMA OneErrorPerLinter ==
  ASSUME Inv, MaxPartitions <= 1, NEW s \in Sources, NEW t \in Sources,
         pc[s] # "none", pc[t] # "none", LinterOf(s) = LinterOf(t)
  PROVE  s = t
<1>1. s[2] \in {0, 1} /\ t[2] \in {0, 1}
  BY BoundsAssumption DEF Sources
<1>2. s = <<LinterOf(s), s[2]>> /\ t = <<LinterOf(s), t[2]>> /\ LinterOf(s) \in Linters
  BY DEF Sources, LinterOf
<1>3. ASSUME NEW u \in Sources, NEW v \in Sources, u[2] = 0, v[2] = 1,
             LinterOf(u) = LinterOf(v), pc[u] # "none", pc[v] # "none"
      PROVE  FALSE
  <2>1. v \in Jobs
    BY <1>3, BoundsAssumption DEF Sources, Jobs
  <2>2. u = Splitting(LinterOf(v))
    BY <1>3 DEF Sources, Splitting, LinterOf
  <2>3. QED
    BY <1>3, <2>1, <2>2 DEF Inv, SplitOrRun
<1>4. s[2] = t[2]
  BY <1>1, <1>3
<1>5. QED
  BY <1>2, <1>4

\* With one partition for each linter, errch has room for every error, so that no
\* failure blocks its worker or main (execute.go:68, 111, 123).
THEOREM ErrorsFit ==
  ASSUME MaxPartitions <= 1 PROVE Spec => []NoErrorBlocks
<1>1. Inv => NoErrorBlocks
  <2> SUFFICES ASSUME Inv, NEW s \in Sources, pc[s] = "failed" PROVE ErrRoom
    BY DEF NoErrorBlocks
  <2> DEFINE Errors == errch \cup {s}
             linter == [e \in Errors |-> LinterOf(e)]
  <2>1. Errors \subseteq Sources /\ s \notin errch /\ \A e \in Errors : pc[e] # "none"
    BY DEF Inv, Types, ErrorsKept
  <2>2. linter \in Injection(Errors, Linters)
    <3>1. \A e \in Sources : LinterOf(e) \in Linters
      BY DEF Sources, LinterOf
    <3>2. \A e, f \in Errors : linter[e] = linter[f] => e = f
      BY <2>1, OneErrorPerLinter
    <3>3. linter \in [Errors -> Linters]
      BY <2>1, <3>1
    <3>4. QED
      BY <3>2, <3>3 DEF Injection, IsInjective
  <2>3. Cardinality(Errors) <= Cardinality(Linters)
    BY <2>2, FS_Injection, LintersAssumption
  <2>4. IsFiniteSet(errch) /\ Cardinality(errch) \in Nat
    BY SourcesFinite, FS_Subset, FS_CardinalityType DEF Inv, Types
  <2>5. Cardinality(Errors) = Cardinality(errch) + 1
    BY <2>1, <2>4, FS_AddElement
  <2>6. Cardinality(Linters) \in Nat
    BY FS_CardinalityType, LintersAssumption
  <2>7. QED
    BY <2>3, <2>4, <2>5, <2>6 DEF ErrRoom, ErrCap
<1>2. QED
  BY <1>1, InvCorrect, PTL

-----------------------------------------------------------------------------
(***************************************************************************)
(* Scheduler keeps the promise of LintPromise: every step of the           *)
(* goroutines divides, reports, fails, tells, finishes or aborts, or       *)
(* changes nothing that the promise speaks of.                             *)
(***************************************************************************)

\* What has become of every source.
Outcome == [s \in Sources |-> OutcomeOf(s)]

\* The pieces of work of the promise are the sources.
LEMMA WorkIsSources == Promise!Work = Sources
BY DEF Promise!Work, Sources

\* A step that leaves each outcome, the warnings and the end of the program alone is
\* none for the promise.
LEMMA Unseen ==
  ASSUME Outcome' = Outcome, UNCHANGED warned,
         Exited' <=> Exited, Exited => UNCHANGED status
  PROVE  UNCHANGED Promise!vars
<1>1. CASE Exited
  <2>1. Exited' /\ status' = status
    BY <1>1
  <2>2. QED
    BY <1>1, <2>1 DEF Promise!vars, Outcome
<1>2. CASE ~Exited
  <2>1. ~Exited'
    BY <1>2
  <2>2. QED
    BY <1>2, <2>1 DEF Promise!vars, Outcome
<1>3. QED
  BY <1>1, <1>2

\* Steps that leave the sources, the loop and the errors alone change no outcome.
LEMMA SameOutcome ==
  ASSUME UNCHANGED <<todo, queued, pc, errch, warned>>
  PROVE  Outcome' = Outcome
<1>1. \A s \in Sources : OutcomeOf(s)' = OutcomeOf(s)
  BY DEF OutcomeOf, HasFailed
<1>2. QED
  BY <1>1 DEF Outcome

\* A source whose error does not exist yet has the outcome of its place.
LEMMA NotFailed ==
  ASSUME Inv, NEW s \in Sources, pc[s] \in {"none", "ready", "running", "reporting"}
  PROVE  ~HasFailed(s)
BY DEF Inv, ErrorsKept, HasFailed

\* The sources are the splittings and the jobs.
LEMMA SourceKinds ==
  ASSUME NEW s \in Sources
  PROVE  /\ s[2] = 0 => s = Splitting(s[1]) /\ s[1] \in Linters
         /\ s[2] # 0 => s \in Jobs
BY BoundsAssumption DEF Sources, Jobs, Splitting

\* The initial states promise everything.
LEMMA RefinesInit == Init => Promise!Init
<1> SUFFICES ASSUME Init PROVE Promise!Init
  OBVIOUS
<1>1. \A s \in Sources : OutcomeOf(s) = IF s[2] = 0 THEN "pending" ELSE "unplanned"
  BY SourceKinds DEF Init, OutcomeOf, HasFailed
<1>2. Outcome = [w \in Promise!Work |-> IF w[2] = 0 THEN "pending" ELSE "unplanned"]
  BY <1>1, WorkIsSources DEF Outcome
<1>3. QED
  BY <1>2 DEF Promise!Init, Outcome, Init, Exited
-----------------------------------------------------------------------------
\* While the program runs, the promise sees the warnings and nothing of the status.
LEMMA StillRunning ==
  ASSUME ~Exited, ~Exited', UNCHANGED warned
  PROVE  UNCHANGED <<warned, Exited, IF Exited THEN status ELSE {}>>
BY DEF Exited

\* One source that goes from pending to an outcome settles its piece of work.
LEMMA Settles ==
  ASSUME NEW s \in Sources, NEW how, OutcomeOf(s) = "pending",
         OutcomeOf(s)' = how,
         \A t \in Sources \ {s} : OutcomeOf(t)' = OutcomeOf(t),
         ~Exited, ~Exited', UNCHANGED warned
  PROVE  Promise!Settle(s, how)
<1>1. Outcome[s] = "pending"
  BY DEF Outcome
<1>2. Outcome' = [Outcome EXCEPT ![s] = how]
  BY DEF Outcome
<1>3. UNCHANGED <<warned, Exited, IF Exited THEN status ELSE {}>>
  BY StillRunning
<1>4. QED
  BY <1>1, <1>2, <1>3, Zenon DEF Promise!Settle, Outcome

\* A worker's step that gives its job an outcome settles it; any other step of a
\* worker is none for the promise.
LEMMA WorkerRefines ==
  ASSUME Inv, NEW j \in Jobs, Worker(j)
  PROVE  Promise!Report(j) \/ Promise!Fail(j) \/ UNCHANGED Promise!vars
<1> USE JobsAndSplits DEF Inv, Types
<1>1. /\ ~Exited /\ ~Exited'
      /\ UNCHANGED <<todo, queued, warned>>
      /\ \A t \in Sources \ {j} : pc'[t] = pc[t]
  BY WorkerMoves DEF Worker, mainVars, Exited
<1>2. j \in Sources /\ j[2] > 0
  BY BoundsAssumption DEF Jobs
<1>3. j \notin queued
  BY WorkerMoves DEF Fresh
<1>4. ASSUME errch' = errch
      PROVE  \A t \in Sources \ {j} : OutcomeOf(t)' = OutcomeOf(t)
  BY <1>1, <1>4 DEF OutcomeOf, HasFailed
<1>5. ASSUME errch' = errch, OutcomeOf(j)' = OutcomeOf(j)
      PROVE  UNCHANGED Promise!vars
  <2>1. Outcome' = Outcome
    BY <1>4, <1>5 DEF Outcome
  <2>2. QED
    BY <1>1, <2>1, Unseen
<1>6. ASSUME errch' = errch, pc[j] \in {"ready", "running", "reporting"},
             pc'[j] \in {"ready", "running", "reporting"}
      PROVE  UNCHANGED Promise!vars
  <2>1. OutcomeOf(j)' = OutcomeOf(j)
    BY <1>1, <1>2, <1>6, NotFailed DEF OutcomeOf, HasFailed
  <2>2. QED
    BY <1>5, <1>6, <2>1
<1>7. ASSUME errch' = errch, pc[j] \in {"ready", "running", "reporting"},
             pc'[j] = "failed"
      PROVE  Promise!Fail(j)
  <2>1. OutcomeOf(j) = "pending" /\ OutcomeOf(j)' = "failed"
    BY <1>2, <1>7, NotFailed DEF OutcomeOf, HasFailed
  <2>2. QED
    BY <1>1, <1>2, <1>4, <1>7, <2>1, Settles DEF Promise!Fail
<1>8. ASSUME errch' = errch, pc[j] = "reporting", pc'[j] = "leaving"
      PROVE  Promise!Report(j)
  <2>1. OutcomeOf(j) = "pending" /\ OutcomeOf(j)' = "reported"
    BY <1>1, <1>2, <1>3, <1>8, NotFailed DEF OutcomeOf, HasFailed
  <2>2. QED
    BY <1>1, <1>2, <1>4, <1>8, <2>1, Settles DEF Promise!Report
<1>9. CASE Start(j) \/ Collect(j)
  BY <1>6, <1>9 DEF Start, Collect
<1>10. CASE StartFails(j) \/ Deadline(j)
  BY <1>7, <1>10 DEF StartFails, Deadline
<1>11. CASE \E h \in Hits : ReportIssue(j, h) \/ SkipIssue(j, h)
  BY <1>6, <1>11 DEF ReportIssue, SkipIssue, NextHit
<1>12. CASE FinishReport(j)
  BY <1>8, <1>12 DEF FinishReport
<1>13. CASE SendError(j)
  <2>1. \A t \in Sources : HasFailed(t)' <=> HasFailed(t)
    BY <1>1, <1>13 DEF SendError, WithError, HasFailed
  <2>2. pc[j] = "failed"
    BY <1>13 DEF SendError
  <2>3. \A t \in Sources : OutcomeOf(t)' = OutcomeOf(t)
    BY <1>1, <2>1, <2>2 DEF OutcomeOf, HasFailed
  <2>4. Outcome' = Outcome
    BY <2>3 DEF Outcome
  <2>5. QED
    BY <1>1, <2>4, Unseen
<1>14. CASE Release(j) \/ Done(j)
  <2>1. /\ errch' = errch
        /\ pc[j] \in {"leaving", "released"} /\ pc'[j] \in {"released", "done"}
    BY <1>14 DEF Release, Done
  <2>2. OutcomeOf(j)' = OutcomeOf(j)
    BY <1>1, <1>2, <1>3, <2>1 DEF OutcomeOf, HasFailed
  <2>3. QED
    BY <1>5, <2>1, <2>2
<1>15. QED
  BY <1>9, <1>10, <1>11, <1>12, <1>13, <1>14 DEF Worker, WorkerStep

\* The loop divides a linter or fails to, and tells nobody.
LEMMA SplitRefines ==
  ASSUME Inv, NEW l \in Linters, NEW n \in 0 .. MaxPartitions, Split(l, n)
  PROVE  Promise!Divide(l, n)
<1> USE JobsAndSplits DEF Inv, Types
<1>1. /\ main = "range" /\ l \in todo /\ todo' = todo \ {l}
      /\ queued = {} /\ queued' = {l} \X (1 .. n)
      /\ UNCHANGED <<main, pc, errch, warned>>
  BY DEF Split, NextLinter
<1>2. ~Exited /\ ~Exited'
  BY <1>1 DEF Exited
<1>3. pc[Splitting(l)] = "none" /\ \A j \in Jobs : LinterOf(j) = l => pc[j] = "none"
  BY <1>1 DEF SplitOrRun, Fresh
<1>4. \A s \in Sources : s[1] = l => pc[s] = "none" /\ ~HasFailed(s)
  BY <1>3, SourceKinds, NotFailed DEF LinterOf
<1>5. \A s \in Sources : HasFailed(s)' <=> HasFailed(s)
  BY <1>1 DEF HasFailed
<1>6. OutcomeOf(Splitting(l)) = "pending" /\ OutcomeOf(Splitting(l))' = "reported"
  BY <1>1, <1>4, <1>5 DEF OutcomeOf, Splitting
<1>7. ASSUME NEW s \in Sources, s # Splitting(l)
      PROVE  OutcomeOf(s)' = IF s[1] = l /\ s[2] <= n THEN "pending" ELSE OutcomeOf(s)
  <2>1. CASE s[1] = l
    <3>1. s[2] # 0 /\ s \in Jobs
      BY <1>7, <2>1, SourceKinds
    <3>2. s \in queued' <=> s[2] <= n
      BY <1>1, <2>1, <3>1 DEF Jobs
    <3>3. QED
      BY <1>1, <1>4, <1>5, <2>1, <3>1, <3>2 DEF OutcomeOf
  <2>2. CASE s[1] # l
    <3>1. s \notin queued' /\ s \notin queued
      BY <1>1, <2>2
    <3>2. s[1] \in todo' <=> s[1] \in todo
      BY <1>1, <2>2
    <3>3. QED
      BY <1>1, <1>5, <2>2, <3>1, <3>2 DEF OutcomeOf
  <2>3. QED
    BY <2>1, <2>2
<1>8. Outcome[<<l, 0>>] = "pending"
  BY <1>6 DEF Outcome, Splitting
<1>9. Outcome' = [w \in Promise!Work |-> IF w = <<l, 0>> THEN "reported"
                                         ELSE IF w[1] = l /\ w[2] <= n THEN "pending"
                                         ELSE Outcome[w]]
  BY <1>6, <1>7, WorkIsSources DEF Outcome, Splitting
<1>10. UNCHANGED <<warned, Exited, IF Exited THEN status ELSE {}>>
  BY <1>1, <1>2, StillRunning
<1>11. QED
  BY <1>2, <1>8, <1>9, <1>10, Zenon DEF Promise!Divide, Outcome

\* A splitting that fails is a failure of its piece of work.
LEMMA SplitFailsRefines ==
  ASSUME Inv, NEW l \in Linters, SplitFails(l)
  PROVE  Promise!Fail(Splitting(l))
<1> USE JobsAndSplits DEF Inv, Types
<1>1. /\ main = "range" /\ main' = "split failed" /\ l \in todo /\ todo' = todo \ {l}
      /\ UNCHANGED <<queued, errch, warned>>
      /\ pc' = [pc EXCEPT ![Splitting(l)] = "failed"]
  BY DEF SplitFails, NextLinter
<1>2. pc[Splitting(l)] = "none"
  BY <1>1 DEF SplitOrRun
<1>3. OutcomeOf(Splitting(l)) = "pending"
  BY <1>1, <1>2, NotFailed DEF OutcomeOf, Splitting
<1>4. OutcomeOf(Splitting(l))' = "failed"
  BY <1>1 DEF OutcomeOf, HasFailed
<1>5. ASSUME NEW s \in Sources \ {Splitting(l)} PROVE OutcomeOf(s)' = OutcomeOf(s)
  <2>1. pc'[s] = pc[s] /\ (HasFailed(s)' <=> HasFailed(s))
    BY <1>1 DEF HasFailed
  <2>2. s[2] = 0 => (s[1] \in todo' <=> s[1] \in todo)
    BY <1>1, SourceKinds
  <2>3. QED
    BY <1>1, <2>1, <2>2 DEF OutcomeOf
<1>6. QED
  BY <1>1, <1>3, <1>4, <1>5, Settles DEF Promise!Fail, Exited

\* Sending the error of a splitting and starting a worker change no outcome.
LEMMA LoopRefines ==
  ASSUME Inv, \/ \E l \in Linters : SendSplitError(l)
              \/ \E j \in Jobs : Spawn(j)
  PROVE  UNCHANGED Promise!vars
<1> USE JobsAndSplits DEF Inv, Types
<1>1. CASE \E l \in Linters : SendSplitError(l)
  <2>1. PICK l \in Linters : SendSplitError(l)
    BY <1>1
  <2>2. \A s \in Sources : HasFailed(s)' <=> HasFailed(s)
    BY <2>1 DEF SendSplitError, WithError, HasFailed
  <2>3. \A s \in Sources : HasFailed(s) \/ pc'[s] = pc[s]
    BY <2>1 DEF SendSplitError, HasFailed
  <2>4. \A s \in Sources : OutcomeOf(s)' = OutcomeOf(s)
    BY <2>1, <2>2, <2>3 DEF SendSplitError, OutcomeOf
  <2>5. Outcome' = Outcome
    BY <2>4 DEF Outcome
  <2>6. QED
    BY <2>1, <2>5, Unseen DEF SendSplitError, Exited
<1>2. CASE \E j \in Jobs : Spawn(j)
  <2>1. PICK j \in Jobs : Spawn(j)
    BY <1>2
  <2>2. pc[j] = "none" /\ pc'[j] = "ready" /\ j \in queued /\ j[2] # 0
    BY <2>1, BoundsAssumption DEF Spawn, Fresh, Jobs
  <2>3. \A s \in Sources \ {j} : pc'[s] = pc[s] /\ (s \in queued' <=> s \in queued)
    BY <2>1 DEF Spawn
  <2>4. \A s \in Sources : HasFailed(s)' <=> HasFailed(s)
    BY <2>1, <2>2, <2>3 DEF Spawn, HasFailed
  <2>5. \A s \in Sources : OutcomeOf(s)' = OutcomeOf(s)
    BY <2>1, <2>2, <2>3, <2>4 DEF Spawn, OutcomeOf
  <2>6. Outcome' = Outcome
    BY <2>5 DEF Outcome
  <2>7. QED
    BY <2>1, <2>6, Unseen DEF Spawn, Exited
<1>3. QED
  BY <1>1, <1>2

\* A warning tells one failure that had not been told.
LEMMA WarningRefines ==
  ASSUME Inv, NEW s \in Sources, WarnError(s)
  PROVE  Promise!Tell(s)
<1> USE DEF Inv, Types
<1>1. /\ main = "draining" /\ s \in errch /\ s \notin warned
      /\ warned' = warned \cup {s} /\ errch' = errch \ {s}
      /\ UNCHANGED <<main, todo, queued, pc>>
  BY DEF WarnError, ErrorsKept
<1>2. \A t \in Sources : HasFailed(t)' <=> HasFailed(t)
  BY <1>1 DEF HasFailed
<1>3. \A t \in Sources : OutcomeOf(t)' = OutcomeOf(t)
  BY <1>1, <1>2 DEF OutcomeOf
<1>4. Outcome' = Outcome /\ Outcome[s] = "failed"
  BY <1>1, <1>3 DEF Outcome, OutcomeOf, HasFailed
<1>5. ~Exited /\ UNCHANGED <<Exited, IF Exited THEN status ELSE {}>>
  BY <1>1 DEF Exited
<1>6. UNCHANGED <<Outcome, Exited, IF Exited THEN status ELSE {}>>
  BY <1>4, <1>5
<1>7. QED
  BY <1>1, <1>4, <1>5, <1>6, Zenon DEF Promise!Tell, Outcome

\* When main has drained both channels, nothing is pending and every failure has
\* been told.
LEMMA SettledAtEnd ==
  ASSUME Inv, main = "draining", errch = {}, ErrsClosed
  PROVE  \A s \in Sources : /\ OutcomeOf(s) # "pending"
                            /\ OutcomeOf(s) = "failed" <=> s \in warned
<1> USE JobsAndSplits DEF Inv, Types
<1>1. IssuesClosed /\ closer # "none"
  BY DEF ErrsClosed, IssuesClosed
<1>2. todo = {} /\ queued = {} /\ \A l \in Linters : ~SplitFailing(l)
  BY <1>1 DEF CloserLast
<1>3. \A j \in Jobs : pc[j] \notin InGroup
  BY <1>1, ClosedIdle
<1>4. \A s \in Sources : pc[s] # "failed"
  BY <1>2, <1>3, SourceKinds DEF SplitFailing, InGroup, HoldsSlot
<1>5. \A s \in Sources : HasFailed(s) <=> s \in warned
  BY <1>4 DEF HasFailed
<1>6. \A j \in Jobs : pc[j] \notin {"ready", "running", "reporting"}
  BY <1>3 DEF InGroup, HoldsSlot
<1>7. ASSUME NEW s \in Sources
      PROVE  OutcomeOf(s) # "pending" /\ (OutcomeOf(s) = "failed" <=> s \in warned)
  BY <1>2, <1>5, <1>6, SourceKinds DEF OutcomeOf
<1>8. QED
  BY <1>7

\* The exit finishes what was promised.
LEMMA ExitRefines ==
  ASSUME Inv, Exit
  PROVE  \E code \in SUBSET {0, 1} : Promise!Finish(code)
<1> USE DEF Inv, Types
<1>1. /\ main = "draining" /\ main' = "exited" /\ errch = {} /\ ErrsClosed
      /\ UNCHANGED <<todo, queued, pc, errch, warned, status>>
  BY DEF Exit
<1>2. Promise!Failures = warned
  <2>1. Promise!Failures = {s \in Sources : Outcome[s] = "failed"}
    BY WorkIsSources, Zenon DEF Promise!Failures, Outcome
  <2>2. {s \in Sources : Outcome[s] = "failed"} = warned
    BY <1>1, SettledAtEnd DEF Outcome
  <2>3. QED
    BY <2>1, <2>2
<1>3. \A w \in Promise!Work : Outcome[w] # "pending"
  BY <1>1, SettledAtEnd, WorkIsSources DEF Outcome
<1>4. 1 \in status <=> Promise!Failures # {}
  BY <1>1, <1>2 DEF ErrorsKept
<1>5. ~Exited /\ Exited' = TRUE /\ (IF Exited THEN status ELSE {})' = status
  BY <1>1 DEF Exited
<1>6. UNCHANGED <<Outcome, warned>>
  BY <1>1, SameOutcome
<1>7. Promise!Finish(status)
  BY <1>2, <1>3, <1>4, <1>5, <1>6, Zenon DEF Promise!Finish, Outcome
<1>8. QED
  BY <1>7

\* A malformed hit aborts.
LEMMA FatalRefines ==
  ASSUME Inv, NEW j \in Jobs, NEW h \in Hits, FatalHit(j, h)
  PROVE  Promise!Abort
<1>1. ~Exited /\ main' = "exited" /\ status' = {0}
      /\ UNCHANGED <<todo, queued, pc, errch, warned>>
  BY DEF FatalHit
<1>2. Exited' = TRUE /\ (IF Exited THEN status ELSE {})' = {0}
  BY <1>1 DEF Exited
<1>3. UNCHANGED <<Outcome, warned>>
  BY <1>1, SameOutcome
<1>4. QED
  BY <1>1, <1>2, <1>3, Zenon DEF Promise!Abort, Outcome

-----------------------------------------------------------------------------
\* Every step of the goroutines is a step of the promise or none.
LEMMA RefinesStep == Inv /\ [Next]_vars => [Promise!Next]_(Promise!vars)
<1> SUFFICES ASSUME Inv, [Next]_vars PROVE [Promise!Next]_(Promise!vars)
  OBVIOUS
<1>1. ASSUME NEW l \in Linters, NEW n \in 0 .. MaxPartitions, Split(l, n)
      PROVE  Promise!Next
  BY <1>1, SplitRefines DEF Promise!Next
<1>2. ASSUME NEW l \in Linters, SplitFails(l) PROVE Promise!Next
  BY <1>2, SplitFailsRefines, JobsAndSplits, WorkIsSources DEF Promise!Next
<1>3. CASE \/ \E l \in Linters : SendSplitError(l)
           \/ \E j \in Jobs : Spawn(j)
  BY <1>3, LoopRefines
<1>4. ASSUME NEW s \in Sources, WarnError(s) PROVE Promise!Next
  BY <1>4, WarningRefines, WorkIsSources DEF Promise!Next
<1>5. CASE Exit
  BY <1>5, ExitRefines DEF Promise!Next
<1>6. ASSUME NEW j \in Jobs, Worker(j) PROVE [Promise!Next]_(Promise!vars)
  BY <1>6, WorkerRefines, JobsAndSplits, WorkIsSources DEF Promise!Next
<1>7. ASSUME NEW j \in Jobs, NEW h \in Hits, FatalHit(j, h) PROVE Promise!Next
  BY <1>7, FatalRefines DEF Promise!Next
<1>8. CASE StartCloser \/ (\E bits \in SUBSET {0} : FinishOutput(bits))
  <2>1. UNCHANGED <<todo, queued, pc, errch, warned>> /\ ~Exited /\ ~Exited'
    BY <1>8 DEF StartCloser, FinishOutput, Exited
  <2>2. QED
    BY <2>1, SameOutcome, Unseen
<1>9. CASE \/ Closer
           \/ TakeIssue
           \/ \E j \in Jobs, out \in Outputs : ProcessExits(j, out)
           \/ \E l \in Linters : TimerFires(l)
           \/ UNCHANGED vars
  <2>1. UNCHANGED <<todo, queued, pc, errch, warned, main, status>>
    BY <1>9 DEF Closer, CloseIssues, CloseErrors, TakeIssue, ProcessExits,
       TimerFires, mainVars, vars
  <2>2. Exited' <=> Exited
    BY <2>1 DEF Exited
  <2>3. QED
    BY <2>1, <2>2, SameOutcome, Unseen
<1>10. QED
  BY <1>1, <1>2, <1>3, <1>4, <1>5, <1>6, <1>7, <1>8, <1>9
     DEF Next, Main, ProcessEnds, Terminated

\* The scheduler keeps the promise: no linter is forgotten, nothing is reported twice
\* or both reported and failed, every failure is told before the exit and sets bit 1
\* of the status (execute.go:67-138, main.go:232-247).
THEOREM PromiseKept == Spec => KeepsPromise
<1>1. QED
  BY InvCorrect, RefinesInit, RefinesStep, PTL
     DEF Spec, KeepsPromise, Promise!Spec

===============================================================================
