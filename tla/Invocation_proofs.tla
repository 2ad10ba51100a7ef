-------------------------- MODULE Invocation_proofs --------------------------
(***************************************************************************)
(* Proofs about Invocation, for any linters, outputs, capacities and       *)
(* stages: it does what Scheduler does, its stages close in order, and     *)
(* once it is out of room it stays so.                                     *)
(***************************************************************************)
EXTENDS Invocation, Scheduler_proofs

\* What a step with stages does to the scheduler, to the stages, or to both.
LEMMA StepsOfScheduler ==
  ASSUME [InvocationNext]_invocationVars
  PROVE  [Next]_vars
<1>1. CASE MainStep
  BY <1>1 DEF MainStep, ReadOutput, Next
<1>2. ASSUME NEW s \in Stages, StageStep(s) PROVE [Next]_vars
  BY <1>2 DEF StageStep, Take, Pass, FinishTaking, CloseStage, Next
<1>3. ASSUME NEW j \in Jobs, WorkerOrFatal(j) \/ ProcessEnds(j) PROVE Next
  BY <1>3 DEF WorkerOrFatal, Next
<1>4. CASE Closer \/ (\E l \in Linters : TimerFires(l)) \/ Terminated
  BY <1>4 DEF Next
<1>5. CASE UNCHANGED invocationVars
  BY <1>5 DEF invocationVars
<1>6. QED
  BY <1>1, <1>2, <1>3, <1>4, <1>5 DEF InvocationNext

\* The scheduler behaves as Scheduler says also when the stages take its issues, so
\* that everything proved about Scheduler holds of a whole invocation.
THEOREM ImplementsScheduler == InvocationSpec => Spec
<1>1. InvocationInit => Init
  BY DEF InvocationInit
<1>2. QED
  BY <1>1, StepsOfScheduler, PTL DEF InvocationSpec, Spec

\* What was proved about the scheduler, for an invocation with its stages: one
\* inductive invariant, the types and counters, the bound on processes, one kill for
\* each deadline, no send on a closed channel, nothing left behind, and the promise
\* (execute.go:67-138, main.go:232-247).
THEOREM SchedulerHolds ==
  InvocationSpec => /\ [](Inv /\ TypeOK /\ ConcurrencyBound /\ OneKillPerLinter)
                    /\ [](NoSendOnClosed /\ LeavesNothing)
                    /\ KeepsPromise
BY ImplementsScheduler, InvCorrect, TypeCorrect, BoundCorrect, KillCorrect,
   ClosedCorrect, NothingLeft, PromiseKept, PTL

-----------------------------------------------------------------------------
\* The stages are three; the last one and the one before another are among them.
LEMMA StageNames ==
  ASSUME FlowTypeOK
  PROVE  /\ LastStage \in enabled
         /\ \A s \in enabled : s \in Stages
         /\ \A s \in enabled : ~IsFirst(s) => Previous(s) \in enabled /\ Previous(s) # s
BY DEF FlowTypeOK, Stages, LastStage, IsFirst, Previous

\* The invariant holds when the program starts.
LEMMA FlowInit == InvocationInit => FlowInv
<1> SUFFICES ASSUME InvocationInit PROVE FlowInv
  OBVIOUS
<1>1. enabled \subseteq Stages /\ "filter" \in enabled
  BY DEF InvocationInit, Stages
<1>2. FlowTypeOK
  BY <1>1, BoundsAssumption DEF InvocationInit, FlowTypeOK, Stages
<1>3. \A s \in enabled : stage[s] = "reading"
  BY <1>1 DEF InvocationInit
<1>4. main = "range"
  BY DEF InvocationInit, Init
<1>5. QED
  BY <1>2, <1>3, <1>4 DEF FlowInv, Exited

\* Once the channel of issues is closed and empty, it stays so.
LEMMA InputStaysOver ==
  ASSUME Inv, [Next]_vars, IssuesClosed, incoming = <<>>
  PROVE  IssuesClosed' /\ incoming' = <<>>
<1> USE DEF Inv, Types, CloserLast, IssuesClosed, chanVars, mainVars
<1>1. ASSUME NEW j \in Jobs, Worker(j) PROVE IssuesClosed' /\ incoming' = <<>>
  <2>1. pc[j] # "reporting" /\ closer' = closer
    BY <1>1, ClosedIdle, WorkerMoves DEF InGroup, HoldsSlot
  <2>2. QED
    BY <1>1, <2>1 DEF Worker, WorkerStep, Start, StartFails, Collect, Deadline,
       ReportIssue, NextHit, SkipIssue, FinishReport, SendError, Release, Done
<1>2. CASE Main
  <2>1. main # "range"
    BY DEF IssuesClosed
  <2>2. QED
    BY <1>2, <2>1 DEF Main, Split, SplitFails, SendSplitError, NextLinter, Spawn,
       StartCloser, FinishOutput, WarnError, Exit
<1>3. CASE \/ \E j \in Jobs, h \in Hits : FatalHit(j, h)
           \/ Closer
           \/ TakeIssue
           \/ \E j \in Jobs, out \in Outputs : ProcessExits(j, out)
           \/ \E l \in Linters : TimerFires(l)
           \/ UNCHANGED vars
  BY <1>3 DEF FatalHit, Closer, CloseIssues, CloseErrors, TakeIssue, ProcessExits,
     TimerFires, vars
<1>4. QED
  BY <1>1, <1>2, <1>3 DEF Next, ProcessEnds, Terminated

\* The steps of the scheduler leave the stages alone, and take main to the end of
\* its reading only when the output is over.
LEMMA SchedulerKeepsFlow ==
  ASSUME Inv, FlowInv, [Next]_vars, UNCHANGED flow,
         main = "reading" /\ main' = "draining" => OutputOver
  PROVE  FlowInv'
<1> USE DEF Inv, FlowInv, flow
<1>1. FlowTypeOK'
  BY DEF FlowTypeOK
<1>2. ASSUME NEW s \in enabled, InputOver(s) PROVE InputOver(s)'
  BY <1>2, InputStaysOver DEF InputOver, IsFirst, Previous
<1>3. \A s \in enabled' : stage'[s] # "reading" => InputOver(s)'
  BY <1>2
<1>4. OutputOver => OutputOver'
  BY DEF OutputOver, LastStage
<1>5. ASSUME main' = "draining" \/ (Exited' /\ ErrsClosed')
      PROVE  main = "draining" \/ (Exited /\ ErrsClosed) \/ OutputOver
  <2>1. CASE UNCHANGED vars
    BY <1>5, <2>1 DEF vars, Exited, ErrsClosed
  <2>2. ASSUME NEW j \in Jobs, NEW h \in Hits, FatalHit(j, h)
        PROVE  main = "draining" \/ (Exited /\ ErrsClosed) \/ OutputOver
    <3>1. pc[j] = "reporting" /\ closer' = closer /\ main' = "exited"
      BY <2>2 DEF FatalHit, NextHit, chanVars
    <3>2. ~IssuesClosed
      BY <3>1, ClosedIdle DEF InGroup, HoldsSlot
    <3>3. QED
      BY <1>5, <3>1, <3>2 DEF ErrsClosed, IssuesClosed
  <2>3. CASE Main
    BY <1>5, <2>3 DEF Main, Split, SplitFails, SendSplitError, NextLinter, Spawn,
       StartCloser, FinishOutput, WarnError, Exit, Exited, ErrsClosed, chanVars
  <2>4. CASE \/ \E j \in Jobs : Worker(j)
             \/ Closer
             \/ TakeIssue
             \/ \E j \in Jobs, out \in Outputs : ProcessExits(j, out)
             \/ \E l \in Linters : TimerFires(l)
    <3>1. main' = main /\ (Exited => closer' = closer)
      BY <2>4, WorkerMoves DEF Worker, Closer, CloseIssues, CloseErrors, TakeIssue,
         ProcessExits, TimerFires, mainVars, chanVars
    <3>2. QED
      BY <1>5, <3>1 DEF Exited, ErrsClosed
  <2>5. QED
    BY <2>1, <2>2, <2>3, <2>4 DEF Next, ProcessEnds, Terminated
<1>6. QED
  BY <1>1, <1>3, <1>4, <1>5

\* A stage's own steps keep the invariant: it takes nothing once its input is over,
\* and passes nothing on once it is closed.
LEMMA StageKeepsFlow ==
  ASSUME Inv, FlowInv, NEW s \in Stages, StageStep(s)
  PROVE  FlowInv'
<1> USE DEF FlowInv
<1>1. /\ s \in enabled /\ ~Exited /\ enabled' = enabled
      /\ UNCHANGED <<main, closer>> /\ [Next]_vars
  BY StepsOfScheduler DEF StageStep, Take, Pass, FinishTaking, CloseStage, TakeIssue,
     mainVars, chanVars, vars, InvocationNext
<1>2. \A t \in enabled : t \in Stages
  BY StageNames
<1>3. FlowTypeOK'
  <2>1. CASE Take(s)
    <3>1. After(s, kept[s]) \subseteq Nat
      BY <1>2 DEF After, FlowTypeOK, Stages
    <3>2. chan' \in [Stages -> 0 .. IssueCap]
      BY <2>1, <1>1, StageNames, BoundsAssumption DEF Take, FlowTypeOK
    <3>3. kept' \in [Stages -> Nat]
      BY <2>1, <3>1 DEF Take, FlowTypeOK
    <3>4. stage'["filter"] = "reading" => kept'["filter"] <= 1
      BY <2>1 DEF Take, FlowTypeOK, After, Collecting, Stages
    <3>5. QED
      BY <2>1, <3>2, <3>3, <3>4 DEF Take, FlowTypeOK
  <2>2. CASE Pass(s)
    BY <2>2, BoundsAssumption DEF Pass, RoomBehind, FlowTypeOK, Stages
  <2>3. CASE FinishTaking(s)
    BY <2>3, WarningsAssumption DEF FinishTaking, FlowTypeOK, Stages
  <2>4. CASE CloseStage(s)
    BY <2>4 DEF CloseStage, FlowTypeOK, Stages
  <2>5. QED
    BY <2>1, <2>2, <2>3, <2>4 DEF StageStep
<1>4. ASSUME NEW t \in enabled, InputOver(t) PROVE InputOver(t)'
  <2>1. CASE IsFirst(t)
    BY <1>1, <1>4, <2>1, InputStaysOver DEF InputOver, IsFirst
  <2>2. CASE ~IsFirst(t)
    <3> DEFINE p == Previous(t)
    <3>1. p \in enabled /\ stage[p] = "closed" /\ chan[p] = 0 /\ kept[p] = 0
      BY <1>4, <2>2, StageNames DEF InputOver
    <3>2. stage'[p] = "closed" /\ chan'[p] = 0
      BY <1>2, <3>1 DEF StageStep, Take, Pass, FinishTaking, CloseStage, FlowTypeOK
    <3>3. QED
      BY <1>1, <2>2, <3>2 DEF InputOver, IsFirst, Previous
  <2>3. QED
    BY <2>1, <2>2
<1>5. \A t \in enabled : stage'[t] # "reading" => InputOver(t)'
  <2>1. \A t \in enabled : stage'[t] # "reading" => stage[t] # "reading" \/ InputOver(t)
    BY <1>2 DEF StageStep, Take, Pass, FinishTaking, CloseStage, FlowTypeOK
  <2>2. QED
    BY <1>4, <2>1
<1>6. \A t \in enabled : stage'[t] = "closed" => kept'[t] = 0
  BY <1>2 DEF StageStep, Take, Pass, FinishTaking, CloseStage, FlowTypeOK
<1>7. main' = "draining" \/ (Exited' /\ ErrsClosed') => OutputOver'
  <2>1. ASSUME OutputOver PROVE OutputOver'
    <3> DEFINE l == LastStage
    <3>1. l \in enabled /\ l \in Stages /\ kept[l] = 0 /\ stage[l] = "closed" /\ chan[l] = 0
      BY <1>2, <2>1, StageNames DEF OutputOver
    <3>2. stage'[l] = "closed" /\ chan'[l] = 0
      BY <1>2, <3>1 DEF StageStep, Take, Pass, FinishTaking, CloseStage, FlowTypeOK
    <3>3. QED
      BY <1>1, <3>2 DEF OutputOver, LastStage
  <2>2. QED
    BY <1>1, <2>1 DEF Exited, ErrsClosed
<1>8. QED
  BY <1>1, <1>3, <1>5, <1>6, <1>7

\* main takes an issue out of the last channel, before it is over.
LEMMA ReadKeepsFlow ==
  ASSUME Inv, FlowInv, ReadOutput
  PROVE  FlowInv'
<1> USE DEF FlowInv
<1>1. /\ main = "reading" /\ UNCHANGED <<main, closer, enabled, stage, kept, incoming>>
      /\ chan[LastStage] > 0 /\ chan' = [chan EXCEPT ![LastStage] = @ - 1]
      /\ LastStage \in Stages
  BY StageNames DEF ReadOutput, ReadsOutput, vars
<1>2. FlowTypeOK'
  BY <1>1, BoundsAssumption DEF FlowTypeOK
<1>3. \A t \in enabled : InputOver(t) => InputOver(t)'
  BY <1>1, StageNames DEF InputOver, IsFirst, Previous, IssuesClosed, LastStage, FlowTypeOK
<1>4. QED
  BY <1>1, <1>2, <1>3 DEF Exited

\* Every step keeps the invariant.
LEMMA FlowStep == Inv /\ FlowInv /\ [InvocationNext]_invocationVars => FlowInv'
<1> SUFFICES ASSUME Inv, FlowInv, [InvocationNext]_invocationVars PROVE FlowInv'
  OBVIOUS
<1>1. CASE ReadOutput
  BY <1>1, ReadKeepsFlow
<1>2. ASSUME NEW s \in Stages, StageStep(s) PROVE FlowInv'
  BY <1>2, StageKeepsFlow
<1>3. CASE Main /\ (main = "reading" => OutputOver) /\ UNCHANGED flow
  BY <1>3, SchedulerKeepsFlow DEF Next
<1>4. ASSUME UNCHANGED flow, [Next]_vars, main' = main PROVE FlowInv'
  BY <1>4, SchedulerKeepsFlow
<1>5. ASSUME NEW j \in Jobs, WorkerOrFatal(j) PROVE FlowInv'
  <2>1. CASE Worker(j)
    BY <1>4, <1>5, <2>1 DEF WorkerOrFatal, Worker, mainVars, Next
  <2>2. CASE \E h \in Hits : FatalHit(j, h)
    BY <1>5, <2>2, SchedulerKeepsFlow DEF WorkerOrFatal, FatalHit, Next
  <2>3. QED
    BY <1>5, <2>1, <2>2 DEF WorkerOrFatal
<1>6. ASSUME NEW j \in Jobs, ProcessEnds(j), UNCHANGED flow PROVE FlowInv'
  BY <1>4, <1>6 DEF ProcessEnds, ProcessExits, mainVars, Next
<1>7. CASE /\ Closer \/ (\E l \in Linters : TimerFires(l)) \/ Terminated
           /\ UNCHANGED flow
  BY <1>4, <1>7 DEF Closer, CloseIssues, CloseErrors, TimerFires, Terminated,
     mainVars, vars, Next
<1>8. CASE UNCHANGED invocationVars
  BY <1>4, <1>8 DEF invocationVars, vars
<1>9. QED
  BY <1>1, <1>2, <1>3, <1>5, <1>6, <1>7, <1>8 DEF InvocationNext, MainStep

\* Every reachable state of an invocation satisfies both invariants.
THEOREM FlowCorrect == InvocationSpec => [](Inv /\ FlowInv)
<1>1. InvocationSpec => []Inv
  BY ImplementsScheduler, InvCorrect, PTL
<1>2. QED
  BY <1>1, FlowInit, FlowStep, PTL DEF InvocationSpec

\* No channel between the stages holds more than it can, no stage passes on an issue
\* that it does not have, and the filter holds one at a time (execute.go:70, 77,
\* 277-289).
THEOREM FlowTypeCorrect == InvocationSpec => []FlowTypeOK
<1>1. FlowInv => FlowTypeOK
  BY DEF FlowInv
<1>2. QED
  BY <1>1, FlowCorrect, PTL

\* An exit after the channels are closed leaves no issue in any stage or channel: the
\* last stage is closed, and with each stage the one before it (execute.go:132-137,
\* main.go:232-247).
THEOREM AllIsRead == InvocationSpec => []NothingUnread
<1>1. FlowInv => NothingUnread
  <2> SUFFICES ASSUME FlowInv, Exited, ErrsClosed, NEW s \in enabled
               PROVE  stage[s] = "closed" /\ kept[s] = 0 /\ chan[s] = 0
    BY DEF NothingUnread
  <2> USE DEF FlowInv, FlowTypeOK, Stages
  <2>1. stage[LastStage] = "closed" /\ chan[LastStage] = 0
    BY DEF OutputOver
  <2>2. ASSUME NEW t \in enabled, stage[t] = "closed", ~IsFirst(t)
        PROVE  stage[Previous(t)] = "closed" /\ chan[Previous(t)] = 0
    BY <2>2 DEF InputOver
  <2>3. stage["filter"] = "closed" /\ chan["filter"] = 0
    <3>1. CASE "sort" \in enabled
      BY <2>1, <2>2, <3>1 DEF LastStage, IsFirst, Previous
    <3>2. CASE "sort" \notin enabled
      BY <2>1, <3>2 DEF LastStage
    <3>3. QED
      BY <3>1, <3>2
  <2>4. CASE s = "aggregate"
    BY <2>2, <2>3, <2>4 DEF IsFirst, Previous
  <2>5. CASE s = "filter"
    BY <2>3, <2>5
  <2>6. CASE s = "sort"
    BY <2>1, <2>6 DEF LastStage
  <2>7. QED
    BY <2>4, <2>5, <2>6
<1>2. QED
  BY <1>1, FlowCorrect, PTL

-----------------------------------------------------------------------------
\* Out of room, no worker has a process and none can do anything but leave the
\* WaitGroup.
LEMMA StuckWorkers ==
  ASSUME Inv, OutOfRoom, NEW j \in Jobs
  PROVE  /\ proc[j] # "alive"
         /\ Worker(j) => Done(j)
         /\ \A h \in Hits : ~FatalHit(j, h)
<1>1. pc[j] \in HoldsSlot => WaitsToSend(j)
  BY DEF OutOfRoom
<1>2. proc[j] # "alive"
  BY <1>1 DEF Inv, AliveRuns, HoldsSlot, WaitsToSend
<1>3. \A h \in Hits : ~FatalHit(j, h)
  BY <1>1 DEF FatalHit, NextHit, HoldsSlot, WaitsToSend
<1>4. pc[j] = "reporting" => \A h \in Hits : ~ReportIssue(j, h) /\ ~SkipIssue(j, h)
  BY <1>1, BoundsAssumption
     DEF Inv, Types, OutOfRoom, ReportIssue, SkipIssue, NextHit, HoldsSlot, WaitsToSend
<1>5. Worker(j) => Done(j)
  BY <1>1, <1>4 DEF HoldsSlot, WaitsToSend, Worker, WorkerStep, Start, StartFails,
     Collect, Deadline, ReportIssue, SkipIssue, NextHit, FinishReport, SendError, Release
<1>6. QED
  BY <1>2, <1>3, <1>5

\* Out of room, no stage can move.
LEMMA StuckStages ==
  ASSUME Inv, FlowInv, OutOfRoom, NEW s \in Stages
  PROVE  ~StageStep(s)
<1>1. ~IssuesClosed
  BY DEF OutOfRoom, Inv, CloserLast, IssuesClosed
<1>2. CASE s = "filter"
  <2>1. ~Take(s) /\ ~CloseStage(s)
    BY <1>2 DEF OutOfRoom, Take, CloseStage, Collecting
  <2>2. ~Pass(s)
    BY <1>2, BoundsAssumption DEF OutOfRoom, Pass, RoomBehind
  <2>3. ~FinishTaking(s)
    BY <1>1, <1>2 DEF OutOfRoom, FinishTaking, InputOver, IsFirst
  <2>4. QED
    BY <2>1, <2>2, <2>3 DEF StageStep
<1>3. CASE s # "filter"
  BY <1>3 DEF OutOfRoom, StageStep, Take, Pass, FinishTaking, CloseStage
<1>4. QED
  BY <1>2, <1>3

\* Out of room, main cannot start its next worker and has nothing else to do.
LEMMA StuckMain ==
  ASSUME Inv, OutOfRoom
  PROVE  ~MainStep
<1>1. main = "range" /\ queued # {} /\ ~SlotFree
  BY BoundsAssumption DEF OutOfRoom, SlotFree
<1>2. ~Main
  BY <1>1 DEF Main, Split, SplitFails, SendSplitError, NextLinter, Spawn, StartCloser,
     FinishOutput, WarnError, Exit
<1>3. QED
  BY <1>1, <1>2 DEF MainStep, ReadOutput, ReadsOutput

\* A deadline that expires and a worker that is past its work change nothing of that.
LEMMA RoomStep ==
  Inv /\ FlowInv /\ [InvocationNext]_invocationVars => (OutOfRoom => OutOfRoom')
<1> SUFFICES ASSUME Inv, FlowInv, [InvocationNext]_invocationVars, OutOfRoom
             PROVE  OutOfRoom'
  OBVIOUS
<1>1. ASSUME UNCHANGED <<main, queued, sem, pc, output, incoming, flow>> PROVE OutOfRoom'
  BY <1>1 DEF OutOfRoom, WaitsToSend, IsHidden, flow
<1>2. ASSUME NEW j \in Jobs, WorkerOrFatal(j) PROVE OutOfRoom'
  <2>1. Done(j) /\ UNCHANGED <<mainVars, flow>>
    BY <1>2, StuckWorkers DEF WorkerOrFatal, Worker
  <2>2. /\ pc' = [pc EXCEPT ![j] = "done"]
        /\ UNCHANGED <<main, queued, sem, output, incoming, flow>>
    BY <2>1 DEF Done, mainVars
  <2>3. \A i \in Jobs : pc'[i] \in HoldsSlot => pc[i] \in HoldsSlot /\ pc'[i] = pc[i]
    BY <2>2, JobsAndSplits DEF Inv, Types, HoldsSlot
  <2>4. \A i \in Jobs : pc'[i] \in HoldsSlot => WaitsToSend(i)'
    BY <2>2, <2>3 DEF OutOfRoom, WaitsToSend, IsHidden
  <2>5. QED
    BY <2>2, <2>4 DEF OutOfRoom, flow
<1>3. ASSUME NEW j \in Jobs, ProcessEnds(j) PROVE FALSE
  BY <1>3, StuckWorkers DEF ProcessEnds, ProcessExits
<1>4. ASSUME NEW l \in Linters, TimerFires(l), UNCHANGED flow PROVE OutOfRoom'
  BY <1>1, <1>4 DEF TimerFires, chanVars, mainVars
<1>5. ~Closer /\ ~Terminated
  BY DEF Closer, CloseIssues, CloseErrors, Terminated, Exited, OutOfRoom, Inv, CloserLast
<1>6. CASE UNCHANGED invocationVars
  BY <1>1, <1>6 DEF invocationVars, vars
<1>7. QED
  BY <1>2, <1>3, <1>4, <1>5, <1>6, StuckMain, StuckStages DEF InvocationNext

\* Out of room it stays: once two channels and the filter are full while main waits for
\* a slot, nothing gets the program going again, neither a deadline nor a stage
\* (execute.go:116, 277-289, main.go:232).
THEOREM NoWayOut == InvocationSpec => OutOfRoomForGood
<1>1. Inv /\ FlowInv /\ [InvocationNext]_invocationVars
        => [OutOfRoom => OutOfRoom']_invocationVars
  BY RoomStep
<1>2. QED
  BY <1>1, FlowCorrect, PTL DEF InvocationSpec, OutOfRoomForGood

=============================================================================
