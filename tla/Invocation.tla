------------------------------ MODULE Invocation ------------------------------
(***************************************************************************)
(* Scheduler together with the stages that its issues pass through: the    *)
(* aggregation, the directive filter and the sorting, each a goroutine     *)
(* with a channel behind it (execute.go:70-77, 277-289).  main reads the   *)
(* last channel, but only when its loop over the linters is over.  What    *)
(* the stages do to an issue is the subject of Pipeline; here they are     *)
(* counted.                                                                *)
(***************************************************************************)
EXTENDS Scheduler

CONSTANT MaxWarnings  \* the most directives that --warn-unmatched-nolint warns about

ASSUME WarningsAssumption == MaxWarnings \in Nat

Stages == {"aggregate", "filter", "sort"}

VARIABLES
  enabled,  \* the stages there are
  stage,    \* where each is: "reading", "emitting" or "closed"
  kept,     \* the number of issues each has taken and not passed on
  chan      \* the number of issues in the channel behind each

flow == <<enabled, stage, kept, chan>>
invocationVars == <<vars, flow>>

-----------------------------------------------------------------------------
\* The stages that keep all issues until the channel before them is closed.
Collecting == enabled \ {"filter"}

IsFirst(s)   == \/ s = "aggregate"
                \/ s = "filter" /\ "aggregate" \notin enabled
Previous(s)  == IF s = "sort" THEN "filter" ELSE "aggregate"
LastStage    == IF "sort" \in enabled THEN "sort" ELSE "filter"
InputOver(s) == IF IsFirst(s) THEN IssuesClosed /\ incoming = <<>>
                ELSE stage[Previous(s)] = "closed" /\ chan[Previous(s)] = 0

\* Mutant of RoomBehind: a send never waits.
RoomBehindAlways(s) == TRUE
\* Every channel has the capacity of incomingIssues.
RoomBehind(s) == chan[s] < IssueCap

\* Mutant of ReadsOutput: main reads while it starts the linters.
ReadsOutputAlways == main \in {"range", "reading"}
\* main calls the output function after runLinters has returned.
ReadsOutput == main = "reading"

\* Mutant of OutputOver: main is content with an empty channel.
OutputOverEmpty == chan[LastStage] = 0
\* The last channel is closed and empty.
OutputOver == stage[LastStage] = "closed" /\ chan[LastStage] = 0

InvocationInit ==
  /\ Init
  /\ enabled \in {{"filter"} \cup more : more \in SUBSET Stages}
  /\ stage = [s \in Stages |-> "reading"]
  /\ kept = [s \in Stages |-> 0]
  /\ chan = [s \in Stages |-> 0]

\* The aggregation may add an issue to one it has, the filter may drop it.
After(s, n) ==
  CASE s = "aggregate" -> IF n = 0 THEN {1} ELSE {n, n + 1}
    [] s = "filter"    -> {0, 1}
    [] OTHER           -> {n + 1}

Take(s) ==
  /\ s \in enabled /\ stage[s] = "reading"
  /\ s \in Collecting \/ kept[s] = 0
  /\ IF IsFirst(s)
     THEN TakeIssue /\ UNCHANGED chan
     ELSE /\ ~Exited /\ chan[Previous(s)] > 0
          /\ chan' = [chan EXCEPT ![Previous(s)] = @ - 1]
          /\ UNCHANGED vars
  /\ \E n \in After(s, kept[s]) : kept' = [kept EXCEPT ![s] = n]
  /\ UNCHANGED <<enabled, stage>>

Pass(s) ==
  /\ ~Exited /\ s \in enabled
  /\ s = "filter" \/ stage[s] = "emitting"
  /\ kept[s] > 0 /\ RoomBehind(s)
  /\ kept' = [kept EXCEPT ![s] = @ - 1]
  /\ chan' = [chan EXCEPT ![s] = @ + 1]
  /\ UNCHANGED <<vars, enabled, stage>>

\* The end of the range loop, after which the filter may warn.
FinishTaking(s) ==
  /\ ~Exited /\ s \in enabled /\ stage[s] = "reading"
  /\ InputOver(s)
  /\ s \in Collecting \/ kept[s] = 0
  /\ stage' = [stage EXCEPT ![s] = "emitting"]
  /\ \E n \in IF s = "filter" THEN 0 .. MaxWarnings ELSE {kept[s]} :
       kept' = [kept EXCEPT ![s] = n]
  /\ UNCHANGED <<vars, enabled, chan>>

CloseStage(s) ==
  /\ ~Exited /\ s \in enabled /\ stage[s] = "emitting"
  /\ kept[s] = 0
  /\ stage' = [stage EXCEPT ![s] = "closed"]
  /\ UNCHANGED <<vars, enabled, kept, chan>>

StageStep(s) == Take(s) \/ Pass(s) \/ FinishTaking(s) \/ CloseStage(s)

ReadOutput ==
  /\ ReadsOutput /\ chan[LastStage] > 0
  /\ chan' = [chan EXCEPT ![LastStage] = @ - 1]
  /\ UNCHANGED <<vars, enabled, stage, kept>>

\* main; while it reads, its next step is the end of the output.
MainStep ==
  \/ ReadOutput
  \/ Main /\ (main = "reading" => OutputOver) /\ UNCHANGED flow

WorkerOrFatal(j) == (Worker(j) \/ \E h \in Hits : FatalHit(j, h)) /\ UNCHANGED flow

InvocationNext ==
  \/ MainStep
  \/ \E s \in Stages : StageStep(s)
  \/ \E j \in Jobs : WorkerOrFatal(j) \/ (ProcessEnds(j) /\ UNCHANGED flow)
  \/ Closer /\ UNCHANGED flow
  \/ (\E l \in Linters : TimerFires(l)) /\ UNCHANGED flow
  \/ Terminated /\ UNCHANGED flow

(***************************************************************************)
(* Goroutines that can run do run and timers fire; as in Scheduler nothing *)
(* makes a linter's process end.                                           *)
(***************************************************************************)
InvocationSpec ==
  /\ InvocationInit /\ [][InvocationNext]_invocationVars
  /\ WF_invocationVars(MainStep)
  /\ \A s \in Stages : WF_invocationVars(StageStep(s))
  /\ \A j \in Jobs : WF_invocationVars(WorkerOrFatal(j))
  /\ WF_invocationVars(Closer /\ UNCHANGED flow)
  /\ \A l \in Linters : WF_invocationVars(TimerFires(l) /\ UNCHANGED flow)

-----------------------------------------------------------------------------
(***************************************************************************)
(* Properties.                                                             *)
(***************************************************************************)
\* The types; no channel holds more than it can and the filter holds one issue at a
\* time, until it warns.
FlowTypeOK ==
  /\ enabled \subseteq Stages /\ "filter" \in enabled
  /\ stage \in [Stages -> {"reading", "emitting", "closed"}]
  /\ kept \in [Stages -> Nat]
  /\ chan \in [Stages -> 0 .. IssueCap]
  /\ stage["filter"] = "reading" => kept["filter"] <= 1

\* The inductive invariant about the stages (aggregate.go:26, directives.go:203,
\* main.go:232-240): a stage stops taking issues when no more can come, closes when
\* it has passed them all on, and main stops reading after that.
FlowInv ==
  /\ FlowTypeOK
  /\ \A s \in enabled : stage[s] # "reading" => InputOver(s)
  /\ \A s \in enabled : stage[s] = "closed" => kept[s] = 0
  /\ main = "draining" \/ (Exited /\ ErrsClosed) => OutputOver

\* An exit after the channels are closed leaves no issue in any stage or channel: all
\* that the linters reported is printed, merged or dropped (execute.go:132-137,
\* main.go:232-247).
NothingUnread ==
  Exited /\ ErrsClosed =>
    \A s \in enabled : stage[s] = "closed" /\ kept[s] = 0 /\ chan[s] = 0

\* The worker's next step is to send an issue, rather than to skip a hit or to end
\* the program.
WaitsToSend(j) ==
  /\ pc[j] = "reporting" /\ output[j] # <<>>
  /\ Head(output[j]) \notin Malformed /\ ~IsHidden(j, Head(output[j]))

\* Nobody can move: main waits for a slot, every slot is held by a worker that waits
\* to send an issue, and no stage can take one, because neither the aggregation nor
\* the sorting is there to keep them and both channels are full.
OutOfRoom ==
  /\ main = "range" /\ queued # {} /\ sem = Concurrency
  /\ \A j \in Jobs : pc[j] \in HoldsSlot => WaitsToSend(j)
  /\ enabled = {"filter"}
  /\ Len(incoming) = IssueCap /\ kept["filter"] = 1 /\ chan["filter"] = IssueCap

\* The program ends, even if linters do not, unless it runs out of room: more issues
\* than two channels and the filter hold before the last linter is started.  With
\* aggregation or sorting that does not happen (execute.go:70, 116, 277-289).
EndsUnlessOutOfRoom == <>(Exited \/ OutOfRoom)

\* Out of room it stays: no deadline and no stage gets the program going again, since
\* main reads no issue before it has started all linters (execute.go:116, main.go:232).
OutOfRoomForGood == [][OutOfRoom => OutOfRoom']_invocationVars
=============================================================================
