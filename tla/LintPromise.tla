----------------------------- MODULE LintPromise -----------------------------
(***************************************************************************)
(* What one invocation promises, without goroutines and channels: every    *)
(* linter is divided into partitions or fails to be; every partition is    *)
(* reported or fails, once; every failure is told to the user; and the     *)
(* program exits when nothing is pending, with bit 1 of its status set     *)
(* exactly if something failed ("Exit status" in the README, main.go:      *)
(* 241-247).  The one way out before that is Abort.                        *)
(***************************************************************************)
EXTENDS Integers

CONSTANTS Linters, MaxPartitions

Work == Linters \X (0 .. MaxPartitions)
Parts(l) == {l} \X (1 .. MaxPartitions)

VARIABLES
  outcome,  \* what has become of each piece of work
  told,     \* the failures the user has seen
  ended,    \* the program has ended
  bits      \* the bits of its exit status that are set

Outcomes == {"unplanned", "pending", "reported", "failed"}

vars == <<outcome, told, ended, bits>>

Init ==
  /\ outcome = [w \in Work |-> IF w[2] = 0 THEN "pending" ELSE "unplanned"]
  /\ told = {}
  /\ ended = FALSE
  /\ bits = {}

Settle(w, how) ==
  /\ ~ended
  /\ outcome[w] = "pending"
  /\ outcome' = [outcome EXCEPT ![w] = how]
  /\ UNCHANGED <<told, ended, bits>>

Divide(l, n) ==
  /\ ~ended
  /\ outcome[<<l, 0>>] = "pending"
  /\ outcome' = [w \in Work |-> IF w = <<l, 0>> THEN "reported"
                                ELSE IF w[1] = l /\ w[2] <= n THEN "pending"
                                ELSE outcome[w]]
  /\ UNCHANGED <<told, ended, bits>>

Fail(w) == Settle(w, "failed")

Report(w) == w[2] > 0 /\ Settle(w, "reported")

Tell(w) ==
  /\ ~ended
  /\ outcome[w] = "failed"
  /\ w \notin told
  /\ told' = told \cup {w}
  /\ UNCHANGED <<outcome, ended, bits>>

Failures == {w \in Work : outcome[w] = "failed"}

Finish(code) ==
  /\ ~ended
  /\ \A w \in Work : outcome[w] # "pending"
  /\ told = Failures
  /\ 1 \in code <=> Failures # {}
  /\ ended' = TRUE
  /\ bits' = code
  /\ UNCHANGED <<outcome, told>>

\* A linter's output could not be understood at all.
Abort ==
  /\ ~ended
  /\ ended' = TRUE
  /\ bits' = {0}
  /\ UNCHANGED <<outcome, told>>

Next ==
  \/ \E l \in Linters, n \in 0 .. MaxPartitions : Divide(l, n)
  \/ \E w \in Work : Report(w) \/ Fail(w) \/ Tell(w)
  \/ \E code \in SUBSET {0, 1} : Finish(code)
  \/ Abort

Spec == Init /\ [][Next]_vars
=============================================================================
