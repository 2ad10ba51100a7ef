----------------------------- MODULE MCScheduler -----------------------------
(* Small instances of Scheduler for TLC. *)
EXTENDS Scheduler, TLC

CONSTANTS a, b, c, good, hidden, bad

\* The outputs of a process: an issue, or a hit that is malformed.
MCOutputs == {<<good>>, <<bad>>}

\* The outputs when nothing is malformed: nothing, or a hit that --exclude may drop.
MCPlainOutputs == {<<>>, <<hidden>>}

\* The linters are alike as long as nothing is filtered.
MCSymmetry == Permutations(Linters)

\* Only linter a reports the hit that --exclude drops.
MCFiltered == {<<a, hidden>>}
=============================================================================
