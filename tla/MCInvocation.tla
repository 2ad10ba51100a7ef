----------------------------- MODULE MCInvocation -----------------------------
(* A small instance of Invocation: three issues fill both channels and the filter. *)
EXTENDS Invocation

CONSTANTS a, b, good, hidden, bad

\* Nothing at all; four issues, with a hit between them that is dropped; a hit whose
\* line is no number.
MCOutputs == {<<>>, <<good, hidden, good, good, good>>, <<bad>>}
MCFiltered == Linters \X {hidden}
=============================================================================
