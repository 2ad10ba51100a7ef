------------------------------ MODULE MCPipeline ------------------------------
(* Small instances of Pipeline for TLC. *)
EXTENDS Pipeline_invariant, TLC

CONSTANTS r1, r2, r3, r4, r5

Rep(linter, path, line, severity, message) ==
  [linter |-> linter, path |-> path, line |-> line, severity |-> severity,
   message |-> message]

\* Two linters agree on r1 and r2; r3 is at the last line of a range that is
\* about another linter; r4 is at the last line of one about every linter; no range
\* covers r5.
MCReportOf == (r1 :> Rep("vet", "a.go", 1, "error", "unused")
            @@ r2 :> Rep("golint", "a.go", 1, "warning", "unused")
            @@ r3 :> Rep("vet", "a.go", 3, "warning", "shadowed")
            @@ r4 :> Rep("vet", "b.go", 6, "warning", "shadowed")
            @@ r5 :> Rep("golint", "b.go", 2, "error", "shadowed"))

MCPaths == {"a.go", "b.go"}

MCDirectives == [p \in MCPaths |->
  IF p = "a.go" THEN <<[start |-> 1, end |-> 1, linters |-> {"vet"}],
                       [start |-> 1, end |-> 3, linters |-> {"golint"}]>>
  ELSE <<[start |-> 5, end |-> 6, linters |-> {}]>>]

Opt(agg, warn, errors, out, order, abs) ==
  [aggregate |-> agg, warnUnmatched |-> warn, errors |-> errors,
   output |-> out, sort |-> order, absolute |-> abs]

\* Every stage on and off, the outputs that differ, and no order or one whose
\* keys disagree with the order of the paths; and directories given absolutely.
MCOptions ==
  {Opt(agg, warn, errors, out, order, FALSE) :
     agg \in BOOLEAN, warn \in BOOLEAN, errors \in BOOLEAN,
     out \in {"console", "checkstyle"}, order \in {<<>>, <<"severity", "line">>}}
  \cup {Opt(FALSE, TRUE, FALSE, "console", <<>>, TRUE)}

MCAggregated == {Opt(TRUE, FALSE, FALSE, "console", <<>>, FALSE)}
=============================================================================
