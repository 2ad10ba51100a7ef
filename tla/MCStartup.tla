------------------------------ MODULE MCStartup ------------------------------
(* Small instances of Startup for TLC. *)
EXTENDS Startup

CONSTANT MaxArgs

\* Two built-in linters, of which only vet is enabled by default and fast, and a name
\* that the table does not have.
MCBuiltin == {"vet", "lll"}

MCFiles == [f \in {"lists", "maps"} |->
  IF f = "lists" THEN [Enable |-> <<"lll", "vet", "vet">>, Disable |-> <<"vet">>, Fast |-> TRUE]
  ELSE [Severity |-> "lll" :> "error", Exclude |-> <<"generated">>,
        Linters |-> ("lll" :> [pattern |-> "none", fast |-> TRUE]) @@
                    ("vet" :> [pattern |-> "file's", fast |-> FALSE]) @@
                    ("mine" :> [pattern |-> "none", fast |-> TRUE])]]

Flag(f, values) == {[flag |-> f, value |-> v] : v \in values}

Arguments ==
  Flag("config", {"lists", "maps", "missing"}) \cup Flag("no-config", {TRUE}) \cup
  Flag("enable", {"vet", "lll", "mine"}) \cup Flag("disable", {"vet", "lll"}) \cup
  Flag("enable-all", {FALSE}) \cup Flag("disable-all", {TRUE}) \cup
  Flag("linter", {[name |-> "mine", pattern |-> "flag's"], [name |-> "vet", pattern |-> "bad"],
                  [name |-> "lll", pattern |-> "none"]}) \cup
  Flag("severity", {"vet" :> "warning", "lll" :> "warning"}) \cup
  Flag("exclude", {"vendored", "("}) \cup Flag("fast", BOOLEAN)

Here == [gopath |-> <<"home">>, gobin |-> <<>>, path |-> <<<<"bin">>>>, go |-> TRUE]

Lines == {[args |-> q, levels |-> v, env |-> Here] :
            q \in BoundedSeq(Arguments, MaxArgs),
            v \in {<<"none">>, <<"none", "maps", "lists">>, <<"lists">>, <<"unreadable", "maps">>}}

\* The installation and the environment, with little else on the command line.
Installs ==
  {[args |-> q, levels |-> <<"none">>,
    env |-> [gopath |-> g, gobin |-> b, path |-> p, go |-> x]] :
     q \in BoundedSeq(Flag("install", {TRUE}) \cup Flag("vendored-linters", BOOLEAN), 2),
     g \in {<<"home">>, <<"other", "home">>, <<"other">>}, b \in {<<>>, <<"gobin">>},
     p \in {<<<<"bin">>>>, <<<<"home", "bin">>, <<"bin">>>>}, x \in BOOLEAN}

MCInvocations == Lines \cup Installs
=============================================================================
