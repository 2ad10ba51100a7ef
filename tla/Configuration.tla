---------------------------- MODULE Configuration ----------------------------
(***************************************************************************)
(* How the command line and the configuration files become the value of    *)
(* config: kingpin.Parse with the flags and actions of setupFlags          *)
(* (main.go:35-143), and loadConfigFile (config.go:143-192).               *)
(*                                                                         *)
(* Parse goes over the command line twice.  First it sets the value of     *)
(* every flag; then it runs the actions: the application's own, which      *)
(* loads the default file, and those of the flags one by one.  --fast      *)
(* stands for all flags with one value, --exclude for those with a list    *)
(* and --severity for those with a map.                                    *)
(***************************************************************************)
EXTENDS Naturals, SequencesExt, TLC

CONSTANTS
  Builtin,      \* the names in the table of linters, defaultLinters
  DefaultOn,    \* those that are enabled by default
  FastBuiltin,  \* those that are fast
  DefaultErr,   \* those whose severity is "error" by default
  Files,        \* the files there are, by name, with the keys each has
  Invocations   \* the command lines and their surroundings

(***************************************************************************)
(* A command line is a sequence of flags with their values.  levels are    *)
(* the directories from the working directory up to the root: the default  *)
(* file in each, "none" or "unreadable".                                   *)
(***************************************************************************)
Flags == {"config", "no-config", "enable", "disable", "enable-all", "disable-all",
          "linter", "severity", "exclude", "fast", "install", "vendored-linters"}
Cumulative == {"enable", "disable", "linter", "severity", "exclude"}

IsFlag(e) ==
  /\ e.flag \in Flags
  /\ e.flag \in {"config", "enable", "disable", "exclude"} => e.value \in STRING
  /\ e.flag = "linter" => e.value \in [name : STRING, pattern : STRING]

\* A linter that is defined: its pattern, "none" if that is left to the table.
Definitions == [pattern : STRING, fast : BOOLEAN]

\* What is under the keys of a file.
IsFile(f) ==
  /\ \A key \in {"Enable", "Disable", "Exclude"} \cap DOMAIN f : f[key] \in Seq(STRING)
  /\ "Linters" \in DOMAIN f => \A l \in DOMAIN f.Linters : f.Linters[l] \in Definitions

ASSUME ConfigurationAssumption ==
  /\ IsFiniteSet(Builtin) /\ Builtin \subseteq STRING /\ DefaultOn \subseteq Builtin
  /\ "none" \notin DOMAIN Files /\ \A f \in DOMAIN Files : IsFile(Files[f])
  /\ \A i \in Invocations :
       /\ i.args \in Seq(Range(i.args)) /\ \A k \in DOMAIN i.args : IsFlag(i.args[k])
       /\ i.levels \in Seq(STRING)

VARIABLES
  run,     \* the invocation
  config,  \* the global configuration
  at,      \* where the program is
  next     \* the flag whose value or action is next

parseVars == <<run, config, at, next>>

args == run.args
Given(flag) == \E k \in DOMAIN args : args[k].flag = flag

Default == [enable |-> SetToSeq(DefaultOn), disable |-> <<>>, fast |-> FALSE,
            severity |-> [l \in DefaultErr |-> "error"], exclude |-> <<>>,
            linters |-> <<>>, install |-> FALSE, vendored |-> TRUE]

\* A map with the entries of another one set in it.
Updated(f, g) == [x \in DOMAIN f \cup DOMAIN g |-> IF x \in DOMAIN g THEN g[x] ELSE f[x]]

-----------------------------------------------------------------------------
(***************************************************************************)
(* Values.                                                                 *)
(***************************************************************************)
\* Mutant of Cleared: the first value of a map is added to the default.
ClearedLists(c) == [c EXCEPT !.exclude = IF Given("exclude") THEN <<>> ELSE @]
\* setDefaults resets the lists and maps that the command line has values for.
Cleared(c) ==
  [c EXCEPT !.severity = IF Given("severity") THEN <<>> ELSE @,
            !.exclude  = IF Given("exclude") THEN <<>> ELSE @]

Assigned(c, e) ==
  CASE e.flag = "fast"     -> [c EXCEPT !.fast = e.value]
    [] e.flag = "severity" -> [c EXCEPT !.severity = Updated(@, e.value)]
    [] e.flag = "exclude"  -> [c EXCEPT !.exclude = Append(@, e.value)]
    [] e.flag = "install"  -> [c EXCEPT !.install = e.value]
    [] e.flag = "vendored-linters" -> [c EXCEPT !.vendored = e.value]
    [] OTHER -> c

\* Only a list or a map may be given twice.
Repeated(k) == /\ args[k].flag \notin Cumulative
               /\ \E m \in 1 .. k - 1 : args[m].flag = args[k].flag

Reset ==
  /\ at = "start"
  /\ config' = Cleared(config)
  /\ at' = "setting" /\ next' = 1
  /\ UNCHANGED run

SetValue ==
  /\ at = "setting" /\ next <= Len(args)
  /\ IF Repeated(next) THEN at' = "fatal" /\ UNCHANGED config
     ELSE config' = Assigned(config, args[next]) /\ UNCHANGED at
  /\ next' = next + 1
  /\ UNCHANGED run

-----------------------------------------------------------------------------
(***************************************************************************)
(* Actions.                                                                *)
(***************************************************************************)
\* json.Decode: a list replaces the old one, the entries of a map are set in it.
Decoded(c, f) ==
  [c EXCEPT !.enable   = IF "Enable" \in DOMAIN f THEN f.Enable ELSE @,
            !.disable  = IF "Disable" \in DOMAIN f THEN f.Disable ELSE @,
            !.fast     = IF "Fast" \in DOMAIN f THEN f.Fast ELSE @,
            !.exclude  = IF "Exclude" \in DOMAIN f THEN f.Exclude ELSE @,
            !.severity = IF "Severity" \in DOMAIN f THEN Updated(@, f.Severity) ELSE @,
            !.linters  = IF "Linters" \in DOMAIN f THEN Updated(@, f.Linters) ELSE @]

\* loadConfigFile removes the first mention of each disabled linter.
Loaded(c, f) ==
  LET d == Decoded(c, Files[f])
  IN  [d EXCEPT !.enable = FoldLeft(RemoveFirst, @, d.disable)]

\* findDefaultConfigFile: the first directory that has a file, or an error.
Found == SelectInSeq(run.levels, LAMBDA x : x # "none")
SearchesDefault == ~Given("config") /\ ~Given("no-config")
DefaultFile == IF SearchesDefault /\ Found # 0 THEN run.levels[Found] ELSE "none"

LoadDefaultConfig ==
  /\ at = "setting" /\ next > Len(args)
  /\ CASE DefaultFile = "none" -> at' = "acting" /\ UNCHANGED config
       [] DefaultFile \in DOMAIN Files -> at' = "acting" /\ config' = Loaded(config, DefaultFile)
       [] OTHER -> at' = "fatal" /\ UNCHANGED config
  /\ next' = 1
  /\ UNCHANGED run

\* disableAction.
Without(list, l) ==
  FlattenSeq([k \in DOMAIN list |-> IF list[k] = l THEN <<>> ELSE <<list[k]>>])

\* cliLinterOverrides: the table's settings with another command and pattern.  A
\* specification that lacks one of the two is an error.
BadSpec(e) == e.flag = "linter" /\ e.value.pattern = "none"
Override(e) ==
  [l \in {e.value.name} |-> [pattern |-> e.value.pattern, fast |-> l \in FastBuiltin]]

\* The actions of --enable-all and --disable-all do not look at the flag's value,
\* so that the forms with --no- do the same.
Acted(c, e) ==
  CASE e.flag = "config"      -> Loaded(c, e.value)
    [] e.flag = "enable"      -> [c EXCEPT !.enable = Append(@, e.value)]
    [] e.flag = "disable"     -> [c EXCEPT !.enable = Without(@, e.value)]
    [] e.flag = "enable-all"  -> [c EXCEPT !.enable = @ \o SetToSeq(Builtin)]
    [] e.flag = "disable-all" -> [c EXCEPT !.enable = <<>>]
    [] e.flag = "linter"      -> [c EXCEPT !.linters = Updated(@, Override(e))]
    [] OTHER -> c

Unusable(e) == BadSpec(e) \/ (e.flag = "config" /\ e.value \notin DOMAIN Files)

Act ==
  /\ at = "acting" /\ next <= Len(args)
  /\ IF Unusable(args[next]) THEN at' = "fatal" /\ UNCHANGED config
     ELSE config' = Acted(config, args[next]) /\ UNCHANGED at
  /\ next' = next + 1
  /\ UNCHANGED run

ParseEnds ==
  /\ at = "acting" /\ next > Len(args)
  /\ at' = "parsed"
  /\ UNCHANGED <<run, config, next>>

ParseInit ==
  /\ run \in Invocations
  /\ config = Default
  /\ at = "start"
  /\ next = 1

Parse == Reset \/ SetValue \/ LoadDefaultConfig \/ Act \/ ParseEnds

-----------------------------------------------------------------------------
(***************************************************************************)
(* What has been said, by a file or by a flag, in the order of the actions *)
(* and without regard to how the program comes to its configuration.       *)
(***************************************************************************)
\* The name of the file that is loaded; there is one at most.
FileUsed ==
  IF Given("config") THEN args[SelectInSeq(args, LAMBDA e : e.flag = "config")].value
  ELSE DefaultFile
\* What the file says under a key, or nothing.
Says(key) == {Files[f][key] : f \in {g \in {FileUsed} \cap DOMAIN Files : key \in DOMAIN Files[g]}}

\* The value of --fast that is in force: the file's, whether the flag comes before
\* or after it, then the flag's (main.go:47, 112-114; config.go:149).
FastInForce ==
  IF Says("Fast") # {} THEN config.fast \in Says("Fast")
  ELSE \A k \in DOMAIN args : args[k].flag = "fast" => config.fast = args[k].value

\* The severity of a linter: the file's, the last one given to a flag, and the default
\* only if no flag gives a severity to any linter.
SeverityInForce(l) ==
  LET flags == {k \in DOMAIN args : args[k].flag = "severity" /\ l \in DOMAIN args[k].value}
      isSet == l \in DOMAIN config.severity
  IN  IF \E s \in Says("Severity") : l \in DOMAIN s
      THEN isSet /\ \E s \in Says("Severity") : config.severity[l] = s[l]
      ELSE IF flags # {}
      THEN isSet /\ \E k \in flags : /\ \A m \in flags : m <= k
                                     /\ config.severity[l] = args[k].value[l]
      ELSE isSet <=> l \in DefaultErr /\ ~Given("severity")

\* The values of --exclude among the first n flags.
ExcludeFlags(n) ==
  FlattenSeq([k \in 1 .. n |-> IF args[k].flag = "exclude" THEN <<args[k].value>> ELSE <<>>])
ExcludeInForce ==
  IF Says("Exclude") # {} THEN config.exclude \in Says("Exclude")
  ELSE config.exclude = ExcludeFlags(Len(args))

\* Every value is the one that the last to speak has given, where a file speaks after
\* all flags, wherever --config stands (kingpin app.go:232-255, 654-677).
ValuesInForce ==
  at = "parsed" => FastInForce /\ ExcludeInForce /\ \A l \in Builtin : SeverityInForce(l)

\* A flag given after --config overrides the file (README.md:148-151).
FlagAfterFileWins ==
  at = "parsed" =>
    \A k, m \in DOMAIN args :
      k < m /\ args[k].flag = "config" /\ args[m].flag = "fast" => config.fast = args[m].value
=============================================================================
