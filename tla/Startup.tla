------------------------------- MODULE Startup -------------------------------
(***************************************************************************)
(* What main does with the configuration before it runs a linter: the      *)
(* installation with its fallback (linters.go:94-166), the environment     *)
(* (main.go:401-499), processConfig, and the choice of the linters         *)
(* (main.go:222-232, 386-399, linters.go:30-92, 188-201).                  *)
(***************************************************************************)
EXTENDS Configuration

CONSTANTS
  BadRegexps,   \* the values of --exclude that are no regular expressions
  Vendored      \* the entries GOPATH may have with the vendored linters below

\* The environment: the entries of GOPATH and PATH, GOBIN, which is empty if it is
\* not set, and whether GOROOT is set or the go command there to tell it.
ASSUME StartupAssumption ==
  \A i \in Invocations :
    i.env \in [gopath : Seq(STRING) \ {<<>>}, gobin : Seq(STRING),
              path : Seq(Seq(STRING)), go : BOOLEAN]

VARIABLES
  env,        \* the environment of the process
  installed,  \* the linters that are installed
  failed,     \* those whose own installation failed
  tried,      \* those that installLintersIndividually has tried
  linters     \* the linters to run, by name

installVars == <<installed, failed, tried>>
vars == <<run, config, at, next, env, installed, failed, tried, linters>>

-----------------------------------------------------------------------------
(***************************************************************************)
(* --install.                                                              *)
(***************************************************************************)
Bin(p) == <<p, "bin">>
\* Where go install and go get put a command.
InstallDir(e) == IF e.gobin # <<>> THEN e.gobin ELSE Bin(Head(e.gopath))

\* Mutant of InstallEnv: GOBIN stays as it is.
InstallEnvGopathOnly(e) == [e EXCEPT !.gopath = <<"vendored">>]
\* configureEnvironmentForInstall: GOBIN is fixed before GOPATH becomes the root of
\* the vendored linters.
InstallEnv(e) == [e EXCEPT !.gobin = InstallDir(e), !.gopath = <<"vendored">>]

PrepareInstall ==
  /\ at = "parsed" /\ config.install
  /\ CASE ~config.vendored -> at' = "installing" /\ UNCHANGED env
       [] config.vendored /\ Range(env.gopath) \cap Vendored = {} -> at' = "fatal" /\ UNCHANGED env
       [] OTHER -> at' = "installing" /\ env' = InstallEnv(env)
  /\ UNCHANGED <<run, config, next, installVars, linters>>

\* One go command for all of them, which may fail with some installed.
InstallTogether(some, ok) ==
  /\ at = "installing"
  /\ ok => some = Builtin
  /\ installed' = some
  /\ at' = IF ok THEN "installed" ELSE "one by one"
  /\ UNCHANGED <<run, config, next, env, failed, tried, linters>>

\* Mutant of Failing: a success makes up for the failures before it.
FailingLast(l, ok) == IF ok THEN {} ELSE {l}
Failing(l, ok) == IF ok THEN failed ELSE failed \cup {l}

InstallOne(l, ok) ==
  /\ at = "one by one" /\ l \notin tried
  /\ tried' = tried \cup {l}
  /\ installed' = IF ok THEN installed \cup {l} ELSE installed
  /\ failed' = Failing(l, ok)
  /\ UNCHANGED <<run, config, at, next, env, linters>>

InstallEnds ==
  /\ at = "one by one" /\ tried = Builtin
  /\ at' = IF failed = {} THEN "installed" ELSE "fatal"
  /\ UNCHANGED <<run, config, next, env, installVars, linters>>

-----------------------------------------------------------------------------
(***************************************************************************)
(* Without --install.                                                      *)
(***************************************************************************)
\* addPath.
AddPath(list, p) == IF Contains(list, p) THEN list ELSE Append(list, p)
\* addGoBinsToPath.
SearchPath(e) ==
  FoldLeft(AddPath, e.path,
           [k \in DOMAIN e.gopath |-> Bin(e.gopath[k])] \o
             (IF e.gobin = <<>> THEN <<>> ELSE <<e.gobin>>))

ConfigureEnvironment ==
  /\ at = "parsed" /\ ~config.install
  /\ env' = [env EXCEPT !.path = SearchPath(env)]
  /\ at' = IF env.go THEN "configured" ELSE "fatal"
  /\ UNCHANGED <<run, config, next, installVars, linters>>

\* regexp.MustCompile panics.
ProcessConfig ==
  /\ at = "configured"
  /\ at' = IF Range(config.exclude) \cap BadRegexps # {} THEN "panic" ELSE "processed"
  /\ UNCHANGED <<run, config, next, env, installVars, linters>>

\* The pattern in the table, which is empty for a name that is not there.
TablePattern(l) == IF l \in Builtin THEN "own" ELSE "none"

\* getLinterByName: the table's settings, or none at all, under the configured ones.
\* IsFast can only be switched on.
Setting(l) ==
  LET own == [pattern |-> TablePattern(l), fast |-> l \in FastBuiltin]
  IN  IF l \notin DOMAIN config.linters THEN own
      ELSE [pattern |-> IF config.linters[l].pattern = "none" THEN own.pattern
                        ELSE config.linters[l].pattern,
            fast |-> own.fast \/ config.linters[l].fast]

\* A pattern that does not compile makes a nil linter.
IsNil(s) == s.pattern = "bad"

\* Mutant of Chosen: the file's list of disabled linters is not looked at again.
ChosenEnabled(enabled) == {l \in enabled : config.fast => Setting(l).fast}
\* lintersFromConfig filters, and then takes out what a file has disabled.
Chosen(enabled) == {l \in enabled \ Range(config.disable) : config.fast => Setting(l).fast}

LintersFromConfig ==
  LET enabled == Range(config.enable) IN
  /\ at = "processed"
  /\ IF config.fast /\ \E l \in enabled : IsNil(Setting(l))
     THEN at' = "panic" /\ UNCHANGED linters
     ELSE at' = "chosen" /\ linters' = [l \in Chosen(enabled) |-> Setting(l)]
  /\ UNCHANGED <<run, config, next, env, installVars>>

\* Mutant of Unknown: defined linters are unknown too.
UnknownToTable == DOMAIN linters \ Builtin
Unknown == DOMAIN linters \ (Builtin \cup DOMAIN config.linters)

\* validateLinters, and runLinters, which dereferences each linter.
ValidateLinters ==
  /\ at = "chosen"
  /\ at' = CASE Unknown # {} -> "fatal"
             [] Unknown = {} /\ (\E l \in DOMAIN linters : IsNil(linters[l])) -> "panic"
             [] OTHER -> "linting"
  /\ UNCHANGED <<run, config, next, env, installVars, linters>>

Init ==
  /\ ParseInit
  /\ env = run.env
  /\ installed = {} /\ failed = {} /\ tried = {}
  /\ linters = <<>>

Ended == at \in {"fatal", "panic", "installed", "linting"}

Next ==
  \/ Parse /\ UNCHANGED <<env, installVars, linters>>
  \/ PrepareInstall
  \/ \E some \in SUBSET Builtin, ok \in BOOLEAN : InstallTogether(some, ok)
  \/ \E l \in Builtin, ok \in BOOLEAN : InstallOne(l, ok)
  \/ InstallEnds
  \/ ConfigureEnvironment \/ ProcessConfig \/ LintersFromConfig \/ ValidateLinters
  \/ Ended /\ UNCHANGED vars

Spec == Init /\ [][Next]_vars

-----------------------------------------------------------------------------
(***************************************************************************)
(* Properties.                                                             *)
(***************************************************************************)
\* What has been said about a linter, and when: the default file before all flags.
Story == (IF DefaultFile = "none" THEN <<>> ELSE <<[flag |-> "config", value |-> DefaultFile]>>)
           \o args

\* Whether e enables ("on") or disables ("off") l.
Word(e, l) ==
  CASE e.flag \in {"enable", "disable"} /\ e.value = l -> IF e.flag = "enable" THEN "on" ELSE "off"
    [] e.flag = "enable-all" /\ l \in Builtin -> "on"
    [] e.flag = "disable-all" -> "off"
    [] e.flag = "config" /\ "Enable" \in DOMAIN Files[e.value] ->
         IF Contains(Files[e.value].Enable, l) THEN "on" ELSE "off"
    [] OTHER -> "none"

\* The settings e gives to l, if it does.
Defines(e, l) ==
  CASE e.flag = "linter" /\ e.value.name = l -> {[pattern |-> e.value.pattern, fast |-> l \in FastBuiltin]}
    [] e.flag = "config" /\ "Linters" \in DOMAIN Files[e.value] ->
         {Files[e.value].Linters[m] : m \in {l} \cap DOMAIN Files[e.value].Linters}
    [] OTHER -> {}

LastSuch(S) == CHOOSE k \in S : \A m \in S : m <= k

AskedFor(l) ==
  LET said == {k \in DOMAIN Story : Word(Story[k], l) # "none"}
  IN  IF said = {} THEN l \in DefaultOn ELSE Word(Story[LastSuch(said)], l) = "on"

Definition(l) ==
  LET said == {k \in DOMAIN Story : Defines(Story[k], l) # {}}
  IN  IF said = {} THEN {} ELSE Defines(Story[LastSuch(said)], l)

IsFastLinter(l) == l \in FastBuiltin \/ \E d \in Definition(l) : d.fast

Named == Builtin \cup {args[k].value : k \in {m \in DOMAIN args : args[m].flag = "enable"}}
           \cup (UNION {Range(list) : list \in Says("Enable")})

\* A linter is run if and only if the last word about it, from the defaults, the file
\* or a flag, asks for it, no file that was loaded disables it, and it is fast if only
\* fast ones are wanted; it is run with the last pattern given for it, or with the table's
\* (main.go:116-143, 386-399, config.go:153-160).
RunsWhatWasAsked ==
  at = "linting" =>
    /\ DOMAIN linters =
         {l \in Named : /\ AskedFor(l)
                        /\ \A list \in Says("Disable") : ~Contains(list, l)
                        /\ config.fast => IsFastLinter(l)}
    /\ \A l \in DOMAIN linters :
         LET given == {d \in Definition(l) : d.pattern # "none"}
         IN  IF given = {} THEN linters[l].pattern = TablePattern(l)
             ELSE \E d \in given : linters[l].pattern = d.pattern

\* No linter is run whose name is neither in the table nor defined, and none whose
\* pattern does not compile; an enabled one that is neither, and that is not left out
\* as slow or disabled, stops the program (linters.go:75, 188-201, main.go:390).
StopsForBadLinters ==
  at \in {"linting", "fatal", "panic"} /\ DOMAIN linters # {} =>
    (at = "linting") =
      \A l \in Named : AskedFor(l) /\ l \notin Range(config.disable)
                         /\ (config.fast => IsFastLinter(l)) =>
        (l \in Builtin \/ Definition(l) # {}) /\ \A d \in Definition(l) : d.pattern # "bad"

\* An installation that reports success has installed every linter, also if the one
\* command failed half way, and where a later run finds it: the directory is on the PATH
\* that run sets up from the user's environment, though the installation has changed its
\* own (linters.go:143-166, main.go:441-499).
InstalledIsFound ==
  at = "installed" => installed = Builtin /\ Contains(SearchPath(run.env), InstallDir(env))
=============================================================================
