-------------------------------- MODULE Output --------------------------------
(***************************************************************************)
(* What one linter is run with and what is made of its output: Vars and    *)
(* parseCommand (execute.go:19-65, 187-201), the scanner of shlex behind   *)
(* it, and processOutput (execute.go:203-275).                             *)
(*                                                                         *)
(* A text is a sequence of runes and placeholders.  A placeholder is a     *)
(* single element, {name} or {name=text}; for the scanner it is an         *)
(* ordinary rune.                                                          *)
(***************************************************************************)
EXTENDS Naturals, SequencesExt

CONSTANTS
  Forms,        \* the placeholders: the variable of each, and its text if it has one
  Class,        \* the runes that are special to the scanner, with their classes
  Vars,         \* the variables of runLinters with their values
  Executables,  \* the words that exec.LookPath finds
  Numbers,      \* the texts that are 32-bit integers, with their values
  Relative,     \* the paths that exist, with their form relative to the directory
  Cases         \* the linters with their output

(***************************************************************************)
(* A linter: the words of its command, the names of the groups of its      *)
(* pattern ("" for one without), the hits of the pattern, as functions     *)
(* from the groups that match to their texts, the override of its message  *)
(* and its severity, as sets of at most one, and the runes that --exclude  *)
(* and --include look for.                                                 *)
(***************************************************************************)
Classes == {"space", "newline", "double", "single", "escape", "comment"}
Word == [style : {"bare", "double", "single", "mixed", "raw"}, text : Seq(STRING)]

ASSUME OutputAssumption ==
  /\ "" \notin DOMAIN Vars /\ Vars \in [DOMAIN Vars -> Seq(STRING)]
  /\ \A p \in DOMAIN Forms :  \* the text ends at the first brace
       Forms[p].text \in Seq(STRING) /\ Range(Forms[p].text) \cap DOMAIN Forms = {}
  /\ Class \in [DOMAIN Class -> Classes] /\ {" ", "\"", "'", "\\"} \subseteq DOMAIN Class
  /\ Class[" "] = "space" /\ Class["\""] = "double" /\ Class["'"] = "single" /\ Class["\\"] = "escape"
  /\ DOMAIN Class \subseteq STRING \ DOMAIN Forms
  /\ \A c \in Cases :
       /\ c.command \in Seq(Word)
       /\ \A k \in DOMAIN c.command :
            LET w == c.command[k]
            IN  /\ w.style = "mixed" => w.text # <<>>
                /\ w.style = "single" => \A r \in Range(w.text) \cap DOMAIN Class : Class[r] # "single"
       /\ c.groups \in Seq(STRING) /\ c.hits \in Seq(Range(c.hits))
       /\ \A k \in DOMAIN c.hits :
            /\ DOMAIN c.hits[k] \subseteq DOMAIN c.groups
            /\ \A i \in DOMAIN c.hits[k] : c.hits[k][i] \in Seq(STRING)
       /\ c.override \subseteq Seq(STRING) /\ \A t, u \in c.override : t = u

VARIABLES
  linter,  \* the linter
  at,      \* where the worker is
  argv,    \* the words of its command line
  n,       \* the hit that is next
  vars,    \* the local copy of the variables
  sent     \* the issues sent so far, with the hit each comes from

state == <<linter, at, argv, n, vars, sent>>

-----------------------------------------------------------------------------
(***************************************************************************)
(* Vars.Replace ranges over a map, so that the order is any.               *)
(***************************************************************************)
ReplaceOne(text, name, value) ==
  FlattenSeq([k \in DOMAIN text |->
    CASE text[k] \notin DOMAIN Forms -> <<text[k]>>
      [] text[k] \in DOMAIN Forms /\ Forms[text[k]].name # name -> <<text[k]>>
      [] OTHER -> IF Forms[text[k]].text = <<>> THEN value
                  ELSE IF value # <<>> THEN Forms[text[k]].text ELSE <<>>])

\* The variables a text can be affected by are those in it and in their values.
Mentioned(text) == {Forms[p].name : p \in Range(text) \cap DOMAIN Forms}
Orders(text, vs) ==
  SetToSeqs(DOMAIN vs \cap (Mentioned(text) \cup UNION {Mentioned(vs[x]) : x \in DOMAIN vs}))

Replace(text, order, vs) ==
  FoldLeft(LAMBDA t, name : ReplaceOne(t, name, vs[name]), text, order)

-----------------------------------------------------------------------------
(***************************************************************************)
(* shlex: the state of the scanner, the word so far and the words before.  *)
(***************************************************************************)
ClassOf(r) == IF r \in DOMAIN Class THEN Class[r] ELSE "rune"
Scanner == [state |-> "start", word |-> <<>>, words |-> <<>>]

Into(sc, s)     == [sc EXCEPT !.state = s]
Taken(sc, s, r) == [sc EXCEPT !.state = s, !.word = Append(@, r)]
Ended(sc)       == [sc EXCEPT !.state = "start", !.word = <<>>, !.words = Append(@, sc.word)]

\* Mutant of Opened: a quote begins a new word.
OpenedNew(sc, s) == Into(IF sc.word = <<>> THEN sc ELSE Ended(sc), s)
Opened(sc, s) == Into(sc, s)

\* Where the runes that begin something lead.
Begin(sc, r) ==
  CASE ClassOf(r) = "double" -> Opened(sc, "double")
    [] ClassOf(r) = "single" -> Opened(sc, "single")
    [] ClassOf(r) = "escape" -> Into(sc, "escaping")
    [] OTHER -> Taken(sc, "word", r)

Scan(sc, r) ==
  CASE sc.state = "start" ->
         (CASE ClassOf(r) \in {"space", "newline"} -> sc
            [] ClassOf(r) = "comment" -> Into(sc, "comment")
            [] OTHER -> Begin(sc, r))
    [] sc.state = "word" ->
         IF ClassOf(r) \in {"space", "newline"} THEN Ended(sc) ELSE Begin(sc, r)
    [] sc.state = "escaping" -> Taken(sc, "word", r)
    [] sc.state = "escaping in double" -> Taken(sc, "double", r)
    [] sc.state = "double" ->
         (CASE ClassOf(r) = "double" -> Into(sc, "word")
            [] ClassOf(r) = "escape" -> Into(sc, "escaping in double")
            [] OTHER -> Taken(sc, "double", r))
    [] sc.state = "single" ->
         IF ClassOf(r) = "single" THEN Into(sc, "word") ELSE Taken(sc, "single", r)
    [] sc.state = "comment" -> IF ClassOf(r) = "newline" THEN Into(sc, "start") ELSE sc

Scanned(text) == FoldLeft(Scan, Scanner, text)
\* Mutant of Unfinished: single quotes need not be closed.
UnfinishedDouble(sc) == sc.state \in {"double", "escaping", "escaping in double"}
\* The end of the text is an error in a quote and after an escape.
Unfinished(sc) == sc.state \notin {"start", "word", "comment"}
Split(sc) == IF sc.state = "word" THEN Append(sc.words, sc.word) ELSE sc.words

-----------------------------------------------------------------------------
(***************************************************************************)
(* The worker.  A command is written down word by word: bare, in double or *)
(* single quotes, quoted from the second rune on, or as it is, raw.        *)
(***************************************************************************)
Special(r, classes) == ClassOf(r) \in classes
Escaped(text, classes) ==
  FlattenSeq([k \in DOMAIN text |->
    IF Special(text[k], classes) THEN <<"\\", text[k]>> ELSE <<text[k]>>])
AllClasses == Range(Class)

Written(w) ==
  CASE w.style = "bare"   -> Escaped(w.text, AllClasses)
    [] w.style = "double" -> <<"\"">> \o Escaped(w.text, {"double", "escape"}) \o <<"\"">>
    [] w.style = "single" -> <<"'">> \o w.text \o <<"'">>
    [] w.style = "mixed"  -> Escaped(<<Head(w.text)>>, AllClasses) \o
                             <<"\"">> \o Escaped(Tail(w.text), {"double", "escape"}) \o <<"\"">>
    [] w.style = "raw"    -> w.text
Command(ws) == FlattenSeq([k \in DOMAIN ws |-> <<" ">> \o Written(ws[k])])

Init ==
  /\ linter \in Cases
  /\ at = "command"
  /\ argv = <<>>
  /\ n = 1
  /\ vars = Vars
  /\ sent = <<>>

ParseCommand(order) ==
  LET sc == Scanned(Replace(Command(linter.command), order, Vars)) IN
  /\ at = "command"
  /\ IF Unfinished(sc) \/ Split(sc) = <<>> \/ Split(sc)[1] \notin Executables
     THEN at' = "failed" /\ UNCHANGED argv
     ELSE at' = "output" /\ argv' = Split(sc)
  /\ UNCHANGED <<linter, n, vars, sent>>

\* The last group of this name that has matched, or none.
Matching(hit, name) ==
  LET gs == {i \in DOMAIN hit : linter.groups[i] = name}
  IN  {i \in gs : \A j \in gs : j <= i}

\* Mutant of Filled: the variables begin anew with each hit.
FilledAnew(vs, hit) ==
  [x \in (DOMAIN Vars \cup {linter.groups[i] : i \in DOMAIN hit}) \ {""} |->
     IF Matching(hit, x) = {} THEN Vars[x] ELSE hit[CHOOSE i \in Matching(hit, x) : TRUE]]
\* vars after a hit.  A group that has not matched keeps the value it had.
Filled(vs, hit) ==
  [x \in (DOMAIN vs \cup {linter.groups[i] : i \in DOMAIN hit}) \ {""} |->
     IF Matching(hit, x) = {} THEN vs[x] ELSE hit[CHOOSE i \in Matching(hit, x) : TRUE]]

\* A field of the issue: what f makes of the group's text, or the field's default.
Field(hit, name, f, default) ==
  IF Matching(hit, name) = {} THEN default
  ELSE LET text == hit[CHOOSE i \in Matching(hit, name) : TRUE]
       IN  IF text \in DOMAIN f THEN f[text] ELSE text

Malformed(hit) ==
  \E i \in DOMAIN hit : linter.groups[i] \in {"line", "col"} /\ hit[i] \notin DOMAIN Numbers

\* The message, or what its override may become.
Messages(hit, vs) ==
  IF linter.override = {} THEN {Field(hit, "message", <<>>, <<>>)}
  ELSE {Replace(t, o, vs) : t \in linter.override, o \in UNION {Orders(u, vs) : u \in linter.override}}

IssueOf(hit, message) ==
  [path |-> Field(hit, "path", Relative, <<>>), line |-> Field(hit, "line", Numbers, 1),
   col |-> Field(hit, "col", Numbers, 0), message |-> message,
   severity |-> IF linter.severity = {} THEN "warning" ELSE CHOOSE s \in linter.severity : TRUE]

\* Mutant of Hidden: the filters look at the message only.
HiddenByMessage(i) == \/ Range(i.message) \cap linter.exclude # {}
                      \/ linter.include # {} /\ Range(i.message) \cap linter.include = {}
\* --exclude and --include are matched with the issue as it is printed.
Shown(i) == Range(i.path) \cup Range(i.message) \cup {i.severity}
Hidden(i) ==
  \/ Shown(i) \cap linter.exclude # {}
  \/ linter.include # {} /\ Shown(i) \cap linter.include = {}

\* A number out of range ends the program.
FatalHit ==
  /\ at = "output" /\ n <= Len(linter.hits)
  /\ Malformed(linter.hits[n])
  /\ at' = "fatal"
  /\ UNCHANGED <<linter, argv, n, vars, sent>>

ProcessHit(message) ==
  /\ at = "output" /\ n <= Len(linter.hits)
  /\ ~Malformed(linter.hits[n])
  /\ message \in Messages(linter.hits[n], Filled(vars, linter.hits[n]))
  /\ vars' = Filled(vars, linter.hits[n])
  /\ sent' = LET i == IssueOf(linter.hits[n], message) IN
             IF Hidden(i) THEN sent ELSE Append(sent, [hit |-> n, issue |-> i])
  /\ n' = n + 1
  /\ UNCHANGED <<linter, at, argv>>

OutputEnds ==
  /\ at = "output" /\ n > Len(linter.hits)
  /\ at' = "done"
  /\ UNCHANGED <<linter, argv, n, vars, sent>>

Over == at \in {"failed", "fatal", "done"} /\ UNCHANGED state

Next ==
  \/ \E order \in Orders(Command(linter.command), Vars) : ParseCommand(order)
  \/ FatalHit
  \/ /\ n <= Len(linter.hits)
     /\ \E m \in Messages(linter.hits[n], Filled(vars, linter.hits[n])) : ProcessHit(m)
  \/ OutputEnds
  \/ Over

Spec == Init /\ [][Next]_state

-----------------------------------------------------------------------------
(***************************************************************************)
(* Properties.                                                             *)
(***************************************************************************)
\* A text with all its placeholders replaced at once.  One whose variable has no value
\* stays.
Expanded(text, names, value) ==
  FlattenSeq([k \in DOMAIN text |->
    IF text[k] \notin DOMAIN Forms THEN <<text[k]>>
    ELSE LET p == Forms[text[k]]
         IN  CASE p.name \notin names -> <<text[k]>>
               [] p.name \in names /\ p.text = <<>> -> value[p.name]
               [] OTHER -> IF value[p.name] # <<>> THEN p.text ELSE <<>>])

\* What replacing puts into a word, and whether it may stand in a word of this style
\* without changing how the word is read.
Inserted(text) ==
  UNION {Range(IF Forms[p].text = <<>> THEN Vars[Forms[p].name] ELSE Forms[p].text) :
           p \in {q \in Range(text) \cap DOMAIN Forms : Forms[q].name \in DOMAIN Vars}}
SafeIn(w) ==
  /\ w.style # "raw"
  /\ \A r \in Inserted(w.text) :
       ~Special(r, CASE w.style \in {"bare", "mixed"} -> AllClasses
                     [] w.style = "double" -> {"double", "escape"}
                     [] w.style = "single" -> {"single"})

\* The text that is scanned for words, if no value of a variable has a placeholder.
PlainVars == \A x \in DOMAIN Vars : Range(Vars[x]) \cap DOMAIN Forms = {}
Read == Expanded(Command(linter.command), DOMAIN Vars, Vars)

\* The words of a command, without the bare ones that become empty.
WordsOf(ws) ==
  FlattenSeq([k \in DOMAIN ws |->
    LET text == Expanded(ws[k].text, DOMAIN Vars, Vars)
    IN  IF ws[k].style = "bare" /\ text = <<>> THEN <<>> ELSE <<text>>])

\* The words of the command are what they are written as, each with its variables
\* replaced, and only a bare word that becomes empty is dropped, as for the optional
\* arguments {tests=-t} (execute.go:29-40, 63-65, 187-200, shlex.go:186-417).
WordsAsWritten ==
  at = "output" /\ PlainVars /\ (\A k \in DOMAIN linter.command : SafeIn(linter.command[k])) =>
    argv = WordsOf(linter.command)

\* A command whose quotes are not closed, or that ends in an escape, is not run, instead
\* of losing a word or joining several (shlex.go:280-361).
UnfinishedFails ==
  at = "output" /\ PlainVars =>
    LET only  == (Range(Read) \cap DOMAIN Class) \ {" "}
        count == Cardinality({k \in DOMAIN Read : Read[k] \in only})
    IN  /\ only \in {{"'"}, {"\""}} => count % 2 = 0
        /\ only = {"\\"} /\ Last(Read) = "\\" => count > 1

\* The value of a variable at a hit: that of the last hit so far in which a group of the
\* name has matched, or the configured one.
Since(name, k) == {m \in 1 .. k : Matching(linter.hits[m], name) # {}}
ValueAt(k) ==
  LET named == UNION {{linter.groups[i] : i \in DOMAIN linter.hits[m]} : m \in 1 .. k}
      names == (DOMAIN Vars \cup named) \ {""}
  IN  [x \in names |->
         IF Since(x, k) = {} THEN Vars[x]
         ELSE LET m == CHOOSE m \in Since(x, k) : \A l \in Since(x, k) : l <= m
              IN  linter.hits[m][CHOOSE i \in Matching(linter.hits[m], x) : TRUE]]

\* No value has the form of a placeholder.
PlainValues ==
  /\ PlainVars
  /\ \A k \in DOMAIN linter.hits : \A i \in DOMAIN linter.hits[k] :
       Range(linter.hits[k][i]) \cap DOMAIN Forms = {}

\* The message of an issue is that of its hit, or the override with the values of the
\* hit and, for the groups that do not match, of the last earlier hit where they do;
\* in which order the variables are replaced matters only if a value has the form
\* of a placeholder (execute.go:213-214, 229-236, 261-263).
MessageAsDefined(k) ==
  IF linter.override = {} THEN Field(linter.hits[k], "message", <<>>, <<>>)
  ELSE LET v == ValueAt(k) IN Expanded(CHOOSE t \in linter.override : TRUE, DOMAIN v, v)

OverrideShowsLastMatch ==
  PlainValues => \A j \in DOMAIN sent : sent[j].issue.message = MessageAsDefined(sent[j].hit)

\* The issue of a hit, and whether --exclude and --include let it pass.
IssueAt(k) == IssueOf(linter.hits[k], MessageAsDefined(k))
Passes(k) == /\ Shown(IssueAt(k)) \cap linter.exclude = {}
             /\ linter.include = {} \/ Shown(IssueAt(k)) \cap linter.include # {}
Reported(m) ==
  FlattenSeq([k \in 1 .. m |-> IF Passes(k) THEN <<[hit |-> k, issue |-> IssueAt(k)]>> ELSE <<>>])

\* Every hit before the first with a number out of range becomes an issue, in order and
\* with the path, the position and the severity of its own and of no earlier hit, unless
\* the text it is printed with is filtered out (execute.go:216-274).
ReportsItsHits ==
  /\ PlainValues => sent = Reported(n - 1)
  /\ \A k \in 1 .. n - 1 : ~Malformed(linter.hits[k])
  /\ at = "done" => n > Len(linter.hits)
=============================================================================
