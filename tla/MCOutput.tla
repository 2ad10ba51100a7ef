------------------------------- MODULE MCOutput -------------------------------
(* Small linters for Output: commands of up to three words, and outputs of up *)
(* to three hits.                                                             *)
EXTENDS Output, TLC

MCForms ==
  [p \in {"{size}", "{tests=-t}", "{name}", "{message}", "{col}"} |->
     [name |-> CASE p = "{size}" -> "size" [] p = "{tests=-t}" -> "tests" [] p = "{name}" -> "name"
                 [] p = "{message}" -> "message" [] p = "{col}" -> "col",
      text |-> IF p = "{tests=-t}" THEN <<"-", "t">> ELSE <<>>]]

MCClass == [r \in {" ", "\n", "\"", "'", "\\", "#"} |->
  CASE r = " " -> "space" [] r = "\n" -> "newline" [] r = "\"" -> "double" [] r = "'" -> "single"
    [] r = "\\" -> "escape" [] r = "#" -> "comment"]

\* size is a number, tests is off and name has a space in it.
MCVars == [v \in {"size", "tests", "name"} |->
  CASE v = "size" -> <<"9">> [] v = "tests" -> <<>> [] v = "name" -> <<"a", " ", "b">>]

MCExecutables == {<<"x">>}
MCNumbers == <<"7">> :> 7 @@ <<"8">> :> 8
MCRelative == <<"/", "p">> :> <<"p">> @@ <<"q">> :> <<"q">>

Texts == {<<>>, <<"x">>, <<"{size}">>, <<"-", "{size}">>, <<"{tests=-t}">>, <<"{name}">>,
          <<"x", "#">>, <<"#", "x">>, <<"\"", "\\">>, <<"x", " ", "\n">>}
Words == {w \in [style : {"bare", "double", "single", "mixed"}, text : Texts] :
            /\ w.style = "single" => "'" \notin Range(w.text)
            /\ w.style \in {"bare", "mixed"} => w.text # <<>>}
RawWords == [style : {"raw"}, text : {<<"'">>, <<"\"">>, <<"\\">>, <<"x", "#", "'", "\"", "'">>, <<"#", "'">>, <<"\n">>}]

Plain == [style |-> "bare", text |-> <<"x">>]
Commands == {<<Plain>> \o q : q \in BoundedSeq(Words, 2) \cup BoundedSeq(RawWords, 3)} \cup {<<>>, <<[Plain EXCEPT !.text = <<"y">>]>>}

\* Groups: two alternatives for the path, a line, a column and a message.
Groups == <<"path", "path", "line", "col", "message", "">>
Hits ==
  {h \in UNION {[D -> {<<"/", "p">>, <<"q">>, <<"7">>, <<"0">>, <<"m">>, <<"{col}">>}] :
                  D \in {{1, 3, 4, 5, 6}, {2, 3, 5}, {3, 4}, {1, 2, 5}}} :
     \A i \in DOMAIN h :
       /\ i \in {1, 2} => h[i] \in {<<"/", "p">>, <<"q">>}
       /\ i = 3 => h[i] \in {<<"7">>, <<"0">>}
       /\ i = 4 => h[i] = <<"7">>
       /\ i = 5 => h[i] \in {<<"m">>, <<"{col}">>}
       /\ i = 6 => h[i] = <<"m">>}

Case(c, hits, over, sev, ex, in) ==
  [command |-> c, groups |-> Groups, hits |-> hits, override |-> over, severity |-> sev,
   exclude |-> ex, include |-> in]

MCCases ==
  {Case(c, <<>>, {}, {}, {}, {}) : c \in Commands} \cup
  {Case(<<Plain>>, hits, over, sev, ex, in) :
     hits \in BoundedSeq(Hits, 2), over \in {{}, {<<"{message}", ":", "{col}", "{size}">>}},
     sev \in {{}, {"error"}}, ex \in {{}, {":"}, {"error"}}, in \in {{}, {"p"}}} \cup
  {Case(<<Plain>>, hits, {<<"{message}", ":", "{col}", "{size}">>}, {}, {}, {}) :
     hits \in [1 .. 3 -> {h \in Hits : DOMAIN h # {1, 2, 5} /\ h[3] = <<"7">>}]}
=============================================================================
