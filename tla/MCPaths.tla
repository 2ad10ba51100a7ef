------------------------------- MODULE MCPaths -------------------------------
(* A small tree for Paths, and command lines of ten bytes for Partition.       *)
EXTENDS Paths

MCCwd == <<"/", "w">>
In(q) == MCCwd \o q

Tops == {<<"a">>, <<"a", "in">>, <<"b">>, <<"[c">>, <<"_d">>, <<"empty">>, <<"only">>, <<"vendor">>, <<"z">>, <<"a", "locked">>}
TopFiles == {<<"a", "1.go">>, <<"a", "_.go">>, <<"a", "in", "1.go">>, <<"b", "1.go">>, <<"b", "2.go">>,
             <<"[c", "1.go">>, <<"_d", "1.go">>, <<"vendor", "1.go">>, <<"z", "1.go">>, <<"empty", "txt">>}

MCKind == [q \in {<<"/">>, MCCwd} \cup {In(p) : p \in Tops \cup TopFiles} |->
             IF q \in {In(p) : p \in TopFiles} THEN "file" ELSE "dir"]
MCLink == In(<<"link">>) :> In(<<"b">>) @@ In(<<"only", "2.go">>) :> In(<<"a">>)
MCNames == <<"..", ".", "/", "1.go", "2.go", "[c", "_.go", "_d", "a", "b", "empty", "in", "link",
             "locked", "missing", "only", "txt", "vendor", "w", "z">>

Arg(p, all) == [path |-> p, all |-> all]
ArgSet == {Arg(<<".">>, TRUE), Arg(<<"a", "..", "b">>, FALSE), Arg(<<"a">>, TRUE), Arg(<<"/", "w", "b">>, TRUE),
           Arg(<<"z">>, FALSE), Arg(<<"missing">>, TRUE), Arg(<<"link">>, TRUE), Arg(<<"_d">>, TRUE),
           Arg(<<"empty">>, FALSE), Arg(<<"[c">>, TRUE)}
MCArguments == BoundedSeq(ArgSet, 2)
MCSkips == {{}, {<<"vendor">>, <<"a", "locked">>, <<"[c">>}}

\* The directories that can come out, and their files by the globs of Partition.
MCDirs == {<<".">>, <<"/", "w", "b">>} \cup {<<".">> \o p : p \in Tops \cup {<<"link">>}} 
MCFilesOf == [d \in MCDirs |->
  LET names == {m \in GoNames : Append(Real(d), m) \in Tree}
      seq == SelectSeq(MCNames, LAMBDA m : m \in names)
  IN  [k \in DOMAIN seq |-> Clean(Append(d, seq[k]))]]
MCAbsolute == {<<"/", "w", "b">>}
MCBadGlob == {<<".", "[c">>}

\* The lengths differ, and the limit is reached exactly.
MCBytes == [x \in Args |->
  CASE x = <<"b">> -> 7 [] x = <<".", "b">> -> 2 [] x = <<"a", "1.go">> -> 5 [] OTHER -> 3]
MCRelTo == [e \in {"root", "other"} \X MCAbsolute |-> IF e[1] = "root" THEN <<"b">> ELSE <<"..", "b">>]
MCGoPaths == {<<"root">>, <<"rel", "other", "root">>, <<"rel">>}
MCBroken == {In(<<"a", "locked">>)}
=============================================================================
