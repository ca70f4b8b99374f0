------------------------------ MODULE MCFormats -----------------------------
(***************************************************************************)
(* The readers and writers on every input of small grammars: a step from   *)
(* the initial state picks a part and an input for it.                     *)
(***************************************************************************)
EXTENDS Version, Seccomp, Keyring, Differences, DebArchive, ControlFile, SequencesExt, TLC

Strings(chars, n) == UNION {[1..k -> chars] : k \in 0..n}
MCRank == "0" :> 48 @@ "1" :> 49 @@ "2" :> 50 @@ "3" :> 51 @@ "4" :> 52 @@ "5" :> 53 @@ "6" :> 54 @@ "7" :> 55
          @@ "8" :> 56 @@ "9" :> 57 @@ "a" :> 97 @@ "." :> 46 @@ "~" :> 126 @@ "-" :> 45 @@ ":" :> 58 @@ "+" :> 43 @@ "!" :> 33
MCCompared == Strings({"0", "1", "9", "a", "~"}, 3)
MCConstrained == [epoch : {0, 2}, upstream : {<<"1">>, <<"1", "~">>, <<"a">>}, revision : {<<>>, <<"0">>, <<"1">>, <<"~">>}]
MCSpelled == Strings({"0", "9", "a", "-", ":", "+", "!"}, 4)

AsLine(indent, keys, value) == [indent |-> indent, keys |-> keys, value |-> value]
Pkg == Usual("package")
Ver == Usual("version")
ControlLines == {AsLine(FALSE, {}, ""), AsLine(TRUE, {}, ""), AsLine(FALSE, {}, "w"), AsLine(TRUE, {}, "w"),
                 AsLine(FALSE, {Pkg}, "a"), AsLine(FALSE, {Ver}, "v"), AsLine(FALSE, {Usual("source")}, "s"), AsLine(TRUE, {Ver}, "w"),
                 AsLine(FALSE, {[Ver EXCEPT !.case = "lower"]}, "v"), AsLine(FALSE, {[Pkg EXCEPT !.padded = TRUE]}, "b")}
MCControlTexts == Strings(ControlLines, 4)

S == INSTANCE SourcesList
W(t) == S!Word(t)
Opens(w) == [w EXCEPT !.open = TRUE]
Closes(w) == [w EXCEPT !.close = TRUE]
ArchWord == [W("x") EXCEPT !.keys = {"arch"}]
LineWords == {W("#"), W("deb"), W("u"), Opens(Closes(ArchWord)), Opens(ArchWord), Closes(W("y"))}
DLine(k, v) == [indent |-> FALSE, keys |-> {k}, value |-> v]
Folded(t) == [indent |-> TRUE, keys |-> {}, value |-> <<W(t)>>]
ParseSources ==
    \/ \E l \in Strings(LineWords, 5), e \in {<<>>, <<<<W("deb-src"), W("u"), W("s")>>>>} :
          Take("sources", <<[ext |-> "list", text |-> <<l>> \o e]>>)
    \/ \E a, b \in {"list", "sources", "save"}, on \in {"yes", "no"}, as \in Strings({W("x"), W(".")}, 1),
          more \in Strings({Folded("."), Folded("y")}, 2), l \in Strings(LineWords, 2) :
          Take("sources", [i \in 1..2 |-> LET ext == <<a, b>>[i] IN [ext |-> ext, text |->
              IF ext # "sources" THEN <<l, <<W("deb"), W("u"), W("s")>>>>
              ELSE <<<<DLine("types", <<W("deb"), W("deb-src")>>), DLine("uris", <<W("u")>>),
                       DLine("suites", <<W("s")>>), Folded("t"), DLine("enabled", <<W(on)>>),
                       DLine("architectures", as)>> \o more>>]])

Settings == {[blocks |-> b, chain |-> c, append |-> a, value |-> v, semicolons |-> a] :
             b \in {<<>>, <<"A">>, <<"A", "B">>, <<"B">>}, c \in {<<"A">>, <<"B">>, <<"A", "B">>, <<"A", "A">>},
             a \in BOOLEAN, v \in {"x"}}
ParseConfig == \E ss \in Strings(Settings, 2) : Take("config", ss)

A == INSTANCE AptConfig WITH MaxDepth <- 3
Inc(t, p) == <<A!Tok(t), [t |-> "value", s |-> p]>>
Body(p) == A!Text([blocks |-> <<p>>, chain |-> <<"A">>, append |-> FALSE, value |-> p, semicolons |-> FALSE])
FileNames == {"f", "g", "h", "i"}
IncludeLists == {<<>>, Inc("include", "f"), Inc("include", "h"), Inc("include", "d"), Inc("include-dir", "d"),
                 Inc("include", "g") \o <<A!Tok(";")>> \o Inc("include", "none")}
ParseIncludes == \E i \in [FileNames -> IncludeLists], d \in {<<>>, <<"h", "i">>, <<"i">>} : Take("includes", <<i, d>>)
Files == [f \in FileNames |-> Body(f) \o input[1][f]]
Dirs == "d" :> input[2]

Archived(base, ext, body) == [base |-> base, ext |-> ext, body |-> body]
Entry(path, type, content) == [path |-> path, type |-> type, content |-> content]
Members == {Archived("debian-binary", "", <<"2.0">>), Archived("debian-binary", "", <<"3.0">>),
            Archived("_gpgorigin", "", <<"s">>), Archived("_gpgorigin", "", <<>>)}
           \cup {Archived(b, e, x) : b \in {"control.tar", "data.tar"}, e \in {".gz", "", ".bz2"},
                    x \in {<<Entry("control", "file", "c"), Entry("md5sums", "file", "m")>>,
                           <<Entry("control", "file", "d")>>}}
MCArchives == Strings(Members, 3)
MCStreams == Strings({m \in Members : m.ext # ".bz2" /\ m.base # "control.tar"}, 3)
MCParts == [1..3 -> 0..2]
Payload == {Entry(p, "file", c) : p \in {"a", "b"}, c \in {"1", "2"}}
           \cup {Entry(p, "link", q) : p, q \in {"a", "b", "c"}} \cup {Entry("b", "hard", "a")}
MCTars == Strings(Payload, 3)

MCBasis == <<0, 1, 2, 3, 3, 2, 1>>
Ops == {[literal |-> TRUE, data |-> d, from |-> 0, length |-> 0] : d \in {<<>>, <<3, 0>>, <<1, 2, 3, 0, 1>>}}
       \cup {[literal |-> FALSE, data |-> <<>>, from |-> f, length |-> l] : f \in {0, 3, 4, 6}, l \in {0, 1, 3, 4, 5}}
MCDeltas == Strings(Ops, 2)

Rules == [nr : {1, 2, 5}, args : {{}} \cup {{[arg |-> a, value |-> v]} : a \in {"a0", "a1"}, v \in {1, 2, 5}}]
MCProfiles == Strings(Rules, 2)
MCCalls == [arch : {1, 2}, nr : 1..3, args : [{"a0", "a1"} -> {0, 1, 2, 6}]]

Cert(id, expires, revoked) == [id |-> id, expires |-> expires, revoked |-> revoked]
PlainCerts == {Cert("k", {}, FALSE), Cert("o", {3}, FALSE)}
MCCerts == PlainCerts \cup {Cert("l", {1}, FALSE), Cert("m", {}, TRUE), Cert("n", {1}, TRUE)}
MCHistories == Strings({[add |-> TRUE, data |-> d, id |-> "k"] : d \in Strings(PlainCerts \cup {Junk}, 2)}
                       \cup {[add |-> FALSE, data |-> <<>>, id |-> i] : i \in {"k", "o"}}, 3)
MCRings == Strings(MCCerts, 3)
MCSigners == SUBSET {"k", "l", "m", "n"}
MCPolicies == [when : {2}, allowExpired : BOOLEAN, allowRevoked : BOOLEAN]

Next == /\ part = "none"
        /\ \/ CompareVersions \/ CheckConstraint \/ ReadVersion \/ ParseControl \/ ParseSources
           \/ ParseConfig \/ ParseIncludes \/ ParseArchive \/ ReadPart \/ ExtractTar
           \/ CompareDebs \/ ApplyDelta \/ RunFilter \/ ChangeKeyring \/ VerifySigned
Spec == NoInput /\ [][Next]_inputVars

-----------------------------------------------------------------------------
(* Correctness, of each reader on every input above.  The parts are stated   *)
(* in the modules.                                                           *)

\* Entries of sources.list in either format come back when they are written
\* and read again, an active one is one that is not commented out; a file of
\* settings means the same in nested and in scoped syntax, and includes add
\* what the files they name hold, however deep (sources-list, apt-config).
SourcesAndConfigRead ==
    /\ part = "sources" =>
         LET entries == S!LoadDir(input).entries
         IN S!OneLineReadBack(entries) /\ S!Deb822ReadBack(entries) /\ S!ActiveAreUncommented(input)
    /\ part = "config"   => A!SyntaxesAgree(input)
    /\ part = "includes" => A!IncludesResolve("f", Files, Dirs)
=============================================================================
