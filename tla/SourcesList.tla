---------------------------- MODULE SourcesList -----------------------------
(***************************************************************************)
(* The lists of package sources, in both of their formats                  *)
(* (crates/tpt-l-sources-list/src/lib.rs).  An entry is                    *)
(*   [type, uri, suite, components, options, enabled]                      *)
(* with the options a function to sequences of words.  A word of a line is *)
(*   [open, close, keys, text]: whether it starts with `[', whether it has *)
(* a `]', and the option name before its `=', a set of at most one.        *)
(***************************************************************************)
EXTENDS Integers, Sequences, SequencesExt, Functions

Word(text) == [open |-> FALSE, close |-> FALSE, keys |-> {}, text |-> text]
Types == {"deb", "deb-src"}
Texts(words) == [i \in DOMAIN words |-> words[i].text]
Words(texts) == [i \in DOMAIN texts |-> Word(texts[i])]
NoOptions == [k \in {} |-> <<>>]

\* A line break within a value, and what is written taken line by line.
Break == Word("\n")
Lines(words) == FoldLeft(LAMBDA ls, w : IF w = Break THEN Append(ls, <<>>)
                                        ELSE [ls EXCEPT ![Len(ls)] = Append(@, w)],
                         << <<>> >>, words)

-----------------------------------------------------------------------------
(* The one-line format.  A result is [ok, entries]. *)

Rejected == [ok |-> FALSE, entries |-> <<>>]
Accepted(es) == [ok |-> TRUE, entries |-> es]

\* A later option of the same name replaces an earlier one.
OptionsOf(block) ==
    FoldLeft(LAMBDA o, w : IF w.keys = {} THEN o
                           ELSE LET k == CHOOSE x \in w.keys : TRUE
                                IN [x \in DOMAIN o \cup {k} |-> IF x = k THEN <<w.text>> ELSE o[x]],
             NoOptions, block)

\* Where the URI is: after the word that closes the options, if there are any.
UriAt(rest) == IF Head(rest).open THEN SelectInSeq(rest, LAMBDA w : w.close) + 1 ELSE 1
Unclosed(rest) == Head(rest).open /\ \A i \in DOMAIN rest : ~rest[i].close

ParseEntry(words, enabled) ==
    LET rest == Tail(words)
        at == UriAt(rest)
    IN IF words = <<>> \/ Head(words) \notin {Word(t) : t \in Types} THEN Accepted(<<>>)
       ELSE IF rest = <<>> \/ Unclosed(rest) \/ at + 1 > Len(rest) THEN Rejected
       ELSE Accepted(<<[type |-> Head(words).text, uri |-> rest[at], suite |-> rest[at + 1],
                        components |-> SubSeq(rest, at + 2, Len(rest)),
                        options |-> OptionsOf(SubSeq(rest, 1, at - 1)), enabled |-> enabled]>>)

\* A line that starts with # is read to its end if it goes on with deb; the
\* rest of any other line is left out from a word that starts with #.
ParseLine(line) ==
    LET hash == SelectInSeq(line, LAMBDA w : w.text = "#")
    IN IF hash = 1 THEN ParseEntry(Tail(line), FALSE)
       ELSE ParseEntry(IF hash = 0 THEN line ELSE SubSeq(line, 1, hash - 1), TRUE)

\* One line that cannot be read makes the whole text an error.
Both(a, b) == IF a.ok /\ b.ok THEN Accepted(a.entries \o b.entries) ELSE Rejected
ParseOneLine(text) == FoldLeft(LAMBDA r, line : Both(r, ParseLine(line)), Accepted(<<>>), text)

\* One word for each word of a value: name=first second third.  A value that
\* has a line break is not refused: the line ends there.
WriteOption(k, value) == <<[Word(Head(value)) EXCEPT !.keys = {k}]>> \o Words(Tail(value))
WriteEntry(e) ==
    LET names == SetToSeq(DOMAIN e.options)
        block == FlattenSeq([i \in DOMAIN names |-> WriteOption(names[i], e.options[names[i]])])
    IN (IF e.enabled THEN <<>> ELSE <<Word("#")>>) \o <<Word(e.type)>>
       \o (IF block = <<>> THEN <<>>
           ELSE [block EXCEPT ![1].open = TRUE, ![Len(block)].close = TRUE])
       \o <<e.uri, e.suite>> \o e.components
WriteOneLine(es) == FlattenSeq([i \in DOMAIN es |-> Lines(WriteEntry(es[i]))])

-----------------------------------------------------------------------------
(* The deb822 format: a stanza is a sequence of lines, a line is           *)
(* [indent, keys, value], the value a sequence of words.  Field names are  *)
(* in lower case, as they are looked up.  Bound: no word of a line that    *)
(* continues a value has a colon; without its indent it would be a field.  *)

Malformed(line) == ~line.indent /\ line.keys = {} /\ line.value # <<>>
Dot == Word(".")
Continuation(line) == <<Break>> \o (IF line.value = <<Dot>> THEN <<>> ELSE line.value)
ReadField(r, line) ==
    IF line.indent
    THEN [r EXCEPT !.fields = [k \in DOMAIN @ |-> IF k \in r.current THEN @[k] \o Continuation(line) ELSE @[k]]]
    ELSE IF line.keys = {} THEN r
    ELSE [current |-> line.keys,
          fields |-> [k \in DOMAIN r.fields \cup line.keys |->
                         IF k \in line.keys THEN line.value ELSE r.fields[k]]]
\* The line breaks before the first word of a value and after its last go.
Trim(value) ==
    LET words == {i \in DOMAIN value : value[i] # Break}
    IN IF words = {} THEN <<>> ELSE SubSeq(value, Min(words), Max(words))
ParseStanza(stanza) ==
    LET fields == FoldLeft(ReadField, [current |-> {}, fields |-> NoOptions], stanza).fields
    IN [k \in DOMAIN fields |-> Trim(fields[k])]

Field(fields, k) == IF k \in DOMAIN fields THEN fields[k] ELSE <<>>
\* split_whitespace
Split(fields, k) == SelectSeq(Field(fields, k), LAMBDA w : w # Break)
EntriesOf(fields) ==
    LET off == Field(fields, "enabled") \in {<<Word("no")>>, <<Word("false")>>, <<Word("0")>>}
        types == SelectSeq(Split(fields, "types"), LAMBDA w : w.text \in Types)
        options == (IF "signed-by" \in DOMAIN fields THEN {<<"signed-by", "signed-by">>} ELSE {})
                   \cup (IF "architectures" \in DOMAIN fields THEN {<<"arch", "architectures">>} ELSE {})
        entry(t, u, s) ==
            [type |-> t.text, uri |-> u, suite |-> s, components |-> Split(fields, "components"),
             options |-> [k \in {p[1] : p \in options} |->
                             Texts(fields[(CHOOSE p \in options : p[1] = k)[2]])],
             enabled |-> ~off]
        over(seq, F(_)) == FlattenSeq([i \in DOMAIN seq |-> F(seq[i])])
    IN over(types, LAMBDA t : over(Split(fields, "uris"), LAMBDA u :
           over(Split(fields, "suites"), LAMBDA s : <<entry(t, u, s)>>)))

ParseDeb822(stanzas) ==
    IF \E i \in DOMAIN stanzas : \E j \in DOMAIN stanzas[i] : Malformed(stanzas[i][j]) THEN Rejected
    ELSE Accepted(FlattenSeq([i \in DOMAIN stanzas |-> EntriesOf(ParseStanza(stanzas[i]))]))

\* The entries are grouped by all but their type.
\* Fault: the entries that differ in enabled only are one group.
GroupOfAny(e) == [uri |-> e.uri, suite |-> e.suite, components |-> e.components, options |-> e.options,
                  enabled |-> TRUE]
GroupOf(e) == [uri |-> e.uri, suite |-> e.suite, components |-> e.components, options |-> e.options,
               enabled |-> e.enabled]
Groups(es) == FoldLeft(LAMBDA gs, e : IF GroupOf(e) \in ToSet(gs) THEN gs ELSE Append(gs, GroupOf(e)), <<>>, es)

\* A value of several lines is written as it is, without an indent: each of its
\* further lines is one of the text, and an empty one ends the stanza.
Line(keys, value) == [indent |-> FALSE, keys |-> keys, value |-> value]
Blank == Line({}, <<>>)
WriteField(k, value) ==
    LET ls == Lines(value) IN [i \in DOMAIN ls |-> Line(IF i = 1 THEN {k} ELSE {}, ls[i])]
WriteStanza(g, es) ==
    LET mine == SelectSeq(es, LAMBDA e : GroupOf(e) = g)
        option(k, name) == IF k \in DOMAIN g.options THEN WriteField(name, Words(g.options[k])) ELSE <<>>
    IN WriteField("types", [i \in DOMAIN mine |-> Word(mine[i].type)]) \o WriteField("uris", <<g.uri>>)
       \o WriteField("suites", <<g.suite>>) \o WriteField("components", g.components)
       \o WriteField("enabled", <<Word(IF g.enabled THEN "yes" ELSE "no")>>)
       \o option("signed-by", "signed-by") \o option("arch", "architectures") \o <<Blank>>

Stanzas(text) ==
    SelectSeq(FoldLeft(LAMBDA ss, l : IF l = Blank THEN Append(ss, <<>>) ELSE [ss EXCEPT ![Len(ss)] = Append(@, l)],
                       << <<>> >>, text),
              LAMBDA st : st # <<>>)
WriteDeb822(es) ==
    LET gs == Groups(es) IN Stanzas(FlattenSeq([i \in DOMAIN gs |-> WriteStanza(gs[i], es)]))

-----------------------------------------------------------------------------
(* load_dir: the .list and .sources files, in the order of their names; a  *)
(* file is [ext, text], the files are given in that order.                 *)

LoadFile(f) == IF f.ext = "sources" THEN ParseDeb822(f.text) ELSE ParseOneLine(f.text)
LoadDir(files) ==
    FoldLeft(LAMBDA r, f : IF f.ext \in {"list", "sources"} THEN Both(r, LoadFile(f)) ELSE r,
             Accepted(<<>>), files)

BinaryEntries(es) == SelectSeq(es, LAMBDA e : e.enabled /\ e.type = "deb")
SourceEntries(es) == SelectSeq(es, LAMBDA e : e.enabled /\ e.type = "deb-src")

-----------------------------------------------------------------------------
OneWordOptions(e) == \A k \in DOMAIN e.options : Len(e.options[k]) = 1

(***************************************************************************)
(* Entries written in the one-line format are read back as they were, as   *)
(* long as each option is one word and a URI without options before it     *)
(* does not look like options: also those that were read from one-line     *)
(* text with comments after them.                                          *)
(***************************************************************************)
OneLineReadBack(es) ==
    (\A i \in DOMAIN es : OneWordOptions(es[i]) /\ (es[i].uri.open => es[i].options # NoOptions))
    => ParseOneLine(WriteOneLine(es)) = Accepted(es)

(***************************************************************************)
(* Entries written in the deb822 format are read back each as often as     *)
(* before, in an order in which those that differ in type only are         *)
(* together, with no options but signed-by and arch.  If one of those has  *)
(* a value of several lines the text that is written cannot be read at     *)
(* all, although it may have been read from one that could.                *)
(***************************************************************************)
Kept(e) == [e EXCEPT !.options = [k \in DOMAIN @ \cap {"signed-by", "arch"} |-> @[k]]]
IsOfOneLine(e) == \A k \in DOMAIN Kept(e).options : Break \notin ToSet(Words(e.options[k]))
Deb822ReadBack(es) ==
    LET back == ParseDeb822(WriteDeb822(es))
    IN IF \A i \in DOMAIN es : IsOfOneLine(es[i])
       THEN /\ back.ok
            /\ \A e \in {Kept(es[i]) : i \in DOMAIN es} \cup ToSet(back.entries) :
                  Len(SelectSeq(back.entries, LAMBDA x : x = e)) = Len(SelectSeq(es, LAMBDA x : Kept(x) = e))
       ELSE ~back.ok

(***************************************************************************)
(* A directory gives the active entries of its list and sources files, in  *)
(* their order; what a commented line says never becomes one of them.      *)
(***************************************************************************)
ActiveAreUncommented(files) ==
    LET plain(f) == IF f.ext = "sources" THEN f
                    ELSE [f EXCEPT !.text = SelectSeq(@, LAMBDA l : l # <<>> /\ Head(l).text # "#")]
        both(es) == <<BinaryEntries(es), SourceEntries(es)>>
    IN LoadDir(files).ok
       => both(LoadDir(files).entries) = both(LoadDir([i \in DOMAIN files |-> plain(files[i])]).entries)
=============================================================================
