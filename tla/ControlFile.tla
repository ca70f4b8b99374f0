---------------------------- MODULE ControlFile -----------------------------
(***************************************************************************)
(* Control files and package indices (crates/tpt-l-control-file/src/       *)
(* lib.rs), read line by line.  A line is                                  *)
(*   [indent |-> whether it starts with a blank,                           *)
(*    keys   |-> what is before its colon, a set of at most one key,       *)
(*    value  |-> the rest, trimmed]                                        *)
(* and a key is [name |-> the name in lower case, case |-> how it is       *)
(* written, padded |-> whether a blank is between it and the colon].       *)
(***************************************************************************)
EXTENDS Integers, Sequences, FiniteSets, FiniteSetsExt, Reader

CONSTANT ControlTexts \* the texts to be read

FieldKey == [name : STRING, case : STRING, padded : BOOLEAN]
Line == {line \in [indent : BOOLEAN, keys : SUBSET FieldKey, value : STRING] :
            \A k, l \in line.keys : k = l}
ASSUME ControlAssumption == ControlTexts \subseteq Seq(Line)

Unkeyed(value) == [indent |-> FALSE, keys |-> {}, value |-> value]
Usual(name) == [name |-> name, case |-> "usual", padded |-> FALSE]
Separates(line) == line = Unkeyed("")
IsBlank(line) == line.keys = {} /\ line.value = ""

-----------------------------------------------------------------------------
(* Stanzas: what is between empty lines.  A line of blanks separates none. *)

Said(stanza) == {i \in DOMAIN stanza : ~IsBlank(stanza[i])}
EndStanza(r) == IF Said(r.open) # {} THEN Append(r.kept, r.open) ELSE r.kept
Untrimmed(text) ==
    LET r[n \in 0 .. Len(text)] ==
            IF n = 0 THEN [kept |-> <<>>, open |-> <<>>]
            ELSE IF Separates(text[n]) THEN [kept |-> EndStanza(r[n - 1]), open |-> <<>>]
            ELSE [r[n - 1] EXCEPT !.open = Append(@, text[n])]
    IN EndStanza(r[Len(text)])

\* str::trim takes the lines of blanks at both ends, and the indent of the
\* first line that is left.
Trimmed(stanza) ==
    [SubSeq(stanza, Min(Said(stanza)), Max(Said(stanza))) EXCEPT ![1].indent = FALSE]

SplitStanzas(text) == LET ss == Untrimmed(text) IN [i \in DOMAIN ss |-> Trimmed(ss[i])]

-----------------------------------------------------------------------------
(* A paragraph is the sequence of its fields, in the order they were first *)
(* set in.  The value of a field is the sequence of its lines.             *)

Has(para, key) == \E i \in DOMAIN para : para[i].key = key
Set(para, key, value) ==
    IF Has(para, key)
    THEN [i \in DOMAIN para |-> IF para[i].key = key THEN [key |-> key, value |-> value] ELSE para[i]]
    ELSE Append(para, [key |-> key, value |-> value])

\* A continuation goes to the field set last, without its first blank.
\* Fault: it goes to the last field of the paragraph.
ContinueLast(r, line) ==
    IF r.para = <<>> THEN r
    ELSE [r EXCEPT !.para[Len(r.para)].value = Append(@, [line EXCEPT !.indent = FALSE])]
Continue(r, line) ==
    LET added(f) == IF f.key \in r.current
                    THEN [key |-> f.key, value |-> Append(f.value, [line EXCEPT !.indent = FALSE])]
                    ELSE f
    IN [r EXCEPT !.para = [i \in DOMAIN r.para |-> added(r.para[i])]]

NewField(r, key, value, strict) ==
    IF strict /\ Has(r.para, key) THEN [r EXCEPT !.failed = TRUE]
    ELSE [para |-> Set(r.para, key, <<Unkeyed(value)>>), current |-> {key}, failed |-> FALSE]

ReadLine(r, line, strict, trims) ==
    IF r.failed THEN r
    ELSE IF line.indent THEN Continue(r, line)
    ELSE IF line.keys = {} THEN r
    ELSE LET key == CHOOSE k \in line.keys : TRUE
         IN NewField(r, IF trims THEN [key EXCEPT !.padded = FALSE] ELSE key, line.value, strict)

Read(stanza, strict, trims) ==
    LET r[n \in 0 .. Len(stanza)] ==
            IF n = 0 THEN [para |-> <<>>, current |-> {}, failed |-> FALSE]
            ELSE ReadLine(r[n - 1], stanza[n], strict, trims)
    IN r[Len(stanza)]

ParseParagraph(stanza, strict) == Read(stanza, strict, TRUE)
\* The borrowing parser leaves the key as it stands.
ParseBorrowed(stanza, strict)  == Read(stanza, strict, FALSE)

\* ControlParagraph::get: the values it may return.  Without the key itself,
\* it takes any one that differs in case only.
Get(para, name) ==
    LET exact == {i \in DOMAIN para : para[i].key = Usual(name)}
        other == {i \in DOMAIN para : para[i].key.name = name /\ ~para[i].key.padded}
    IN {para[i].value : i \in IF exact # {} THEN exact ELSE other}

-----------------------------------------------------------------------------
(* What is made of a text.  A package is its fields; {} is the error of a  *)
(* stanza without a Package or a Version.                                  *)

Names == {"package", "version", "depends"}
BuildBinary(para) ==
    IF Get(para, "package") = {} \/ Get(para, "version") = {} THEN {}
    ELSE {[n \in Names |-> Get(para, n)]}

ParseStanza(stanza) == BuildBinary(ParseParagraph(stanza, FALSE).para)
ParseStanzaStrict(stanza) ==
    LET r == ParseParagraph(stanza, TRUE) IN IF r.failed THEN {} ELSE BuildBinary(r.para)

ParsePackagesIndex(text) == LET ss == Untrimmed(text) IN [i \in DOMAIN ss |-> ParseStanza(ss[i])]
PackagesIndex(text) == LET ss == SplitStanzas(text) IN [i \in DOMAIN ss |-> ParseStanza(ss[i])]
PackagesIndexStrict(text) ==
    LET ss == SplitStanzas(text) IN [i \in DOMAIN ss |-> ParseStanzaStrict(ss[i])]

\* A source package is named by Package, or else by Source.
SourceStanza(stanza) ==
    LET para == ParseParagraph(stanza, FALSE).para
        name == IF Get(para, "package") # {} THEN Get(para, "package") ELSE Get(para, "source")
    IN IF name = {} \/ Get(para, "version") = {} THEN {} ELSE {[name |-> name, version |-> Get(para, "version")]}
SourcesIndex(text) == LET ss == SplitStanzas(text) IN [i \in DOMAIN ss |-> SourceStanza(ss[i])]

\* ControlFile::parse.
OneStanza(text) ==
    LET ss == SplitStanzas(text)
    IN IF Len(ss) # 1 THEN {}
       ELSE {r.para : r \in {x \in {ParseParagraph(ss[1], TRUE)} : ~x.failed}}

-----------------------------------------------------------------------------
(* What the fields of the first n lines of a stanza are: each key that one *)
(* of them starts with has the value of the last such line, and the        *)
(* indented lines after it up to the next line with a key, in their order; *)
(* lines with neither count for nothing.                                   *)

Starts(stanza, i)   == ~stanza[i].indent /\ stanza[i].keys # {}
KeyAt(stanza, i)    == [(CHOOSE k \in stanza[i].keys : TRUE) EXCEPT !.padded = FALSE]
Starting(stanza, n) == {i \in 1 .. n : Starts(stanza, i)}
More(stanza, i, n)  == {j \in i + 1 .. n : stanza[j].indent /\ Starting(stanza, j) \subseteq 1 .. i}
LastOf(stanza, key, n) == Max({i \in Starting(stanza, n) : KeyAt(stanza, i) = key})
SpeltFrom(value, stanza, i, n) ==
    LET more == More(stanza, i, n)
    IN /\ Len(value) = 1 + Cardinality(more)
       /\ value[1] = Unkeyed(stanza[i].value)
       /\ \A j \in more : value[1 + Cardinality(more \cap 1 .. j)] = [stanza[j] EXCEPT !.indent = FALSE]
Repeats(stanza, n) ==
    \E i, j \in Starting(stanza, n) : i # j /\ KeyAt(stanza, i) = KeyAt(stanza, j)

(***************************************************************************)
(* A stanza is read as the fields it has: the last of a repeated one, with *)
(* all of its continuation lines and no other's, nothing lost or invented; *)
(* and reading it strictly fails exactly when a key is repeated.           *)
(***************************************************************************)
StanzaIsItsFields(stanza) ==
    LET r == ParseParagraph(stanza, FALSE)
        n == Len(stanza)
    IN /\ {KeyAt(stanza, i) : i \in Starting(stanza, n)} = {r.para[i].key : i \in DOMAIN r.para}
       /\ \A i \in DOMAIN r.para : SpeltFrom(r.para[i].value, stanza, LastOf(stanza, r.para[i].key, n), n)
       /\ ParseParagraph(stanza, TRUE).failed <=> Repeats(stanza, n)

(***************************************************************************)
(* The three ways to read an index give the same packages: but for a       *)
(* stanza with an indented first line or a last line of blanks, which only *)
(* parse_packages_index leaves as they are, and one that repeats a key,    *)
(* which only the strict reading refuses.  The index of sources takes the  *)
(* same stanzas, when none is named by Source, and the borrowing parser    *)
(* reads them as the owning one does, unless a blank is before a colon.    *)
(***************************************************************************)
IndicesAgree(text) ==
    LET ss == Untrimmed(text)
    IN \A i \in DOMAIN ss :
          LET s == Trimmed(ss[i])
          IN /\ ~ss[i][Min(Said(ss[i]))].indent /\ ~IsBlank(ss[i][Len(ss[i])])
                   => ParsePackagesIndex(text)[i] = PackagesIndex(text)[i]
             /\ PackagesIndexStrict(text)[i]
                   = (IF ParseParagraph(s, TRUE).failed THEN {} ELSE PackagesIndex(text)[i])
             /\ Get(ParseParagraph(s, FALSE).para, "source") = {}
                   => (SourcesIndex(text)[i] = {} <=> PackagesIndex(text)[i] = {})
             /\ (\A j \in DOMAIN s : \A k \in s[j].keys : ~k.padded)
                   => \A strict \in BOOLEAN : ParseBorrowed(s, strict) = ParseParagraph(s, strict)

(***************************************************************************)
(* A text that is accepted as a file of one stanza loses none of its       *)
(* fields: every line with a key gave the value of that key, and a lookup  *)
(* by its name is answered in one way unless two keys differ in case only. *)
(***************************************************************************)
OneStanzaKeepsAll(text) ==
    \A para \in OneStanza(text) :
        LET s == SplitStanzas(text)[1]
            lines == Starting(s, Len(s))
        IN \A i \in lines :
              LET key == KeyAt(s, i)
              IN /\ \E f \in DOMAIN para : para[f].key = key /\ para[f].value[1].value = s[i].value
                 /\ \/ \E j \in lines : j # i /\ KeyAt(s, j).name = key.name
                    \/ Get(para, key.name) = {para[g].value : g \in {f \in DOMAIN para : para[f].key = key}}

-----------------------------------------------------------------------------
(* All of the above on a text of its own. *)

ParseControl == \E text \in ControlTexts : Take("control", text)
ControlSpec == NoInput /\ [][ParseControl \/ Elsewhere({"control"})]_inputVars

\* A stanza is the fields its lines spell, continuation lines folded into the
\* field they follow, and the readers of the crate that go about it in three
\* ways agree where they should (control-file 101-609).
ControlReadersAgree ==
    part = "control" =>
        /\ LET ss == SplitStanzas(input) IN \A i \in DOMAIN ss : StanzaIsItsFields(ss[i])
        /\ IndicesAgree(input)
        /\ OneStanzaKeepsAll(input)
=============================================================================
