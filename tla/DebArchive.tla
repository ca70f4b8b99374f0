----------------------------- MODULE DebArchive -----------------------------
(***************************************************************************)
(* The reader of .deb archives (crates/tpt-l-deb-format/src/lib.rs).  The  *)
(* bytes are a sequence of cells: the magic, a header with the name of a   *)
(* member (base and extension) and its size, the cells of its body, and a  *)
(* pad after a body of odd size.  The cells of a tar are its entries       *)
(* [path, type, content].  What is cut short inside of a header is a torn  *)
(* cell at the end.                                                        *)
(***************************************************************************)
EXTENDS Integers, Sequences, FiniteSets, FiniteSetsExt, Reader

CONSTANTS Archives,  \* sequences of members [base, ext, body]
          Streams,   \* archives to be read a part of each member at a time
          Parts,     \* how much of each member that is
          Tars       \* payloads, sequences of entries

\* s is a sequence, of whatever it is.
IsSequence(s) == Len(s) \in Nat /\ s = [i \in 1..Len(s) |-> s[i]]
ASSUME ArchiveAssumption ==
    /\ \A ms \in Archives \cup Streams : IsSequence(ms) /\ \A i \in DOMAIN ms : IsSequence(ms[i].body)
    /\ \A ms \in Streams, takes \in Parts : DOMAIN ms \subseteq DOMAIN takes
    /\ \A takes \in Parts : \A i \in DOMAIN takes : takes[i] \in Nat
    /\ \A tar \in Tars : IsSequence(tar)

Cell(kind) == [kind |-> kind]
Header(m)  == [kind |-> "header", base |-> m.base, ext |-> m.ext, size |-> Len(m.body)]
Data(x)    == [kind |-> "data", value |-> x]

\* The layout of ar.
WriteMember(m) ==
    <<Header(m)>> \o [i \in DOMAIN m.body |-> Data(m.body[i])]
    \o (IF Len(m.body) % 2 = 1 THEN <<Cell("pad")>> ELSE <<>>)
Archive(members) ==
    LET written[n \in 0..Len(members)] ==
            IF n = 0 THEN <<Cell("magic")>> ELSE written[n - 1] \o WriteMember(members[n])
    IN written[Len(members)]

-----------------------------------------------------------------------------
(* ArReader.  `takes' says how much of each body the caller reads before   *)
(* it drops the entry; dropping skips the rest and the pad.                *)

\* Fault: the pad is skipped only if there is a rest.
DropRest(pos, size, read) == pos + read + (IF size > read THEN (size - read) + (size % 2) ELSE 0)
Drop(pos, size, read) == pos + read + (size - read) + (size % 2)

NextEntry(r, bytes, takes) ==
    IF r.state # "reading" THEN r
    ELSE IF r.pos > Len(bytes) \/ bytes[r.pos].kind = "torn" THEN [r EXCEPT !.state = "end"]
    ELSE IF bytes[r.pos].kind # "header" THEN [r EXCEPT !.state = "failed"]
    ELSE LET h == bytes[r.pos]
             read == Min({takes[Len(r.entries) + 1], h.size, Len(bytes) - r.pos})
         IN [r EXCEPT !.entries = Append(@, [base |-> h.base, ext |-> h.ext, size |-> h.size,
                                             body |-> [i \in 1..read |-> bytes[r.pos + i].value]]),
                      !.pos = Drop(@ + 1, h.size, read)]

NewReader(bytes) == [state |-> IF bytes # <<>> /\ Head(bytes).kind = "magic" THEN "reading" ELSE "failed",
                     pos |-> 2, entries |-> <<>>]
ReadArchive(bytes, takes) ==
    LET read[n \in 0..Len(bytes)] ==
            IF n = 0 THEN NewReader(bytes) ELSE NextEntry(read[n - 1], bytes, takes)
    IN read[Len(bytes)]
Whole(bytes) == [i \in 1..Len(bytes) |-> Len(bytes)]

-----------------------------------------------------------------------------
(* DebFile::parse.  A tar that is compressed and cut short is an error;    *)
(* one that is not ends where it ends.  Of several members with one name   *)
(* the last counts; a member of another name is passed over.               *)

Bad     == [ok |-> FALSE, metadata |-> {}, control |-> {}, data |-> {}]
Nothing == [ok |-> TRUE, metadata |-> {}, control |-> {}, data |-> {}]
Decompresses(e) == \/ e.ext \in {".gz", ".xz", ".zst"} /\ Len(e.body) = e.size
                   \/ e.ext = ""

\* The first entry called control with a paragraph in it.
ControlOf(e) ==
    LET at == {i \in DOMAIN e.body : e.body[i].path = "control" /\ e.body[i].content # ""}
    IN {e.body[i].content : i \in {j \in at : \A l \in at : j <= l}}

\* An archive of another format, or a control member that cannot be read.
Refused(e) == \/ e.base = "debian-binary" /\ e.body # <<"2.0">>
              \/ e.base = "control.tar" /\ (~Decompresses(e) \/ ControlOf(e) = {})
Member(r, e) ==
    IF ~r.ok \/ Refused(e) THEN Bad
    ELSE CASE e.base = "control.tar" -> [r EXCEPT !.metadata = ControlOf(e), !.control = {e}]
           [] e.base = "data.tar"    -> [r EXCEPT !.data = {e}]
           [] OTHER                  -> r

Collect(es) ==
    LET r[n \in 0..Len(es)] == IF n = 0 THEN Nothing ELSE Member(r[n - 1], es[n])
    IN r[Len(es)]

Parse(bytes) ==
    LET ar == ReadArchive(bytes, Whole(bytes))
        r == Collect(ar.entries)
    IN IF ar.state = "failed" \/ r.metadata = {} \/ \E d \in r.data : ~Decompresses(d) THEN Bad ELSE r
Entries(r) == UNION {{d.body[i] : i \in DOMAIN d.body} : d \in r.data}

\* parse_metadata stops at the first data member: also an error in the
\* layout after it is not met.
ToData(es) == LET at == {i \in DOMAIN es : es[i].base = "data.tar"}
              IN IF at = {} THEN es ELSE SubSeq(es, 1, Min(at) - 1)
ParseMetadata(bytes) ==
    LET ar == ReadArchive(bytes, Whole(bytes))
    IN IF ar.state = "failed" /\ ToData(ar.entries) = ar.entries THEN {}
       ELSE Collect(ToData(ar.entries)).metadata

-----------------------------------------------------------------------------
(* The payload: read into a map, or extracted.  A file is opened through a *)
(* link that is there, a link replaces what is there, and other entries    *)
(* (directories, hard links, devices) are passed over.                     *)

Keep(contents, e) == IF e.type # "file" THEN contents
                  ELSE [p \in DOMAIN contents \cup {e.path} |-> IF p = e.path THEN e.content ELSE contents[p]]
DataContents(tar) ==
    LET contents[n \in 0..Len(tar)] == IF n = 0 THEN [p \in {} |-> ""] ELSE Keep(contents[n - 1], tar[n])
    IN contents[Len(tar)]

\* Where a file is opened: the end of the links from its path.  A circle of
\* links has none.
IsLink(fs, path) == path \in DOMAIN fs /\ fs[path].type = "link"
Opened(fs, path) ==
    LET at[n \in 0..Cardinality(DOMAIN fs)] ==
            IF n = 0 THEN path ELSE IF IsLink(fs, at[n - 1]) THEN fs[at[n - 1]].content ELSE at[n - 1]
    IN at[Cardinality(DOMAIN fs)]
Put(fs, path, e) == [p \in DOMAIN fs \cup {path} |-> IF p = path THEN [type |-> e.type, content |-> e.content] ELSE fs[p]]
ExtractEntry(r, e) ==
    IF ~r.ok \/ e.type \notin {"file", "link"} THEN r
    ELSE LET p == IF e.type = "link" THEN e.path ELSE Opened(r.fs, e.path)
         IN IF e.type = "file" /\ IsLink(r.fs, p) THEN [r EXCEPT !.ok = FALSE]
            ELSE [r EXCEPT !.fs = Put(@, p, e)]
Extract(tar) ==
    LET r[n \in 0..Len(tar)] == IF n = 0 THEN [ok |-> TRUE, fs |-> [p \in {} |-> ""]]
                                ELSE ExtractEntry(r[n - 1], tar[n])
    IN r[Len(tar)]

-----------------------------------------------------------------------------
(***************************************************************************)
(* The members of an archive are read in their order and each from its     *)
(* first byte, however much of the ones before was read.                   *)
(***************************************************************************)
MembersAligned(members, takes) ==
    LET r == ReadArchive(Archive(members), takes)
    IN /\ r.state = "end" /\ Len(r.entries) = Len(members)
       /\ \A i \in DOMAIN members :
             /\ r.entries[i].base = members[i].base
             /\ r.entries[i].body = SubSeq(members[i].body, 1, Len(r.entries[i].body))
             /\ Len(r.entries[i].body) = Min({takes[i], Len(members[i].body)})

(***************************************************************************)
(* Of an archive whose one control member comes first and whose payload is *)
(* compressed, what is left when it is cut at any byte is refused, or has  *)
(* the metadata of the whole and all of the payload or none: never a part  *)
(* of it.                                                                  *)
(***************************************************************************)
Cuts(bytes) == {SubSeq(bytes, 1, n) : n \in 0..Len(bytes)}
               \cup {Append(SubSeq(bytes, 1, n - 1), Cell("torn")) : n \in {i \in DOMAIN bytes : bytes[i].kind = "header"}}
CutIsNoticed(members) ==
    LET bytes == Archive(members)
        controls == {i \in DOMAIN members : members[i].base = "control.tar"}
        datas == {i \in DOMAIN members : members[i].base = "data.tar"}
        plain == \E i \in DOMAIN members : members[i].ext = "" /\ members[i].base # "debian-binary"
    IN (~plain /\ Cardinality(controls) = 1 /\ Cardinality(datas) = 1 /\ Parse(bytes).ok)
       => \A cut \in Cuts(bytes) :
             LET r == Parse(cut)
             IN r.ok => /\ r.metadata = Parse(bytes).metadata
                        /\ Entries(r) \in {{}, Entries(Parse(bytes))}

(***************************************************************************)
(* The quick way to the metadata gives what parsing the whole archive      *)
(* gives, unless a control member comes after the payload; it accepts      *)
(* archives that parse refuses, for what comes later in them.              *)
(***************************************************************************)
MetadataAgrees(members) ==
    LET bytes == Archive(members)
        late == \E i, j \in DOMAIN members : /\ i < j
                                             /\ members[i].base = "data.tar"
                                             /\ members[j].base = "control.tar"
    IN (Parse(bytes).ok /\ ~late) => ParseMetadata(bytes) = Parse(bytes).metadata

(***************************************************************************)
(* Extracting a payload and reading it into memory give the same files,    *)
(* unless a path is both a link and something else in it.                  *)
(***************************************************************************)
ExtractedIsRead(tar) ==
    LET r == Extract(tar)
        links == {i \in DOMAIN tar : tar[i].type = "link"}
        linked == {tar[i].path : i \in links} \cap {tar[i].path : i \in DOMAIN tar \ links}
        regular == {p \in DOMAIN r.fs : r.fs[p].type = "file"}
    IN linked = {} => /\ r.ok
                      /\ [p \in regular |-> r.fs[p].content] = DataContents(tar)

-----------------------------------------------------------------------------
(* Each of the above on an input of its own. *)

ParseArchive == \E ms \in Archives : Take("archive", ms)
ReadPart     == \E ms \in Streams, takes \in Parts : Take("ar", <<ms, takes>>)
ExtractTar   == \E tar \in Tars : Take("tar", tar)

ArchiveSpec ==
    NoInput /\ [][ParseArchive \/ ReadPart \/ ExtractTar \/ Elsewhere({"archive", "ar", "tar"})]_inputVars

\* The streaming reader of ar members stays aligned however much of a member
\* its caller reads, the archive is not accepted with a damaged member, the
\* two readers of its metadata agree, and what extract writes is what the
\* tar archive lists (deb-format 110-583).
ArchiveIsRead ==
    /\ part = "ar"      => MembersAligned(input[1], input[2])
    /\ part = "archive" => CutIsNoticed(input) /\ MetadataAgrees(input)
    /\ part = "tar"     => ExtractedIsRead(input)
=============================================================================
