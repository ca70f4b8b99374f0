-------------------------- MODULE AptUpdateProofs ---------------------------
(***************************************************************************)
(* An update that is done has brought every index up to date, and one that *)
(* failed a part of them, for every sources list, any number of archives   *)
(* and publications, and whatever fails; and the chain of diffs it applies *)
(* is a shortest one.                                                      *)
(***************************************************************************)
EXTENDS AptUpdate, SequenceTheorems, FiniteSetTheorems, WellFoundedInduction, TLAPS

\* The Release that counts for an item.
Listed(i) == PackagesSha256(releases[Work[i].entry], Work[i].component)
IsFetched(i) == Work[i].entry <= Len(releases)

UpdateTypes ==
    /\ rev \in [Origins -> Nat] /\ started \in [Origins -> Nat]
    /\ \A o \in Origins : started[o] <= rev[o]
    /\ cache = [s \in DOMAIN cache |-> cache[s]]
    /\ releases \in Seq({releases[k] : k \in DOMAIN releases})
    /\ n \in Nat \ {0}
    /\ pc \in {"idle", "release", "item", "patch", "full", "write", "writing",
               "done", "failed"}

\* A Release lists, for its archive, revisions that were published since update
\* was called, and one that was fetched later no older ones.
ReleasesTell ==
    \A i \in DOMAIN Work : IsFetched(i) =>
        \A t \in Listed(i) :
            /\ t = Content(Origin(Work[i]), t.rev)
            /\ t.rev \in started[Origin(Work[i])] .. rev[Origin(Work[i])]
ReleasesAscend ==
    \A i, j \in DOMAIN Work :
        i <= j /\ IsFetched(j) /\ Origin(Work[i]) = Origin(Work[j]) =>
            \A t \in Listed(i), u \in Listed(j) : t.rev <= u.rev

AtItems == {"item", "patch", "full", "write", "writing"}
ItemIsThere ==
    /\ Len(releases) <= Len(Entries) /\ (n = 1 \/ n \in DOMAIN Work)
    /\ pc \in AtItems => Len(releases) = Len(Entries) /\ n \in DOMAIN Work
    /\ pc = "patch" => Target # {}

\* The bytes to be written are as new as the item needs them, and any item
\* before it that has the same file.
BytesAreFresh ==
    pc \in {"write", "writing"} =>
        \E r \in started[Origin(Item)] .. rev[Origin(Item)] :
            /\ bytes = Content(Origin(Item), r)
            /\ \A i \in 1 .. n : Origin(Work[i]) = Origin(Item) =>
                   \A t \in Listed(i) : r >= t.rev
FileIsThere == pc = "writing" => File \in DOMAIN cache

\* The items before are up to date, unless the file of one is being written.
FreshBefore ==
    pc \in AtItems \cup {"failed"} /\ Len(releases) = Len(Entries) =>
        \A i \in 1 .. n - 1 :
            Slug(Work[i]) # File \/ pc \in AtItems \ {"writing"} => Fresh(i)

\* The items after are as they were.
LeftAlone ==
    \A s \in Slugs \ {Slug(Work[i]) : i \in 1 .. n} :
        /\ s \in DOMAIN cache <=> s \in DOMAIN before
        /\ s \in DOMAIN cache => cache[s] = before[s]
NothingWritten == pc = "release" => cache = before /\ n = 1

FreshInv ==
    /\ UpdateTypes /\ ReleasesTell /\ ReleasesAscend /\ ItemIsThere
    /\ BytesAreFresh /\ FileIsThere /\ FreshBefore /\ DoneIsFresh
    /\ LeftAlone /\ NothingWritten

\* No two indices go to one file.
OneIndexPerFile ==
    \A i, j \in DOMAIN Work :
        Slug(Work[i]) = Slug(Work[j]) => Origin(Work[i]) = Origin(Work[j])

-----------------------------------------------------------------------------
(* The list of the work: FlattenSeq, one entry after the other.             *)

\* Induction over the turns of a loop, from the least element of what is left.
LEMMA Induction ==
    ASSUME NEW last \in Nat, NEW G, 0 \in G,
           \A k \in 0 .. last - 1 : k \in G => k + 1 \in G
    PROVE  0 .. last \subseteq G
<1> DEFINE Below == OpToRel(<, Nat)
           Bad   == (0 .. last) \ G
<1>1. IsWellFoundedOn(Below, Nat)
  BY NatLessThanWellFounded
<1>2. \A a, b \in Nat : a < b => <<a, b>> \in Below
  BY DEF OpToRel
<1>3. Bad # {} => \E m \in Bad : \A k \in Bad : ~(<<k, m>> \in Below)
  <2>1. Bad \subseteq Nat
    OBVIOUS
  <2> QED BY <1>1, <2>1, WFMin
<1> HIDE DEF Below
<1>4. ASSUME NEW m \in Bad, \A k \in Bad : ~(<<k, m>> \in Below) PROVE FALSE
  <2>1. m \in Nat /\ m # 0 /\ m - 1 \in 0 .. last - 1 /\ m - 1 \in Nat
    BY <1>4
  <2>2. <<m - 1, m>> \in Below
    BY <1>2, <2>1
  <2>3. m - 1 \in G
    BY <1>4, <2>1, <2>2
  <2> QED BY <1>4, <2>1, <2>3
<1> QED BY <1>3, <1>4

LEMMA FunctionIsSeq ==
    ASSUME NEW S, NEW size \in Nat, NEW f \in [1 .. size -> S]
    PROVE  f \in Seq(S) /\ Len(f) = size /\ DOMAIN f = 1 .. size
OBVIOUS

\* The loop of FlattenSeq, its first n turns.
FlatBody(f, seqs, m) ==
    [i \in 1 .. m |-> IF i = 1 THEN seqs[i] ELSE f[i - 1] \o seqs[i]]
FlatRun(seqs, m) == CHOOSE f : f = FlatBody(f, seqs, m)

LEMMA FlatRuns ==
    ASSUME NEW seqs, NEW m \in Nat
    PROVE  FlatRun(seqs, m) = FlatBody(FlatRun(seqs, m), seqs, m)
<1> DEFINE G == {k \in 0 .. m : \E f : f = FlatBody(f, seqs, k)}
<1>1. 0 \in G
  <2>1. [i \in 1 .. 0 |-> <<>>] = FlatBody([i \in 1 .. 0 |-> <<>>], seqs, 0)
    BY DEF FlatBody
  <2> QED BY <2>1
<1>2. ASSUME NEW k \in 0 .. m - 1, k \in G PROVE k + 1 \in G
  <2>1. PICK f : f = FlatBody(f, seqs, k)
    BY <1>2
  <2> DEFINE g == [i \in 1 .. k + 1 |-> IF i = 1 THEN seqs[i] ELSE f[i - 1] \o seqs[i]]
  <2>2. \A i \in 1 .. k : g[i] = f[i]
    <3>1. \A i \in 1 .. k : g[i] = FlatBody(f, seqs, k)[i]
      BY DEF FlatBody
    <3> QED BY <2>1, <3>1, Zenon
  <2>3. \A i \in 1 .. k + 1 : i # 1 => i - 1 \in 1 .. k
    OBVIOUS
  <2>4. g = FlatBody(g, seqs, k + 1)
    BY <2>2, <2>3 DEF FlatBody
  <2> QED BY <2>4
<1>3. m \in G
  <2>1. \A k \in 0 .. m - 1 : k \in G => k + 1 \in G
    BY <1>2
  <2> HIDE DEF G
  <2> QED BY <1>1, <2>1, Induction
<1> QED BY <1>3 DEF FlatRun

LEMMA FlatSteps ==
    ASSUME NEW seqs, Len(seqs) \in Nat \ {0}
    PROVE  LET f == FlatRun(seqs, Len(seqs)) IN
           /\ FlattenSeq(seqs) = f[Len(seqs)]
           /\ f[1] = seqs[1]
           /\ \A k \in 1 .. Len(seqs) - 1 : f[k + 1] = f[k] \o seqs[k + 1]
<1> DEFINE m == Len(seqs)
           f == FlatRun(seqs, m)
           b == FlatBody(f, seqs, m)
<1>1. f = b /\ m \in Nat \ {0}
  BY FlatRuns
<1>2. FlattenSeq(seqs) = f[m]
  BY <1>1 DEF FlattenSeq, FlatRun, FlatBody
<1>3. b[1] = seqs[1]
  BY <1>1 DEF FlatBody
<1>4. ASSUME NEW k \in 1 .. m - 1 PROVE b[k + 1] = f[k] \o seqs[k + 1]
  <2>1. k + 1 \in 1 .. m /\ k + 1 # 1 /\ (k + 1) - 1 = k
    BY <1>1
  <2> HIDE DEF f, m
  <2> QED BY <2>1 DEF FlatBody
<1> HIDE DEF f, b
<1>5. f[1] = seqs[1]
  BY <1>1, <1>3
<1>6. ASSUME NEW k \in 1 .. m - 1 PROVE f[k + 1] = f[k] \o seqs[k + 1]
  BY <1>1, <1>4
<1> QED BY <1>2, <1>5, <1>6 DEF f

\* The items of the first k entries, in the order of the entries.
WorkItem == [entry : DOMAIN Entries, component : STRING]
ListsComponent(w) ==
    \E j \in DOMAIN Entries[w.entry].components :
        w.component = Entries[w.entry].components[j]
WorkUpTo(s, k) ==
    /\ s \in Seq(WorkItem)
    /\ \A i \in DOMAIN s : s[i].entry <= k /\ ListsComponent(s[i])
    /\ \A i, j \in DOMAIN s : i <= j => s[i].entry <= s[j].entry

LEMMA EntryFacts ==
    ASSUME NEW k \in DOMAIN Entries
    PROVE  /\ Entries[k].components \in Seq(STRING)
           /\ Entries[k].uri \in DOMAIN Host /\ Entries[k].suite \in STRING
           /\ Len(Entries[k].components) \in Nat
           /\ DOMAIN Entries[k].components = 1 .. Len(Entries[k].components)
           /\ DOMAIN Entries = 1 .. Len(Entries) /\ Len(Entries) \in Nat
<1> DEFINE Source == [enabled : BOOLEAN, type : {"deb", "deb-src"}, uri : DOMAIN Host,
                      suite : STRING, components : Seq(STRING)]
<1>1. Entries \in Seq(Source)
  BY UpdateAssumption
<1>2. Entries[k] \in Source
  <2> HIDE DEF Source
  <2> QED BY <1>1
<1> QED BY <1>1, <1>2

LEMMA WorksUpTo ==
    ASSUME NEW k \in DOMAIN Entries
    PROVE  /\ Works(k) \in Seq(WorkItem)
           /\ \A i \in DOMAIN Works(k) : Works(k)[i].entry = k /\ ListsComponent(Works(k)[i])
<1> DEFINE c == Entries[k].components
           w == [j \in DOMAIN c |-> [entry |-> k, component |-> c[j]]]
<1>1. c \in Seq(STRING) /\ Len(c) \in Nat /\ DOMAIN c = 1 .. Len(c)
  BY EntryFacts
<1>2. w \in [1 .. Len(c) -> WorkItem]
  BY <1>1 DEF WorkItem
<1>3. \A i \in DOMAIN w : w[i].entry = k /\ ListsComponent(w[i])
  BY <1>1 DEF ListsComponent
<1>4. Works(k) = <<>> \/ Works(k) = w
  BY DEF Works
<1> HIDE DEF w
<1>5. w \in Seq(WorkItem)
  BY <1>1, <1>2, FunctionIsSeq
<1>6. CASE Works(k) = <<>>
  BY <1>6, EmptySeq
<1>7. CASE Works(k) = w
  BY <1>3, <1>5, <1>7
<1> QED BY <1>4, <1>6, <1>7

LEMMA WorkGrows ==
    ASSUME NEW s, NEW k \in DOMAIN Entries, k - 1 \in DOMAIN Entries, WorkUpTo(s, k - 1)
    PROVE  WorkUpTo(s \o Works(k), k)
<1> DEFINE w == Works(k)
<1>1. /\ w \in Seq(WorkItem) /\ s \in Seq(WorkItem)
      /\ \A i \in DOMAIN w : w[i].entry = k /\ ListsComponent(w[i])
  BY WorksUpTo DEF WorkUpTo
<1> HIDE DEF w
<1>2. /\ s \o w \in Seq(WorkItem) /\ Len(s) \in Nat /\ Len(w) \in Nat
      /\ DOMAIN s = 1 .. Len(s) /\ DOMAIN w = 1 .. Len(w)
      /\ DOMAIN (s \o w) = 1 .. Len(s) + Len(w)
      /\ \A i \in 1 .. Len(s) : (s \o w)[i] = s[i]
      /\ \A i \in 1 .. Len(s) + Len(w) : i > Len(s) =>
             i - Len(s) \in DOMAIN w /\ (s \o w)[i] = w[i - Len(s)]
  BY <1>1, ConcatProperties
<1> DEFINE t == s \o w
<1> HIDE DEF t
<1>3. k \in Nat
  BY EntryFacts
<1>4. \A i \in DOMAIN s : s[i].entry \in Nat /\ s[i].entry <= k - 1 /\ ListsComponent(s[i])
  <2>1. \A i \in DOMAIN s : s[i] \in WorkItem
    BY <1>1
  <2>2. \A v \in WorkItem : v.entry \in Nat
    BY <1>3, EntryFacts DEF WorkItem
  <2> QED BY <2>1, <2>2 DEF WorkUpTo
<1>5. ASSUME NEW i \in DOMAIN t
      PROVE  /\ ListsComponent(t[i]) /\ t[i].entry \in Nat /\ t[i].entry <= k
             /\ i > Len(s) => t[i].entry = k
  <2>1. CASE i <= Len(s)
    <3>1. i \in DOMAIN s /\ t[i] = s[i] /\ ~(i > Len(s))
      BY <1>2, <2>1 DEF t
    <3>2. s[i].entry \in Nat /\ s[i].entry <= k - 1 /\ ListsComponent(s[i])
      BY <1>4, <3>1
    <3> QED BY <1>3, <3>1, <3>2
  <2>2. CASE i > Len(s)
    <3>1. i - Len(s) \in DOMAIN w /\ t[i] = w[i - Len(s)]
      BY <1>2, <2>2 DEF t
    <3> QED BY <1>1, <1>3, <3>1
  <2> QED BY <1>2, <2>1, <2>2 DEF t
<1>6. ASSUME NEW i \in DOMAIN t, NEW j \in DOMAIN t, i <= j PROVE t[i].entry <= t[j].entry
  <2>1. CASE j <= Len(s)
    <3>1. i \in DOMAIN s /\ j \in DOMAIN s /\ t[i] = s[i] /\ t[j] = s[j]
      BY <1>2, <1>6, <2>1 DEF t
    <3> QED BY <1>6, <3>1 DEF WorkUpTo
  <2>2. CASE j > Len(s)
    BY <1>5, <2>2
  <2> QED BY <1>2, <2>1, <2>2 DEF t
<1>7. t \in Seq(WorkItem)
  BY <1>2 DEF t
<1> QED BY <1>5, <1>6, <1>7 DEF WorkUpTo, t, w

LEMMA WorkFacts ==
    /\ Work \in Seq(WorkItem) /\ Len(Work) \in Nat /\ DOMAIN Work = 1 .. Len(Work)
    /\ \A i \in DOMAIN Work : Work[i].entry \in DOMAIN Entries /\ ListsComponent(Work[i])
    /\ \A i, j \in DOMAIN Work : i <= j => Work[i].entry <= Work[j].entry
<1> DEFINE seqs == [i \in DOMAIN Entries |-> Works(i)]
           m == Len(Entries)
           f == FlatRun(seqs, m)
           G == {k \in 0 .. m : k = 0 \/ WorkUpTo(f[k], k)}
<1>1. m \in Nat /\ DOMAIN Entries = 1 .. m
  BY UpdateAssumption
<1>2. Len(seqs) = m /\ DOMAIN seqs = 1 .. m /\ seqs \in Seq(Seq(WorkItem))
  <2>1. seqs \in [1 .. m -> Seq(WorkItem)]
    BY <1>1, WorksUpTo
  <2> HIDE DEF seqs
  <2> QED BY <1>1, <2>1, FunctionIsSeq
<1>3. WorkUpTo(Work, m)
  <2>1. CASE m = 0
    <3>1. seqs = <<>>
      BY <1>1, <2>1
    <3>2. Work = <<>>
      BY <1>2, <2>1, <3>1 DEF Work, FlattenSeq
    <3> QED BY <3>2, EmptySeq DEF WorkUpTo
  <2>2. CASE m # 0
    <3>1. /\ Work = f[m] /\ f[1] = seqs[1]
          /\ \A k \in 1 .. m - 1 : f[k + 1] = f[k] \o seqs[k + 1]
      <4> HIDE DEF f, m, seqs
      <4>1. Len(seqs) \in Nat \ {0}
        BY <1>1, <1>2, <2>2
      <4> QED BY <1>2, <4>1, FlatSteps DEF f, Work, seqs
    <3> HIDE DEF f
    <3>2. \A k \in 1 .. m : seqs[k] = Works(k)
      BY <1>1
    <3>3. \A k \in 0 .. m - 1 : k \in G => k + 1 \in G
      <4> SUFFICES ASSUME NEW k \in 0 .. m - 1, k \in G PROVE WorkUpTo(f[k + 1], k + 1)
        BY <1>1
      <4>1. k + 1 \in DOMAIN Entries /\ k + 1 - 1 = k /\ k + 1 \in Nat
        BY <1>1
      <4>2. CASE k = 0
        <5>1. f[k + 1] = Works(k + 1) /\ Works(k + 1) \in Seq(WorkItem)
          BY <1>1, <2>2, <3>1, <3>2, <4>2, WorksUpTo
        <5> QED BY <4>1, <5>1, WorksUpTo DEF WorkUpTo
      <4>3. CASE k # 0
        <5>1. k \in 1 .. m - 1 /\ k \in DOMAIN Entries /\ k + 1 \in 1 .. m
          BY <1>1, <4>3
        <5>2. f[k + 1] = f[k] \o seqs[k + 1] /\ seqs[k + 1] = Works(k + 1)
          BY <3>1, <3>2, <5>1
        <5>3. WorkUpTo(f[k], k)
          BY <4>3
        <5> QED BY <4>1, <5>1, <5>2, <5>3, WorkGrows
      <4> QED BY <4>2, <4>3
    <3>4. 0 \in G
      BY <1>1
    <3>5. m \in G
      <4> HIDE DEF G, m
      <4>1. 0 .. m \subseteq G
        BY <1>1, <3>3, <3>4, Induction
      <4> QED BY <1>1, <4>1
    <3> QED BY <2>2, <3>1, <3>5
  <2> QED BY <2>1, <2>2
<1>4. Work \in Seq(WorkItem)
  BY <1>3 DEF WorkUpTo
<1>5. \A i \in DOMAIN Work : Work[i] \in WorkItem
  BY <1>4
<1>6. Len(Work) \in Nat /\ DOMAIN Work = 1 .. Len(Work)
  BY <1>4
<1> QED BY <1>3, <1>4, <1>5, <1>6 DEF WorkUpTo, WorkItem

-----------------------------------------------------------------------------
(* Reading a Release: the hashes it yields are those of its SHA256 section. *)

ReadBody(f, lines, m) ==
    [k \in 0 .. m |->
        IF k = 0 THEN [header |-> TRUE, hashes |-> FALSE, files |-> <<>>]
                 ELSE ReadLine(f[k - 1], lines[k])]
ReadRun(lines, m) == CHOOSE f : f = ReadBody(f, lines, m)

LEMMA ReadRuns ==
    ASSUME NEW lines, NEW m \in Nat
    PROVE  ReadRun(lines, m) = ReadBody(ReadRun(lines, m), lines, m)
<1> DEFINE G == {k \in 0 .. m : \E f : f = ReadBody(f, lines, k)}
           fresh == [header |-> TRUE, hashes |-> FALSE, files |-> <<>>]
<1>1. 0 \in G
  <2>1. [i \in 0 .. 0 |-> fresh] = ReadBody([i \in 0 .. 0 |-> fresh], lines, 0)
    BY DEF ReadBody
  <2> QED BY <2>1
<1>2. ASSUME NEW k \in 0 .. m - 1, k \in G PROVE k + 1 \in G
  <2>1. PICK f : f = ReadBody(f, lines, k)
    BY <1>2
  <2> DEFINE g == [i \in 0 .. k + 1 |-> IF i = 0 THEN fresh ELSE ReadLine(f[i - 1], lines[i])]
  <2>2. \A i \in 0 .. k : g[i] = f[i]
    <3>1. \A i \in 0 .. k : g[i] = ReadBody(f, lines, k)[i]
      BY DEF ReadBody
    <3> QED BY <2>1, <3>1, Zenon
  <2>3. \A i \in 0 .. k + 1 : i # 0 => i - 1 \in 0 .. k
    OBVIOUS
  <2>4. g = ReadBody(g, lines, k + 1)
    BY <2>2, <2>3 DEF ReadBody
  <2> QED BY <2>4
<1>3. m \in G
  <2>1. \A k \in 0 .. m - 1 : k \in G => k + 1 \in G
    BY <1>2
  <2> HIDE DEF G
  <2> QED BY <1>1, <2>1, Induction
<1> QED BY <1>3 DEF ReadRun

LEMMA ReadSteps ==
    ASSUME NEW lines, Len(lines) \in Nat
    PROVE  LET f == ReadRun(lines, Len(lines)) IN
           /\ ParseRelease(lines) = f[Len(lines)].files
           /\ f[0] = [header |-> TRUE, hashes |-> FALSE, files |-> <<>>]
           /\ \A k \in 0 .. Len(lines) - 1 : f[k + 1] = ReadLine(f[k], lines[k + 1])
<1> DEFINE m == Len(lines)
           f == ReadRun(lines, m)
           b == ReadBody(f, lines, m)
<1>1. f = b /\ m \in Nat
  BY ReadRuns
<1>2. ParseRelease(lines) = f[m].files
  BY <1>1 DEF ParseRelease, ReadRun, ReadBody
<1>3. b[0] = [header |-> TRUE, hashes |-> FALSE, files |-> <<>>]
  BY <1>1 DEF ReadBody
<1>4. ASSUME NEW k \in 0 .. m - 1 PROVE b[k + 1] = ReadLine(f[k], lines[k + 1])
  <2>1. k + 1 \in 0 .. m /\ k + 1 # 0 /\ (k + 1) - 1 = k
    BY <1>1
  <2> HIDE DEF f, m
  <2> QED BY <2>1 DEF ReadBody
<1> HIDE DEF f, b
<1>5. f[0] = [header |-> TRUE, hashes |-> FALSE, files |-> <<>>]
  BY <1>1, <1>3
<1>6. ASSUME NEW k \in 0 .. m - 1 PROVE f[k + 1] = ReadLine(f[k], lines[k + 1])
  BY <1>1, <1>4
<1> QED BY <1>2, <1>5, <1>6 DEF f

\* One line: hashes are read from a section SHA256 on and no further than the
\* next section, and only then a file is listed.
IsReader(s) == /\ s = [header |-> s.header, hashes |-> s.hashes, files |-> s.files]
               /\ s.header \in BOOLEAN /\ s.hashes \in BOOLEAN
               /\ s.header => ~s.hashes
Opens(line) == line.kind = "section" /\ line.name = "SHA256"
LEMMA LineIsRead ==
    ASSUME NEW s, IsReader(s), NEW line
    PROVE  /\ IsReader(ReadLine(s, line))
           /\ ReadLine(s, line).hashes => Opens(line) \/ (s.hashes /\ line.kind # "section")
           /\ \/ ReadLine(s, line).files = s.files
              \/ /\ s.hashes /\ line.kind = "file"
                 /\ ReadLine(s, line).files = Insert(s.files, line.path, line.hash)
<1> DEFINE t == ReadLine(s, line)
<1>1. CASE s.header
  <2>1. t = [s EXCEPT !.header = line.kind # "blank"]
    BY <1>1 DEF ReadLine, IsReader
  <2> HIDE DEF t
  <2>2. /\ t.header = (line.kind # "blank") /\ t.hashes = s.hashes /\ t.files = s.files
        /\ t = [header |-> t.header, hashes |-> t.hashes, files |-> t.files]
    BY <2>1 DEF IsReader
  <2> QED BY <1>1, <2>2 DEF IsReader, t
<1>2. CASE ~s.header /\ line.kind \in {"blank", "section"}
  <2>1. t = [s EXCEPT !.hashes = line.kind = "section" /\ line.name = "SHA256"]
    BY <1>2 DEF ReadLine
  <2> HIDE DEF t
  <2>2. /\ t.header = s.header /\ t.hashes = Opens(line) /\ t.files = s.files
        /\ t = [header |-> t.header, hashes |-> t.hashes, files |-> t.files]
    BY <2>1 DEF IsReader, Opens
  <2>3. Opens(line) \in BOOLEAN
    BY DEF Opens
  <2> QED BY <1>2, <2>2, <2>3 DEF IsReader, t
<1>3. CASE ~s.header /\ line.kind = "file" /\ s.hashes
  <2>1. t = [s EXCEPT !.files = Insert(@, line.path, line.hash)]
    BY <1>3 DEF ReadLine
  <2> HIDE DEF t
  <2>2. /\ t.header = s.header /\ t.hashes = s.hashes
        /\ t.files = Insert(s.files, line.path, line.hash)
        /\ t = [header |-> t.header, hashes |-> t.hashes, files |-> t.files]
    BY <2>1 DEF IsReader
  <2> QED BY <1>3, <2>2 DEF IsReader, t
<1>4. CASE ~s.header /\ line.kind \notin {"blank", "section"} /\ ~(line.kind = "file" /\ s.hashes)
  <2>1. t = s
    BY <1>4 DEF ReadLine
  <2> HIDE DEF t
  <2> QED BY <1>4, <2>1 DEF IsReader, t
<1> QED BY <1>1, <1>2, <1>3, <1>4

\* Where the lines of a Release are: the hashes of the components follow the
\* only line that opens a section SHA256, and another section follows them.
Places(lines, e, o) ==
    LET m == Len(e.components) IN
    /\ Len(lines) \in Nat /\ o \in Nat
    /\ \A k \in 1 .. Len(lines) : Opens(lines[k]) => k = o
    /\ \A j \in 1 .. m : lines[o + j] = Hashes(e)[j]
    /\ o + m + 1 <= Len(lines) /\ lines[o + m + 1].kind = "section"

LEMMA ReleaseYields ==
    ASSUME NEW e, e.components \in Seq(STRING), NEW lines, NEW o, Places(lines, e, o),
           NEW c, NEW t \in PackagesSha256(ParseRelease(lines), c)
    PROVE  t = Content(<<e.uri, e.suite, c>>, rev[<<e.uri, e.suite, c>>])
<1> DEFINE f == ReadRun(lines, Len(lines))
           m == Len(e.components)
           Hash(p) == Content(<<e.uri, e.suite, p>>, rev[<<e.uri, e.suite, p>>])
           Tells(s) == \A p \in DOMAIN s.files : s.files[p] = Hash(p)
           Good(s, k) == /\ IsReader(s) /\ Tells(s)
                         /\ s.hashes => o <= k /\ k <= o + m
           G == {k \in 0 .. Len(lines) : Good(f[k], k)}
<1>1. /\ ParseRelease(lines) = f[Len(lines)].files
      /\ f[0] = [header |-> TRUE, hashes |-> FALSE, files |-> <<>>]
      /\ \A k \in 0 .. Len(lines) - 1 : f[k + 1] = ReadLine(f[k], lines[k + 1])
      /\ Len(lines) \in Nat /\ o \in Nat /\ m \in Nat
  BY ReadSteps DEF Places
<1> HIDE DEF f
<1>2. Good(f[0], 0)
  BY <1>1 DEF IsReader
<1>3. ASSUME NEW k \in 0 .. Len(lines) - 1, Good(f[k], k) PROVE Good(f[k + 1], k + 1)
  <2> DEFINE s == f[k]
             line == lines[k + 1]
             u == f[k + 1]
  <2>1. /\ IsReader(u)
        /\ u.hashes => Opens(line) \/ (s.hashes /\ line.kind # "section")
        /\ \/ u.files = s.files
           \/ /\ s.hashes /\ line.kind = "file"
              /\ u.files = Insert(s.files, line.path, line.hash)
    <3>1. IsReader(s) /\ u = ReadLine(s, line)
      BY <1>1, <1>3
    <3> HIDE DEF s, line, u
    <3> QED BY <3>1, LineIsRead
  <2>2. k + 1 \in 1 .. Len(lines) /\ k \in Nat
    BY <1>1
  <2>3. /\ Opens(line) => k + 1 = o
        /\ k = o + m => line.kind = "section"
        /\ \A j \in 1 .. m : k + 1 = o + j => line = Hashes(e)[j]
    BY <2>2 DEF Places
  <2> HIDE DEF s, line, u
  <2>4. Good(s, k)
    BY <1>3 DEF s
  <2>5. ASSUME u.hashes PROVE o <= k + 1 /\ k + 1 <= o + m
    <3>1. CASE Opens(line)
      BY <1>1, <2>3, <3>1
    <3>2. CASE s.hashes /\ line.kind # "section"
      <4>1. o <= k /\ k <= o + m /\ k # o + m
        BY <2>3, <2>4, <3>2
      <4> HIDE DEF m
      <4> QED BY <1>1, <2>2, <4>1
    <3> QED BY <2>1, <2>5, <3>1, <3>2
  <2>6. CASE u.files = s.files
    BY <2>1, <2>4, <2>5, <2>6 DEF u
  <2>7. CASE s.hashes /\ line.kind = "file" /\ u.files = Insert(s.files, line.path, line.hash)
    <3>1. k # o + m
      BY <2>3, <2>7
    <3>2. o <= k /\ k <= o + m
      BY <2>4, <2>7
    <3>3. k + 1 - o \in 1 .. m /\ k + 1 = o + (k + 1 - o)
      <4> HIDE DEF m
      <4> QED BY <1>1, <2>2, <3>1, <3>2
    <3>4. PICK j \in 1 .. m : line = Hashes(e)[j]
      BY <2>3, <3>3
    <3>5. j \in DOMAIN e.components
      BY <3>4
    <3>6. line.hash = Hash(line.path)
      BY <3>4, <3>5 DEF Hashes
    <3>7. Tells(u)
      <4> HIDE DEF Hash
      <4>1. ASSUME NEW p \in DOMAIN u.files PROVE u.files[p] = Hash(p)
        <5>1. CASE p \in DOMAIN s.files
          <6>1. s.files[p] = Hash(p)
            BY <2>4, <5>1
          <6>2. u.files[p] = IF p = line.path THEN line.hash ELSE s.files[p]
            BY <2>7, <4>1, <5>1 DEF Insert
          <6> QED BY <3>6, <6>1, <6>2
        <5>2. CASE p \notin DOMAIN s.files
          <6>1. p = line.path /\ u.files[p] = line.hash
            BY <2>7, <4>1, <5>2 DEF Insert
          <6> QED BY <3>6, <6>1
        <5> QED BY <5>1, <5>2
      <4> QED BY <4>1
    <3> QED BY <2>1, <2>5, <3>7 DEF u
  <2> QED BY <2>1, <2>6, <2>7
<1>4. 0 .. Len(lines) \subseteq G
  <2>1. 0 \in G
    BY <1>1, <1>2
  <2>2. \A k \in 0 .. Len(lines) - 1 : k \in G => k + 1 \in G
    <3> SUFFICES ASSUME NEW k \in 0 .. Len(lines) - 1, Good(f[k], k)
                 PROVE  k + 1 \in 0 .. Len(lines) /\ Good(f[k + 1], k + 1)
      OBVIOUS
    <3> HIDE DEF Good
    <3> QED BY <1>1, <1>3
  <2> HIDE DEF G
  <2> QED BY <1>1, <2>1, <2>2, Induction
<1>5. Tells(f[Len(lines)])
  BY <1>1, <1>4
<1> QED BY <1>1, <1>5 DEF PackagesSha256

\* Lines that open no section SHA256 may stand before or after one that does.
LEMMA OpensOnce ==
    ASSUME NEW L, NEW a \in Seq(L), NEW b \in Seq(L), NEW o \in Nat,
           \A k \in DOMAIN a : Opens(a[k]) => k = o,
           \A k \in DOMAIN b : Opens(b[k]) => Len(a) + k = o
    PROVE  /\ a \o b \in Seq(L) /\ Len(a \o b) = Len(a) + Len(b)
           /\ \A k \in 1 .. Len(a) + Len(b) : Opens((a \o b)[k]) => k = o
           /\ \A k \in 1 .. Len(a) : (a \o b)[k] = a[k]
           /\ \A k \in 1 .. Len(b) : (a \o b)[Len(a) + k] = b[k]
<1>1. /\ a \o b \in Seq(L) /\ Len(a \o b) = Len(a) + Len(b)
      /\ Len(a) \in Nat /\ Len(b) \in Nat
      /\ DOMAIN a = 1 .. Len(a) /\ DOMAIN b = 1 .. Len(b)
  BY ConcatProperties
<1>2. \A k \in 1 .. Len(a) + Len(b) :
         (a \o b)[k] = IF k <= Len(a) THEN a[k] ELSE b[k - Len(a)]
  BY ConcatProperties
<1>3. ASSUME NEW k \in 1 .. Len(a) + Len(b), Opens((a \o b)[k]) PROVE k = o
  <2>1. CASE k <= Len(a)
    BY <1>1, <1>2, <1>3, <2>1
  <2>2. CASE ~(k <= Len(a))
    <3>1. k - Len(a) \in DOMAIN b /\ Len(a) + (k - Len(a)) = k
      BY <1>1, <2>2
    <3>2. Opens(b[k - Len(a)])
      BY <1>2, <1>3, <2>2
    <3> QED BY <3>1, <3>2
  <2> QED BY <2>1, <2>2
<1>4. \A k \in 1 .. Len(b) : (a \o b)[Len(a) + k] = b[k]
  <2> SUFFICES ASSUME NEW k \in 1 .. Len(b) PROVE (a \o b)[Len(a) + k] = b[k]
    OBVIOUS
  <2>1. Len(a) + k \in 1 .. Len(a) + Len(b) /\ ~(Len(a) + k <= Len(a)) /\ Len(a) + k - Len(a) = k
    BY <1>1
  <2> QED BY <1>2, <2>1
<1> QED BY <1>1, <1>2, <1>3, <1>4

LEMMA StanzaPlaces ==
    ASSUME NEW L, NEW opens \in L, NEW closes \in L, NEW m \in Nat,
           NEW h \in [1 .. m -> L], NEW g \in [1 .. m -> L],
           Opens(opens), ~Opens(closes), \A j \in 1 .. m : ~Opens(h[j]) /\ ~Opens(g[j])
    PROVE  LET s == <<opens>> \o h \o <<closes>> \o g IN
           /\ s \in Seq(L) /\ m + 2 <= Len(s)
           /\ \A k \in 1 .. Len(s) : Opens(s[k]) => k = 1
           /\ \A j \in 1 .. m : s[1 + j] = h[j]
           /\ s[m + 2] = closes
<1> DEFINE x == <<opens>>
           y == <<closes>>
<1>1. /\ x \in Seq(L) /\ Len(x) = 1 /\ x[1] = opens /\ DOMAIN x = {1}
      /\ y \in Seq(L) /\ Len(y) = 1 /\ y[1] = closes /\ DOMAIN y = {1}
  OBVIOUS
<1>2. /\ h \in Seq(L) /\ Len(h) = m /\ DOMAIN h = 1 .. m
      /\ g \in Seq(L) /\ Len(g) = m /\ DOMAIN g = 1 .. m
  OBVIOUS
<1> HIDE DEF x, y
<1> DEFINE a == x \o h
           b == a \o y
           s == b \o g
<1>3. /\ a \in Seq(L) /\ Len(a) = 1 + m
      /\ \A k \in 1 .. 1 + m : Opens(a[k]) => k = 1
      /\ \A k \in 1 .. m : a[1 + k] = h[k]
  <2>1. /\ \A k \in DOMAIN x : Opens(x[k]) => k = 1
        /\ \A k \in DOMAIN h : Opens(h[k]) => Len(x) + k = 1
    BY <1>1, <1>2
  <2>2. /\ a \in Seq(L) /\ Len(a) = Len(x) + Len(h)
        /\ \A k \in 1 .. Len(x) + Len(h) : Opens(a[k]) => k = 1
        /\ \A k \in 1 .. Len(h) : a[Len(x) + k] = h[k]
    <3>1. x \in Seq(L) /\ h \in Seq(L) /\ 1 \in Nat
      BY <1>1, <1>2
    <3> QED BY <2>1, <3>1, OpensOnce
  <2> HIDE DEF a
  <2> QED BY <1>1, <1>2, <2>2
<1>4. DOMAIN a = 1 .. 1 + m
  BY <1>3
<1> HIDE DEF a
<1>5. /\ b \in Seq(L) /\ Len(b) = m + 2
      /\ \A k \in 1 .. m + 2 : Opens(b[k]) => k = 1
      /\ \A k \in 1 .. 1 + m : b[k] = a[k]
      /\ b[m + 2] = closes
  <2>1. /\ \A k \in DOMAIN y : Opens(y[k]) => Len(a) + k = 1
        /\ \A k \in DOMAIN a : Opens(a[k]) => k = 1
        /\ a \in Seq(L) /\ y \in Seq(L) /\ 1 \in Nat
    BY <1>1, <1>3, <1>4
  <2>2. /\ b \in Seq(L) /\ Len(b) = Len(a) + Len(y)
        /\ \A k \in 1 .. Len(a) + Len(y) : Opens(b[k]) => k = 1
        /\ \A k \in 1 .. Len(a) : b[k] = a[k]
        /\ \A k \in 1 .. Len(y) : b[Len(a) + k] = y[k]
    BY <2>1, OpensOnce
  <2> HIDE DEF b
  <2> QED BY <1>1, <1>3, <2>2
<1>6. DOMAIN b = 1 .. m + 2
  BY <1>5
<1> HIDE DEF b
<1>7. /\ s \in Seq(L) /\ Len(s) = Len(b) + Len(g)
      /\ \A k \in 1 .. Len(b) + Len(g) : Opens(s[k]) => k = 1
      /\ \A k \in 1 .. Len(b) : s[k] = b[k]
  <2>1. /\ \A k \in DOMAIN g : Opens(g[k]) => Len(b) + k = 1
        /\ \A k \in DOMAIN b : Opens(b[k]) => k = 1
        /\ b \in Seq(L) /\ g \in Seq(L) /\ 1 \in Nat
    BY <1>2, <1>5, <1>6
  <2> QED BY <2>1, OpensOnce
<1>8. s = <<opens>> \o h \o <<closes>> \o g
  BY DEF a, b, x, y
<1> HIDE DEF s
<1>9. \A j \in 1 .. m : s[1 + j] = h[j]
  <2> SUFFICES ASSUME NEW j \in 1 .. m PROVE s[1 + j] = h[j]
    OBVIOUS
  <2>1. 1 + j \in 1 .. 1 + m /\ 1 + j \in 1 .. m + 2
    OBVIOUS
  <2> QED BY <1>3, <1>5, <1>7, <2>1
<1>10. s[m + 2] = closes /\ m + 2 <= Len(s)
  BY <1>2, <1>5, <1>7
<1> QED BY <1>7, <1>8, <1>9, <1>10

LEMMA ReleaseHasPlaces ==
    ASSUME NEW e, e.components \in Seq(STRING)
    PROVE  \E o \in Nat : Places(ReleaseLines(e), e, o)
<1> DEFINE m == Len(e.components)
           field == [kind |-> "other"]
           blank == [kind |-> "blank"]
           opens == [kind |-> "section", name |-> "SHA256"]
           closes == [kind |-> "section", name |-> "SHA512"]
           h == Hashes(e)
           g == OtherHashes(e)
           L == {field, blank, opens, closes} \cup {h[j] : j \in 1 .. m} \cup {g[j] : j \in 1 .. m}
           s == <<opens>> \o h \o <<closes>> \o g
<1>1. m \in Nat /\ DOMAIN e.components = 1 .. m
  OBVIOUS
<1>2. DOMAIN h = 1 .. m /\ DOMAIN g = 1 .. m
  BY <1>1 DEF Hashes, OtherHashes
<1>3. \A j \in 1 .. m : h[j].kind = "file" /\ g[j].kind = "file"
  BY <1>1 DEF Hashes, OtherHashes
<1>4. /\ h = [j \in 1 .. m |-> h[j]] /\ g = [j \in 1 .. m |-> g[j]]
  BY <1>1 DEF Hashes, OtherHashes
<1> HIDE DEF h, g
<1>5. h \in [1 .. m -> L] /\ g \in [1 .. m -> L]
  <2> HIDE DEF m
  <2> QED BY <1>2, <1>4
<1>6. /\ Opens(opens) /\ ~Opens(field) /\ ~Opens(blank) /\ ~Opens(closes)
      /\ closes.kind = "section" /\ \A j \in 1 .. m : ~Opens(h[j]) /\ ~Opens(g[j])
  BY <1>3 DEF Opens
<1>7. field \in L /\ blank \in L /\ opens \in L /\ closes \in L
  OBVIOUS
<1> HIDE DEF field, blank, opens, closes, L, m
<1>8. /\ s \in Seq(L) /\ m + 2 <= Len(s)
      /\ \A k \in 1 .. Len(s) : Opens(s[k]) => k = 1
      /\ \A j \in 1 .. m : s[1 + j] = h[j]
      /\ s[m + 2] = closes
  BY <1>1, <1>5, <1>6, <1>7, StanzaPlaces
<1>9. Len(s) \in Nat /\ DOMAIN s = 1 .. Len(s)
  BY <1>8
<1>10. ReleaseLines(e) = IF e.uri \in Clearsigned
                         THEN <<field, blank, field>> \o s \o <<blank, field>>
                         ELSE <<field>> \o s
  BY DEF ReleaseLines, field, blank, opens, closes, h, g
<1> HIDE DEF s
\* After some lines that open nothing the stanza keeps its places.
<1>11. ASSUME NEW front \in Seq(L), \A k \in DOMAIN front : ~Opens(front[k])
       PROVE  /\ front \o s \in Seq(L)
              /\ Places(front \o s, e, Len(front) + 1)
  <2> DEFINE t == front \o s
             o == Len(front) + 1
  <2>1. Len(front) \in Nat /\ o \in Nat
    OBVIOUS
  <2>2. \A k \in DOMAIN s : Opens(s[k]) => Len(front) + k = o
    BY <1>8, <1>9, <2>1
  <2>3. /\ t \in Seq(L) /\ Len(t) = Len(front) + Len(s)
        /\ \A k \in 1 .. Len(front) + Len(s) : Opens(t[k]) => k = o
        /\ \A k \in 1 .. Len(s) : t[Len(front) + k] = s[k]
    BY <1>8, <1>11, <2>1, <2>2, OpensOnce
  <2> HIDE DEF t
  <2>4. ASSUME NEW j \in 1 .. m PROVE t[o + j] = h[j]
    <3>1. 1 + j \in 1 .. Len(s) /\ o + j = Len(front) + (1 + j)
      BY <1>1, <1>8, <1>9, <2>1
    <3> QED BY <1>8, <2>3, <3>1
  <2>5. t[o + m + 1].kind = "section" /\ o + m + 1 <= Len(t)
    <3>1. m + 2 \in 1 .. Len(s) /\ o + m + 1 = Len(front) + (m + 2)
      BY <1>1, <1>8, <1>9, <2>1
    <3> QED BY <1>1, <1>6, <1>8, <1>9, <2>1, <2>3, <3>1
  <2>6. Len(t) \in Nat
    BY <1>9, <2>1, <2>3
  <2>7. Places(t, e, o)
    BY <2>1, <2>3, <2>4, <2>5, <2>6 DEF Places, m, h
  <2> QED BY <2>3, <2>7 DEF t
<1>12. ASSUME NEW t \in Seq(L), NEW o \in Nat, Places(t, e, o),
              NEW after \in Seq(L), \A k \in DOMAIN after : ~Opens(after[k])
       PROVE  Places(t \o after, e, o)
  <2>1. /\ Len(t) \in Nat /\ Len(after) \in Nat /\ DOMAIN t = 1 .. Len(t)
        /\ \A k \in 1 .. Len(t) : Opens(t[k]) => k = o
        /\ \A j \in 1 .. m : t[o + j] = h[j]
        /\ o + m + 1 <= Len(t) /\ t[o + m + 1].kind = "section"
    BY <1>12 DEF Places, m, h
  <2> DEFINE u == t \o after
  <2>2. /\ u \in Seq(L) /\ Len(u) = Len(t) + Len(after)
        /\ \A k \in 1 .. Len(t) + Len(after) : Opens(u[k]) => k = o
        /\ \A k \in 1 .. Len(t) : u[k] = t[k]
    BY <1>12, <2>1, OpensOnce
  <2> HIDE DEF u
  <2>3. \A j \in 1 .. m : o + j \in 1 .. Len(t)
    BY <1>1, <2>1
  <2>4. o + m + 1 \in 1 .. Len(t) /\ o + m + 1 <= Len(u) /\ Len(u) \in Nat
    BY <1>1, <2>1, <2>2
  <2>5. Places(u, e, o)
    BY <2>1, <2>2, <2>3, <2>4 DEF Places, m, h
  <2> QED BY <2>5 DEF u
<1>13. CASE e.uri \in Clearsigned
  <2> DEFINE front == <<field, blank, field>>
             after == <<blank, field>>
  <2>1. /\ front \in Seq(L) /\ \A k \in DOMAIN front : ~Opens(front[k])
        /\ after \in Seq(L) /\ \A k \in DOMAIN after : ~Opens(after[k])
        /\ Len(front) = 3
    BY <1>6, <1>7
  <2> HIDE DEF front, after
  <2>2. front \o s \in Seq(L) /\ Places(front \o s, e, Len(front) + 1)
    BY <1>11, <2>1
  <2>3. Len(front) + 1 = 4
    BY <2>1
  <2>4. Places(front \o s \o after, e, 4)
    BY <1>12, <2>1, <2>2, <2>3
  <2> QED BY <1>10, <1>13, <2>4 DEF front, after
<1>14. CASE e.uri \notin Clearsigned
  <2> DEFINE front == <<field>>
  <2>1. front \in Seq(L) /\ Len(front) = 1 /\ \A k \in DOMAIN front : ~Opens(front[k])
    BY <1>6, <1>7
  <2> HIDE DEF front
  <2>2. Places(front \o s, e, Len(front) + 1)
    BY <1>11, <2>1
  <2>3. Len(front) + 1 = 2
    BY <2>1
  <2>4. Places(front \o s, e, 2)
    BY <2>2, <2>3
  <2> QED BY <1>10, <1>14, <2>4 DEF front
<1> QED BY <1>13, <1>14

LEMMA FetchedTells ==
    ASSUME NEW k \in DOMAIN Entries, NEW c,
           NEW t \in PackagesSha256(ParseRelease(ReleaseLines(Entries[k])), c)
    PROVE  t = Content(<<Entries[k].uri, Entries[k].suite, c>>,
                       rev[<<Entries[k].uri, Entries[k].suite, c>>])
<1>1. Entries[k].components \in Seq(STRING)
  BY EntryFacts
<1>2. PICK o \in Nat : Places(ReleaseLines(Entries[k]), Entries[k], o)
  BY <1>1, ReleaseHasPlaces
<1> QED BY <1>1, <1>2, ReleaseYields

-----------------------------------------------------------------------------
(* The steps of an update.                                                  *)

LEMMA ItemFacts ==
    ASSUME NEW i \in DOMAIN Work
    PROVE  /\ Origin(Work[i]) \in Origins /\ Slug(Work[i]) \in Slugs
           /\ i \in Nat /\ i >= 1
           /\ Work[i].entry \in Nat /\ 1 <= Work[i].entry /\ Work[i].entry <= Len(Entries)
           /\ Work[i].entry \in DOMAIN Entries
<1>1. DOMAIN Entries = 1 .. Len(Entries) /\ Len(Entries) \in Nat
  BY UpdateAssumption
<1> QED BY <1>1, WorkFacts DEF Origins, Slugs

LEMMA SameListed == ASSUME UNCHANGED releases PROVE \A i : Listed(i)' = Listed(i)
BY DEF Listed

\* An item stays up to date while its file stays as it is.
LEMMA FreshStays ==
    ASSUME NEW i \in DOMAIN Work, Fresh(i), UpdateTypes, UNCHANGED <<started, releases>>,
           rev' \in [Origins -> Nat], \A o \in Origins : rev[o] <= rev'[o],
           Slug(Work[i]) \in DOMAIN cache', cache'[Slug(Work[i])] = cache[Slug(Work[i])]
    PROVE  Fresh(i)'
<1> DEFINE o == Origin(Work[i])
<1>1. o \in Origins
  BY ItemFacts
<1>2. PICK r \in started[o] .. rev[o] :
        /\ cache[Slug(Work[i])] = Content(o, r)
        /\ \A t \in Listed(i) : r >= t.rev
  BY DEF Fresh, Listed
<1> HIDE DEF o
<1>3. r \in started[o] .. rev'[o]
  BY <1>1, <1>2 DEF UpdateTypes
<1> QED BY <1>2, <1>3 DEF Fresh, Listed, o

LEMMA NothingFresher ==
    ASSUME UpdateTypes, ReleasesTell, NEW i \in DOMAIN Work, IsFetched(i), NEW t \in Listed(i)
    PROVE  /\ t = Content(Origin(Work[i]), t.rev)
           /\ t.rev \in started[Origin(Work[i])] .. rev[Origin(Work[i])]
BY DEF ReleasesTell

\* What an item may be brought up to date with: what its Release lists, or what
\* its archive publishes now.
IsNewEnough(b) ==
    \E r \in started[Origin(Item)] .. rev[Origin(Item)] :
        /\ b = Content(Origin(Item), r)
        /\ \A i \in 1 .. n : Origin(Work[i]) = Origin(Item) =>
               \A t \in Listed(i) : r >= t.rev

LEMMA NewEnough ==
    ASSUME FreshInv, pc \in AtItems
    PROVE  /\ \A t \in Target : IsNewEnough(t)
           /\ IsNewEnough(Content(Origin(Item), rev[Origin(Item)]))
<1> DEFINE o == Origin(Item)
<1>1. /\ n \in DOMAIN Work /\ Item = Work[n] /\ o \in Origins
      /\ \A i \in 1 .. n : i \in DOMAIN Work /\ IsFetched(i)
      /\ Target = Listed(n)
  <2>1. n \in DOMAIN Work /\ Len(releases) = Len(Entries)
    BY DEF FreshInv, ItemIsThere
  <2>2. \A i \in 1 .. n : i \in DOMAIN Work
    BY <2>1, WorkFacts
  <2>3. \A i \in DOMAIN Work : IsFetched(i)
    BY <2>1, ItemFacts DEF IsFetched
  <2> QED BY <2>1, <2>2, <2>3, ItemFacts DEF Item, Target, Listed
<1>2. started[o] \in Nat /\ rev[o] \in Nat /\ started[o] <= rev[o] /\ n \in Nat
  BY <1>1 DEF FreshInv, UpdateTypes
<1>3. ASSUME NEW i \in 1 .. n, Origin(Work[i]) = o, NEW t \in Listed(i)
      PROVE  t.rev \in started[o] .. rev[o] /\ \A u \in Target : t.rev <= u.rev
  <2>1. t.rev \in started[o] .. rev[o]
    BY <1>1, <1>3, NothingFresher DEF FreshInv
  <2>2. i <= n /\ IsFetched(n) /\ i \in DOMAIN Work /\ Origin(Work[i]) = Origin(Work[n])
    BY <1>1, <1>2, <1>3
  <2> QED BY <1>1, <2>1, <2>2 DEF FreshInv, ReleasesAscend
<1>4. ASSUME NEW t \in Target PROVE IsNewEnough(t)
  <2>1. t = Content(o, t.rev) /\ t.rev \in started[o] .. rev[o]
    <3>1. IsFetched(n)
      BY <1>1, <1>2 DEF FreshInv, UpdateTypes
    <3> QED BY <1>1, <1>4, <3>1, NothingFresher DEF FreshInv
  <2>2. \A i \in 1 .. n : Origin(Work[i]) = o => \A u \in Listed(i) : t.rev >= u.rev
    BY <1>2, <1>3, <2>1
  <2> QED BY <2>1, <2>2 DEF IsNewEnough
<1>5. IsNewEnough(Content(o, rev[o]))
  <2>1. rev[o] \in started[o] .. rev[o]
    BY <1>2
  <2>2. \A i \in 1 .. n : Origin(Work[i]) = o => \A u \in Listed(i) : rev[o] >= u.rev
    BY <1>2, <1>3
  <2> QED BY <2>1, <2>2 DEF IsNewEnough
<1> QED BY <1>4, <1>5

\* A step that leaves the lists and what the items are compared with alone.
LEMMA ListsStay ==
    ASSUME FreshInv, UNCHANGED <<archive, cache, releases, n, started, before>>,
           pc' \in {"idle", "item", "patch", "full", "write", "failed"},
           pc' = "item" => pc = "item", pc' # "idle" => pc \in {"item", "patch", "full"},
           pc' = "patch" => Target # {},
           pc' = "write" => IsNewEnough(bytes')
    PROVE  FreshInv'
<1>1. UpdateTypes'
  BY DEF FreshInv, UpdateTypes, archive
<1>2. ReleasesTell' /\ ReleasesAscend'
  BY DEF FreshInv, ReleasesTell, ReleasesAscend, IsFetched, Listed, archive
<1>3. ItemIsThere'
  BY DEF FreshInv, ItemIsThere, AtItems, Target, Item
<1>4. BytesAreFresh'
  BY DEF BytesAreFresh, IsNewEnough, Listed, Item, archive
<1>5. FreshBefore'
  <2>1. \A i \in 1 .. n - 1 : i \in DOMAIN Work /\ Fresh(i) => Fresh(i)'
    BY DEF Fresh, archive
  <2>2. CASE pc' = "idle"
    BY <2>2 DEF FreshBefore, AtItems
  <2>3. CASE pc' # "idle"
    <3>1. pc \in AtItems \ {"writing"} /\ n \in DOMAIN Work /\ Len(releases) = Len(Entries)
      BY <2>3 DEF FreshInv, ItemIsThere, AtItems
    <3>2. \A i \in 1 .. n - 1 : i \in DOMAIN Work
      BY <3>1, WorkFacts
    <3>3. \A i \in 1 .. n - 1 : Fresh(i)'
      BY <2>1, <3>1, <3>2 DEF FreshInv, FreshBefore
    <3> QED BY <3>3 DEF FreshBefore
  <2> QED BY <2>2, <2>3
<1>6. LeftAlone' /\ NothingWritten' /\ FileIsThere' /\ DoneIsFresh'
  BY DEF FreshInv, LeftAlone, NothingWritten, FileIsThere, DoneIsFresh
<1> QED BY <1>1, <1>2, <1>3, <1>4, <1>5, <1>6 DEF FreshInv

LEMMA ObtainKeeps == ASSUME FreshInv, Obtain PROVE FreshInv'
<1>1. UNCHANGED <<archive, cache, releases, n, started, before>>
  BY DEF Obtain
<1>2. CASE ChooseFull
  BY <1>1, <1>2, ListsStay DEF ChooseFull
<1>3. CASE ChooseCached
  <2>1. pc = "item" /\ pc' = "write" /\ bytes' \in Target
    BY <1>3 DEF ChooseCached
  <2>2. IsNewEnough(bytes')
    BY <2>1, NewEnough DEF AtItems
  <2> QED BY <1>1, <2>1, <2>2, ListsStay
<1>4. CASE FetchDiffIndex
  <2>1. pc = "item" /\ pc' \in {"full", "patch"} /\ Target # {}
    BY <1>4 DEF FetchDiffIndex
  <2> QED BY <1>1, <2>1, ListsStay
<1>5. CASE FetchPatch
  <2>1. pc = "patch" /\ pc' \in {"patch", "write", "full"} /\ Target # {}
    BY <1>5 DEF FetchPatch, FreshInv, ItemIsThere
  <2>2. pc' = "write" => bytes' \in Target
    BY <1>5, <2>1 DEF FetchPatch, Verified
  <2>3. pc' = "write" => IsNewEnough(bytes')
    BY <2>1, <2>2, NewEnough DEF AtItems
  <2> QED BY <1>1, <2>1, <2>3, ListsStay
<1>6. CASE FetchFull
  <2>1. pc = "full" /\ pc' \in {"write", "failed"}
    BY <1>6 DEF FetchFull
  <2>2. pc' = "write" => bytes' = Content(Origin(Item), rev[Origin(Item)])
    BY <1>6 DEF FetchFull
  <2>3. pc' = "write" => IsNewEnough(bytes')
    BY <2>1, <2>2, NewEnough DEF AtItems
  <2> QED BY <1>1, <2>1, <2>3, ListsStay
<1> QED BY <1>2, <1>3, <1>4, <1>5, <1>6 DEF Obtain

LEMMA StopKeeps == ASSUME FreshInv, Stop PROVE FreshInv'
BY ListsStay DEF Stop, local

LEMMA BeginKeeps == ASSUME FreshInv, Begin PROVE FreshInv'
<1>1. /\ started' = rev /\ before' = cache /\ n' = 1 /\ releases' = <<>>
      /\ pc' \in {"release", "failed"} /\ UNCHANGED <<rev, cache>>
  BY DEF Begin, archive
<1>2. UpdateTypes'
  <2>1. \A o \in Origins : rev[o] \in Nat /\ rev[o] <= rev[o]
    BY DEF FreshInv, UpdateTypes
  <2>2. releases' \in Seq({releases'[k] : k \in DOMAIN releases'})
    BY <1>1, EmptySeq
  <2> QED BY <1>1, <2>1, <2>2 DEF FreshInv, UpdateTypes
<1>3. Len(releases') = 0 /\ \A i \in DOMAIN Work : ~IsFetched(i)'
  BY <1>1, ItemFacts DEF IsFetched
<1>4. ReleasesTell' /\ ReleasesAscend'
  BY <1>3 DEF ReleasesTell, ReleasesAscend
<1>5. ItemIsThere' /\ BytesAreFresh' /\ FreshBefore' /\ DoneIsFresh' /\ FileIsThere'
  BY <1>1, <1>3, UpdateAssumption
     DEF ItemIsThere, BytesAreFresh, FreshBefore, DoneIsFresh, AtItems, FileIsThere
<1>6. LeftAlone' /\ NothingWritten'
  BY <1>1 DEF LeftAlone, NothingWritten
<1> QED BY <1>2, <1>4, <1>5, <1>6 DEF FreshInv

LEMMA PublishKeeps == ASSUME FreshInv, NEW o \in Origins, Publish(o) PROVE FreshInv'
<1>1. /\ rev' = [rev EXCEPT ![o] = @ + 1]
      /\ UNCHANGED <<cache, pc, releases, n, bytes, started, before>>
  BY DEF Publish, local
<1>2. /\ rev' \in [Origins -> Nat] /\ \A p \in Origins : rev[p] <= rev'[p]
      /\ rev \in [Origins -> Nat] /\ started \in [Origins -> Nat]
  BY <1>1 DEF FreshInv, UpdateTypes
<1>3. \A p \in Origins : started[p] <= rev[p] /\ started[p] <= rev'[p]
                          /\ started[p] .. rev[p] \subseteq started[p] .. rev'[p]
  BY <1>2 DEF FreshInv, UpdateTypes
<1>4. UpdateTypes'
  BY <1>1, <1>2, <1>3 DEF FreshInv, UpdateTypes
<1>5. ReleasesTell' /\ ReleasesAscend'
  BY <1>1, <1>3, ItemFacts DEF FreshInv, ReleasesTell, ReleasesAscend, IsFetched, Listed
<1>6. ItemIsThere' /\ FileIsThere' /\ LeftAlone' /\ NothingWritten'
  BY <1>1 DEF FreshInv, ItemIsThere, FileIsThere, LeftAlone, NothingWritten, Target, Item, File
<1>7. BytesAreFresh'
  <2> SUFFICES ASSUME pc \in {"write", "writing"} PROVE IsNewEnough(bytes)'
    BY <1>1 DEF BytesAreFresh, IsNewEnough
  <2>1. IsNewEnough(bytes) /\ n \in DOMAIN Work
    BY DEF FreshInv, BytesAreFresh, IsNewEnough, ItemIsThere, AtItems
  <2>2. Origin(Item) \in Origins
    BY <2>1, ItemFacts DEF Item
  <2> QED BY <1>1, <1>3, <2>1, <2>2 DEF IsNewEnough, Listed, Item
<1>8. ASSUME NEW i \in DOMAIN Work, Fresh(i) PROVE Fresh(i)'
  <2>1. Slug(Work[i]) \in DOMAIN cache'
    BY <1>1, <1>8 DEF Fresh
  <2> QED BY <1>1, <1>2, <1>8, <2>1, FreshStays DEF FreshInv
<1>9. FreshBefore'
  <2> SUFFICES ASSUME pc \in AtItems \cup {"failed"}, Len(releases) = Len(Entries),
                      NEW i \in 1 .. n - 1,
                      Slug(Work[i]) # File \/ pc \in AtItems \ {"writing"}
               PROVE  Fresh(i)'
    BY <1>1 DEF FreshBefore, File, Item
  <2>1. Fresh(i)
    BY DEF FreshInv, FreshBefore
  <2>2. i \in DOMAIN Work
    BY WorkFacts DEF FreshInv, ItemIsThere
  <2> QED BY <1>8, <2>1, <2>2
<1>10. DoneIsFresh'
  BY <1>1, <1>8 DEF FreshInv, DoneIsFresh
<1> QED BY <1>4, <1>5, <1>6, <1>7, <1>9, <1>10 DEF FreshInv

LEMMA ReleasesGrow ==
    ASSUME NEW s, s \in Seq({s[k] : k \in DOMAIN s}), NEW x
    PROVE  /\ Append(s, x) \in Seq({Append(s, x)[k] : k \in DOMAIN Append(s, x)})
           /\ Len(Append(s, x)) = Len(s) + 1 /\ Len(s) \in Nat
           /\ \A k \in 1 .. Len(s) : Append(s, x)[k] = s[k]
           /\ Append(s, x)[Len(s) + 1] = x
<1> DEFINE S == {s[k] : k \in DOMAIN s} \cup {x}
           t == Append(s, x)
<1>1. s \in Seq(S) /\ x \in S /\ Len(s) \in Nat /\ DOMAIN s = 1 .. Len(s)
  <2> DEFINE R == {s[k] : k \in DOMAIN s}
  <2>1. s \in Seq(R) /\ R \subseteq S
    OBVIOUS
  <2> HIDE DEF R, S
  <2>2. s \in Seq(S) /\ Len(s) \in Nat /\ DOMAIN s = 1 .. Len(s)
    BY <2>1
  <2> QED BY <2>2 DEF S
<1> HIDE DEF S
<1>2. /\ t \in Seq(S) /\ Len(t) = Len(s) + 1 /\ DOMAIN t = 1 .. Len(s) + 1
      /\ \A k \in 1 .. Len(s) : t[k] = s[k]
      /\ t[Len(s) + 1] = x
  BY <1>1, AppendProperties
<1> HIDE DEF t
<1>3. t \in Seq({t[k] : k \in DOMAIN t})
  <2> DEFINE R == {t[k] : k \in DOMAIN t}
  <2>1. \A k \in 1 .. Len(s) + 1 : t[k] \in R
    BY <1>2
  <2>2. Len(s) + 1 \in Nat /\ t = [k \in 1 .. Len(s) + 1 |-> t[k]]
    BY <1>1, <1>2
  <2> HIDE DEF R
  <2>3. t \in [1 .. Len(s) + 1 -> R]
    BY <2>1, <2>2
  <2>4. t \in Seq(R)
    BY <2>2, <2>3, FunctionIsSeq
  <2> QED BY <2>4 DEF R
<1> QED BY <1>1, <1>2, <1>3 DEF t

LEMMA ReleaseKeeps == ASSUME FreshInv, FetchRelease PROVE FreshInv'
<1>1. /\ pc = "release" /\ n = 1 /\ cache = before
      /\ UNCHANGED <<rev, cache, n, started, before>>
  BY DEF FetchRelease, archive, FreshInv, NothingWritten
<1>2. CASE /\ Len(releases) = Len(Entries) /\ UNCHANGED releases
           /\ pc' = IF Work = <<>> THEN "done" ELSE "item"
  <2>1. pc' = "item" => n \in DOMAIN Work
    BY <1>1, <1>2, WorkFacts
  <2>2. pc' = "done" => DOMAIN Work = {}
    BY <1>2
  <2>3. UpdateTypes' /\ ReleasesTell' /\ ReleasesAscend'
    BY <1>1, <1>2 DEF FreshInv, UpdateTypes, ReleasesTell, ReleasesAscend, IsFetched, Listed
  <2>4. ItemIsThere' /\ BytesAreFresh' /\ FileIsThere' /\ FreshBefore' /\ DoneIsFresh'
    BY <1>1, <1>2, <2>1, <2>2
       DEF FreshInv, ItemIsThere, BytesAreFresh, FileIsThere, FreshBefore, DoneIsFresh, AtItems
  <2>5. LeftAlone' /\ NothingWritten'
    BY <1>1, <1>2 DEF LeftAlone, NothingWritten
  <2> QED BY <2>3, <2>4, <2>5 DEF FreshInv
<1>3. ASSUME Len(releases) # Len(Entries), pc' = pc, NEW x, releases' = Append(releases, x),
             x = <<>> \/ x = ParseRelease(ReleaseLines(Entries[Len(releases) + 1]))
      PROVE  FreshInv'
  <2> DEFINE k == Len(releases) + 1
  <2>1. /\ releases' \in Seq({releases'[j] : j \in DOMAIN releases'})
        /\ Len(releases') = k /\ Len(releases) \in Nat /\ k \in Nat
        /\ \A j \in 1 .. Len(releases) : releases'[j] = releases[j]
        /\ releases'[k] = x
    <3>1. releases \in Seq({releases[j] : j \in DOMAIN releases})
      BY DEF FreshInv, UpdateTypes
    <3>2. LET t == Append(releases, x) IN
          /\ t \in Seq({t[j] : j \in DOMAIN t})
          /\ Len(t) = Len(releases) + 1 /\ Len(releases) \in Nat
          /\ \A j \in 1 .. Len(releases) : t[j] = releases[j]
          /\ t[Len(releases) + 1] = x
      BY <3>1, ReleasesGrow, Zenon
    <3> QED BY <1>3, <3>2
  <2>2. Len(Entries) \in Nat /\ DOMAIN Entries = 1 .. Len(Entries)
    BY UpdateAssumption
  <2>3. k <= Len(Entries) /\ k \in DOMAIN Entries
    BY <1>3, <2>1, <2>2 DEF FreshInv, ItemIsThere
  <2>4. UpdateTypes'
    BY <1>1, <1>3, <2>1 DEF FreshInv, UpdateTypes
  <2>5. ASSUME NEW i \in DOMAIN Work, IsFetched(i)'
        PROVE  \/ IsFetched(i) /\ Listed(i)' = Listed(i)
               \/ Work[i].entry = k /\ \A t \in Listed(i)' :
                    t = Content(Origin(Work[i]), rev[Origin(Work[i])])
    <3>1. Work[i].entry \in Nat /\ 1 <= Work[i].entry /\ Work[i].entry <= k
      BY <2>1, <2>5, ItemFacts DEF IsFetched
    <3>2. CASE Work[i].entry # k
      <4>1. Work[i].entry \in 1 .. Len(releases)
        BY <2>1, <3>1, <3>2
      <4>2. releases'[Work[i].entry] = releases[Work[i].entry]
        BY <2>1, <4>1
      <4> QED BY <2>1, <4>1, <4>2 DEF IsFetched, Listed
    <3>3. CASE Work[i].entry = k
      <4>1. Listed(i)' = PackagesSha256(x, Work[i].component)
        BY <2>1, <3>3 DEF Listed
      <4>2. x = <<>> => Listed(i)' = {}
        BY <4>1 DEF PackagesSha256
      <4>3. ASSUME NEW t \in Listed(i)'
            PROVE  t = Content(Origin(Work[i]), rev[Origin(Work[i])])
        <5>1. t \in PackagesSha256(ParseRelease(ReleaseLines(Entries[k])), Work[i].component)
          BY <1>3, <4>1, <4>2, <4>3
        <5> QED BY <2>3, <3>3, <5>1, FetchedTells DEF Origin
      <4> QED BY <3>3, <4>3
    <3> QED BY <3>2, <3>3
  <2> HIDE DEF k
  <2>6. \A i \in DOMAIN Work : /\ started[Origin(Work[i])] \in Nat /\ rev[Origin(Work[i])] \in Nat
                               /\ started[Origin(Work[i])] <= rev[Origin(Work[i])]
    BY ItemFacts DEF FreshInv, UpdateTypes
  <2>7. ReleasesTell'
    <3> SUFFICES ASSUME NEW i \in DOMAIN Work, IsFetched(i)', NEW t \in Listed(i)'
                 PROVE  /\ t = Content(Origin(Work[i]), t.rev)
                        /\ t.rev \in started[Origin(Work[i])] .. rev[Origin(Work[i])]
      BY <1>1 DEF ReleasesTell
    <3>1. CASE IsFetched(i) /\ Listed(i)' = Listed(i)
      BY <3>1 DEF FreshInv, ReleasesTell
    <3>2. CASE t = Content(Origin(Work[i]), rev[Origin(Work[i])])
      <4>1. t.rev = rev[Origin(Work[i])]
        BY <3>2 DEF Content
      <4> QED BY <2>6, <3>2, <4>1
    <3> QED BY <2>5, <3>1, <3>2
  <2>8. ReleasesAscend'
    <3> SUFFICES ASSUME NEW i \in DOMAIN Work, NEW j \in DOMAIN Work, i <= j, IsFetched(j)',
                        Origin(Work[i]) = Origin(Work[j]),
                        NEW t \in Listed(i)', NEW u \in Listed(j)'
                 PROVE  t.rev <= u.rev
      BY DEF ReleasesAscend
    <3>1. Work[i].entry <= Work[j].entry /\ Work[i].entry \in Nat /\ Work[j].entry \in Nat
      BY WorkFacts, ItemFacts
    <3>2. IsFetched(i)' /\ Work[j].entry <= k
      BY <2>1, <3>1 DEF IsFetched
    <3>3. t.rev \in Nat /\ t.rev <= rev[Origin(Work[i])]
      BY <1>1, <2>6, <2>7, <3>2 DEF ReleasesTell
    <3>4. CASE u = Content(Origin(Work[j]), rev[Origin(Work[j])])
      <4>1. u.rev = rev[Origin(Work[j])]
        BY <3>4 DEF Content
      <4> QED BY <3>3, <4>1
    <3>5. CASE IsFetched(j) /\ Listed(j)' = Listed(j)
      <4>1. Work[i].entry # k
        BY <2>1, <3>1, <3>5 DEF IsFetched, k
      <4>2. Listed(i)' = Listed(i)
        BY <2>5, <3>2, <4>1
      <4> QED BY <3>5, <4>2 DEF FreshInv, ReleasesAscend
    <3> QED BY <2>5, <3>4, <3>5
  <2>9. ItemIsThere' /\ BytesAreFresh' /\ FileIsThere' /\ FreshBefore' /\ DoneIsFresh'
    BY <1>1, <1>3, <2>1, <2>3
       DEF ItemIsThere, BytesAreFresh, FileIsThere, FreshBefore, DoneIsFresh, AtItems
  <2>10. LeftAlone' /\ NothingWritten'
    BY <1>1 DEF LeftAlone, NothingWritten
  <2> QED BY <2>4, <2>7, <2>8, <2>9, <2>10 DEF FreshInv
<1> QED BY <1>2, <1>3 DEF FetchRelease

LEMMA TruncateKeeps == ASSUME FreshInv, Truncate PROVE FreshInv'
<1>1. /\ pc = "write" /\ pc' = "writing" /\ cache' = Insert(cache, File, Torn)
      /\ UNCHANGED <<rev, releases, n, bytes, started, before>>
  BY DEF Truncate, archive, local
<1>2. /\ n \in DOMAIN Work /\ n \in Nat /\ Len(releases) = Len(Entries)
      /\ File = Slug(Work[n]) /\ File' = File
  BY <1>1, ItemFacts DEF FreshInv, ItemIsThere, AtItems, File, Item
<1>3. /\ cache' = [s \in DOMAIN cache' |-> cache'[s]] /\ File \in DOMAIN cache'
      /\ \A s : s # File => /\ s \in DOMAIN cache' <=> s \in DOMAIN cache
                            /\ s \in DOMAIN cache => cache'[s] = cache[s]
  BY <1>1 DEF Insert
<1>4. UpdateTypes' /\ ReleasesTell' /\ ReleasesAscend'
  BY <1>1, <1>3 DEF FreshInv, UpdateTypes, ReleasesTell, ReleasesAscend, IsFetched, Listed
<1>5. ItemIsThere' /\ BytesAreFresh' /\ FileIsThere' /\ DoneIsFresh' /\ NothingWritten'
  BY <1>1, <1>2, <1>3 DEF FreshInv, ItemIsThere, BytesAreFresh, FileIsThere, DoneIsFresh,
                          NothingWritten, AtItems, Listed, Item
<1>6. FreshBefore'
  <2> SUFFICES ASSUME NEW i \in 1 .. n - 1, Slug(Work[i]) # File PROVE Fresh(i)'
    BY <1>1, <1>2 DEF FreshBefore
  <2>1. i \in DOMAIN Work /\ Fresh(i)
    BY <1>1, <1>2, WorkFacts DEF FreshInv, FreshBefore, AtItems
  <2>2. Slug(Work[i]) \in DOMAIN cache'
    BY <1>3, <2>1 DEF Fresh
  <2> QED BY <1>1, <1>3, <2>1, <2>2 DEF Fresh
<1>7. LeftAlone'
  <2> SUFFICES ASSUME NEW s \in Slugs \ {Slug(Work[i]) : i \in 1 .. n}
               PROVE  /\ s \in DOMAIN cache' <=> s \in DOMAIN before
                      /\ s \in DOMAIN cache' => cache'[s] = before[s]
    BY <1>1 DEF LeftAlone
  <2>1. s # File
    BY <1>2
  <2> QED BY <1>3, <2>1 DEF FreshInv, LeftAlone
<1> QED BY <1>4, <1>5, <1>6, <1>7 DEF FreshInv

\* A written file makes its item fresh, and any before it that has the file.
LEMMA WriteKeeps == ASSUME OneIndexPerFile, FreshInv, Write PROVE FreshInv'
<1>1. pc = "writing" /\ UNCHANGED <<rev, releases, bytes, started, before>>
  BY DEF Write, archive
<1>2. /\ n \in DOMAIN Work /\ n \in Nat /\ n >= 1 /\ Len(releases) = Len(Entries)
      /\ File = Slug(Work[n]) /\ Item = Work[n] /\ File \in DOMAIN cache
  BY <1>1, ItemFacts DEF FreshInv, ItemIsThere, AtItems, File, Item, FileIsThere
<1>3. CASE pc' = "failed" /\ UNCHANGED <<cache, n>>
  <2>1. UpdateTypes' /\ ReleasesTell' /\ ReleasesAscend' /\ ItemIsThere'
    BY <1>1, <1>3 DEF FreshInv, UpdateTypes, ReleasesTell, ReleasesAscend, IsFetched, Listed,
                      ItemIsThere, AtItems
  <2>2. BytesAreFresh' /\ FileIsThere' /\ DoneIsFresh' /\ NothingWritten' /\ LeftAlone'
    BY <1>1, <1>3 DEF FreshInv, BytesAreFresh, FileIsThere, DoneIsFresh, NothingWritten, LeftAlone
  <2>3. FreshBefore'
    BY <1>1, <1>3 DEF FreshInv, FreshBefore, AtItems, Fresh, File, Item
  <2> QED BY <2>1, <2>2, <2>3 DEF FreshInv
<1>4. CASE /\ cache' = [cache EXCEPT ![File] = bytes]
           /\ n' = (IF n < Len(Work) THEN n + 1 ELSE n)
           /\ pc' = (IF n < Len(Work) THEN "item" ELSE "done")
  <2>1. /\ DOMAIN cache' = DOMAIN cache /\ cache'[File] = bytes
        /\ cache' = [s \in DOMAIN cache' |-> cache'[s]]
        /\ \A s \in DOMAIN cache : s # File => cache'[s] = cache[s]
    BY <1>2, <1>4 DEF FreshInv, UpdateTypes
  <2>2. /\ n' \in DOMAIN Work /\ n' \in Nat \ {0} /\ n <= n'
        /\ pc' = "item" => n' = n + 1
        /\ pc' = "done" => n = Len(Work)
        /\ pc' \in {"item", "done"}
    BY <1>2, <1>4, WorkFacts
  <2>3. ASSUME NEW i \in 1 .. n PROVE Fresh(i)'
    <3>1. i \in DOMAIN Work
      BY <1>2, WorkFacts
    <3>2. CASE Slug(Work[i]) # File
      <4>1. i # n /\ i \in 1 .. n - 1
        BY <1>2, <3>2
      <4>2. Fresh(i)
        BY <1>1, <1>2, <3>2, <4>1 DEF FreshInv, FreshBefore, AtItems
      <4> QED BY <1>1, <2>1, <3>2, <4>2 DEF Fresh
    <3>3. CASE Slug(Work[i]) = File
      <4>1. Origin(Work[i]) = Origin(Item)
        BY <1>2, <3>1, <3>3 DEF OneIndexPerFile
      <4>2. PICK r \in started[Origin(Item)] .. rev[Origin(Item)] :
              /\ bytes = Content(Origin(Item), r)
              /\ \A j \in 1 .. n : Origin(Work[j]) = Origin(Item) =>
                     \A t \in Listed(j) : r >= t.rev
        BY <1>1 DEF FreshInv, BytesAreFresh
      <4>3. \A t \in Listed(i) : r >= t.rev
        BY <4>1, <4>2
      <4> QED BY <1>1, <1>2, <2>1, <3>3, <4>1, <4>2, <4>3 DEF Fresh, Listed
    <3> QED BY <3>2, <3>3
  <2>4. UpdateTypes' /\ ReleasesTell' /\ ReleasesAscend'
    BY <1>1, <2>1, <2>2 DEF FreshInv, UpdateTypes, ReleasesTell, ReleasesAscend, IsFetched, Listed
  <2>5. ItemIsThere' /\ BytesAreFresh' /\ FileIsThere' /\ NothingWritten'
    BY <1>1, <1>2, <2>2 DEF FreshInv, ItemIsThere, BytesAreFresh, FileIsThere, NothingWritten,
                            AtItems
  <2>6. FreshBefore'
    <3>1. pc' = "item" => n' - 1 = n
      BY <1>2, <2>2
    <3> QED BY <2>2, <2>3, <3>1 DEF FreshBefore, AtItems
  <2>7. DoneIsFresh'
    BY <2>2, <2>3, WorkFacts DEF DoneIsFresh
  <2>8. LeftAlone'
    <3> SUFFICES ASSUME NEW s \in Slugs \ {Slug(Work[i]) : i \in 1 .. n'}
                 PROVE  /\ s \in DOMAIN cache' <=> s \in DOMAIN before
                        /\ s \in DOMAIN cache' => cache'[s] = before[s]
      BY <1>1 DEF LeftAlone
    <3>1. s \in Slugs \ {Slug(Work[i]) : i \in 1 .. n} /\ s # File
      BY <1>2, <2>2
    <3> QED BY <2>1, <3>1 DEF FreshInv, LeftAlone
  <2> QED BY <2>4, <2>5, <2>6, <2>7, <2>8 DEF FreshInv
<1> QED BY <1>3, <1>4 DEF Write

LEMMA FreshInit == UpdateInit => FreshInv
<1> SUFFICES ASSUME UpdateInit PROVE FreshInv
  OBVIOUS
<1>1. /\ rev = [o \in Origins |-> 1] /\ started = rev /\ cache = <<>> /\ before = cache
      /\ pc = "idle" /\ releases = <<>> /\ n = 1
  BY DEF UpdateInit
<1>2. UpdateTypes
  <2>1. releases \in Seq({releases[k] : k \in DOMAIN releases})
    BY <1>1, EmptySeq
  <2>2. cache = [s \in DOMAIN cache |-> cache[s]]
    BY <1>1
  <2> QED BY <1>1, <2>1, <2>2 DEF UpdateTypes
<1>3. Len(releases) = 0 /\ \A i \in DOMAIN Work : ~IsFetched(i)
  BY <1>1, ItemFacts DEF IsFetched
<1>4. ReleasesTell /\ ReleasesAscend
  BY <1>3 DEF ReleasesTell, ReleasesAscend
<1>5. ItemIsThere /\ BytesAreFresh /\ FileIsThere /\ FreshBefore /\ DoneIsFresh
  BY <1>1, <1>3, UpdateAssumption
     DEF ItemIsThere, BytesAreFresh, FileIsThere, FreshBefore, DoneIsFresh, AtItems
<1>6. LeftAlone /\ NothingWritten
  BY <1>1 DEF LeftAlone, NothingWritten
<1> QED BY <1>2, <1>4, <1>5, <1>6 DEF FreshInv

LEMMA FreshNext ==
    ASSUME OneIndexPerFile, FreshInv, [UpdateNext]_updateVars PROVE FreshInv'
<1>1. CASE UNCHANGED updateVars
  BY <1>1 DEF updateVars, local, archive, FreshInv, UpdateTypes, ReleasesTell,
     ReleasesAscend, IsFetched, Listed, ItemIsThere, BytesAreFresh, FileIsThere, FreshBefore,
     DoneIsFresh, Fresh, LeftAlone, NothingWritten, File, Item, Target
<1> QED
  BY <1>1, BeginKeeps, ReleaseKeeps, ObtainKeeps, TruncateKeeps, WriteKeeps, StopKeeps,
     PublishKeeps DEF UpdateNext, UpdateStep

-----------------------------------------------------------------------------
(* resolve_chain: the search keeps, for every revision it has seen, a      *)
(* chain that leads there (the ghost `c').                                 *)

IsIndex(index) == Len(index) \in Nat /\ DOMAIN index = 1 .. Len(index)

LeadsTo(index, current, p, r) ==
    /\ p = <<>> => r = current
    /\ p # <<>> => index[p[1]].old = current /\ index[p[Len(p)]].new = r
    /\ \A i \in 1 .. Len(p) - 1 : index[p[i]].new = index[p[i + 1]].old

\* The chains are those that `via' tells of.
AreChains(index, current, s, c) ==
    /\ DOMAIN c = Seen(current, s) /\ current \notin DOMAIN s.via
    /\ c[current] = <<>>
    /\ \A r \in DOMAIN c : /\ c[r] \in Seq(DOMAIN index)
                           /\ LeadsTo(index, current, c[r], r)
    /\ \A r \in DOMAIN s.via :
        /\ s.via[r] \in DOMAIN index /\ index[s.via[r]].new = r
        /\ index[s.via[r]].old \in DOMAIN c
        /\ c[r] = Append(c[index[s.via[r]].old], s.via[r])

\* The queue goes from the nearest to the farthest, what is not in it has had
\* its diffs followed, and the turns have been counted.
Ascends(s, c) ==
    /\ s.queue \in Seq(DOMAIN c)
    /\ \A i, j \in 1 .. Len(s.queue) :
           i <= j => Len(c[s.queue[i]]) <= Len(c[s.queue[j]])
Waits(s, r) == \E i \in 1 .. Len(s.queue) : s.queue[i] = r
IsFollowed(index, c, r, k) ==
    \A i \in 1 .. k : index[i].old = r => /\ index[i].new \in DOMAIN c
                                          /\ Len(c[index[i].new]) <= Len(c[r]) + 1
Counts(s, turns) ==
    /\ IsFiniteSet(DOMAIN s.via)
    /\ Cardinality(DOMAIN s.via) + 1 = turns + Len(s.queue)

\* Between two turns, and while the diffs of a node are followed.
SearchInv(index, current, s, c) ==
    /\ AreChains(index, current, s, c) /\ Ascends(s, c)
    /\ \A r \in DOMAIN c : Waits(s, r) \/ IsFollowed(index, c, r, Len(index))
    /\ s.queue # <<>> =>
          \A r \in DOMAIN c : Len(c[r]) <= Len(c[Head(s.queue)]) + 1
VisitInv(index, current, s, c, node, k) ==
    /\ AreChains(index, current, s, c) /\ Ascends(s, c) /\ node \in DOMAIN c
    /\ \A r \in DOMAIN c \ {node} : Waits(s, r) \/ IsFollowed(index, c, r, Len(index))
    /\ IsFollowed(index, c, node, k)
    /\ \A r \in DOMAIN c : Len(c[r]) <= Len(c[node]) + 1
    /\ \A i \in 1 .. Len(s.queue) : Len(c[node]) <= Len(c[s.queue[i]])

LEMMA LeadsOn ==
    ASSUME NEW D, NEW index, NEW current, NEW p \in Seq(D), NEW i \in D,
           NEW old, NEW new, index[i].old = old, index[i].new = new,
           LeadsTo(index, current, p, old)
    PROVE  /\ LeadsTo(index, current, Append(p, i), new)
           /\ Append(p, i) \in Seq(D) /\ Len(Append(p, i)) = Len(p) + 1
<1> DEFINE q == Append(p, i)
<1>1. /\ q \in Seq(D) /\ Len(q) = Len(p) + 1 /\ q[Len(p) + 1] = i
      /\ \A k \in 1 .. Len(p) : q[k] = p[k]
      /\ Len(p) \in Nat /\ q # <<>>
  BY AppendProperties, LenProperties
<1>2. p = <<>> <=> Len(p) = 0
  BY EmptySeq, LenProperties
<1> HIDE DEF q
<1>3. index[q[Len(q)]].new = index[i].new
  BY <1>1
<1>4. index[q[1]].old = current
  <2>1. CASE p = <<>>
    BY <1>1, <1>2, <2>1 DEF LeadsTo
  <2>2. CASE p # <<>>
    <3>1. 1 \in 1 .. Len(p)
      BY <1>1, <1>2, <2>2
    <3> QED BY <1>1, <2>2, <3>1 DEF LeadsTo
  <2> QED BY <2>1, <2>2
<1>5. ASSUME NEW k \in 1 .. Len(q) - 1 PROVE index[q[k]].new = index[q[k + 1]].old
  <2>1. k \in 1 .. Len(p) /\ q[k] = p[k]
    BY <1>1, <1>5
  <2>2. CASE k = Len(p)
    <3>1. p # <<>>
      BY <1>2, <2>1
    <3>2. index[p[k]].new = index[i].old
      BY <2>2, <3>1 DEF LeadsTo
    <3> QED BY <1>1, <2>1, <2>2, <3>2
  <2>3. CASE k # Len(p)
    <3>1. k \in 1 .. Len(p) - 1 /\ k + 1 \in 1 .. Len(p)
      BY <1>1, <2>1, <2>3
    <3>2. index[p[k]].new = index[p[k + 1]].old
      BY <3>1 DEF LeadsTo
    <3> QED BY <1>1, <2>1, <3>1, <3>2
  <2> QED BY <2>2, <2>3
<1>6. LeadsTo(index, current, q, index[i].new)
  BY <1>1, <1>3, <1>4, <1>5 DEF LeadsTo
<1> QED BY <1>1, <1>6 DEF q

\* A diff that is not followed, and one to a revision that was not seen.
LEMMA EdgeSkips ==
    ASSUME NEW index, NEW current, NEW s, NEW c, NEW node, NEW k \in Nat,
           VisitInv(index, current, s, c, node, k),
           index[k + 1].old # node \/ index[k + 1].new \in Seen(current, s)
    PROVE  VisitInv(index, current, s, c, node, k + 1)
<1>1. IsFollowed(index, c, node, k + 1)
  <2> SUFFICES ASSUME NEW i \in 1 .. k + 1, index[i].old = node
               PROVE  /\ index[i].new \in DOMAIN c
                      /\ Len(c[index[i].new]) <= Len(c[node]) + 1
    BY DEF IsFollowed
  <2>1. CASE i = k + 1
    BY <2>1 DEF VisitInv, AreChains
  <2>2. CASE i # k + 1
    <3>1. i \in 1 .. k
      BY <2>2
    <3> QED BY <3>1 DEF VisitInv, IsFollowed
  <2> QED BY <2>1, <2>2
<1> QED BY <1>1 DEF VisitInv

LEMMA ChainGrows ==
    ASSUME NEW index, NEW current, NEW s, NEW c, AreChains(index, current, s, c),
           NEW i \in DOMAIN index, index[i].old \in DOMAIN c
    PROVE  LET p == c[index[i].old]
           IN /\ LeadsTo(index, current, Append(p, i), index[i].new)
              /\ Append(p, i) \in Seq(DOMAIN index) /\ Len(Append(p, i)) = Len(p) + 1
<1>1. PICK old, new, p, D : /\ index[i].old = old /\ index[i].new = new /\ p = c[old]
                           /\ D = DOMAIN index
  OBVIOUS
<1>2. p \in Seq(D) /\ i \in D /\ LeadsTo(index, current, p, old)
  BY <1>1 DEF AreChains
<1>3. LeadsTo(index, current, Append(p, i), new)
  BY <1>1, <1>2, LeadsOn
<1>4. Append(p, i) \in Seq(D) /\ Len(Append(p, i)) = Len(p) + 1
  BY <1>1, <1>2, LeadsOn
<1> QED BY <1>1, <1>3, <1>4

LEMMA EdgeReaches ==
    ASSUME NEW index, IsIndex(index),
           NEW current, NEW s, NEW c, NEW node, NEW k \in 0 .. Len(index) - 1,
           VisitInv(index, current, s, c, node, k),
           NEW new, new = index[k + 1].new,
           index[k + 1].old = node, new \notin Seen(current, s),
           NEW t, t = [queue |-> Append(s.queue, new), via |-> Insert(s.via, new, k + 1)],
           NEW d, d = Insert(c, new, Append(c[node], k + 1))
    PROVE  VisitInv(index, current, t, d, node, k + 1)
<1>1. /\ AreChains(index, current, s, c) /\ Ascends(s, c) /\ node \in DOMAIN c
      /\ DOMAIN c = Seen(current, s) /\ new \notin DOMAIN c
      /\ k + 1 \in DOMAIN index /\ k \in Nat
  BY DEF VisitInv, AreChains, IsIndex
<1>2. /\ DOMAIN d = DOMAIN c \cup {new} /\ \A r \in DOMAIN c : d[r] = c[r]
      /\ d[new] = Append(c[node], k + 1)
  BY <1>1 DEF Insert
<1>3. /\ DOMAIN t.via = DOMAIN s.via \cup {new} /\ \A r \in DOMAIN s.via : t.via[r] = s.via[r]
      /\ t.via[new] = k + 1 /\ t.queue = Append(s.queue, new)
  BY <1>1 DEF Insert, Seen
<1>4. /\ c[node] \in Seq(DOMAIN index) /\ Len(c[node]) \in Nat
      /\ \A r \in DOMAIN c : c[r] \in Seq(DOMAIN index) /\ Len(c[r]) \in Nat
  BY <1>1, LenProperties DEF AreChains
<1>5. /\ LeadsTo(index, current, d[new], new) /\ d[new] \in Seq(DOMAIN index)
      /\ Len(d[new]) = Len(c[node]) + 1
  <2>1. LeadsTo(index, current, c[node], index[k + 1].old)
    BY <1>1 DEF AreChains
  <2>2. /\ LeadsTo(index, current, Append(c[node], k + 1), index[k + 1].new)
        /\ Append(c[node], k + 1) \in Seq(DOMAIN index)
        /\ Len(Append(c[node], k + 1)) = Len(c[node]) + 1
    BY <1>1, ChainGrows
  <2> QED BY <1>2, <2>2
<1>6. AreChains(index, current, t, d)
  <2>1. current \in DOMAIN c /\ DOMAIN d = Seen(current, t) /\ current \notin DOMAIN t.via
    BY <1>1, <1>2, <1>3 DEF AreChains, Seen
  <2>2. d[current] = <<>>
    BY <1>1, <1>2, <2>1 DEF AreChains
  <2>3. \A r \in DOMAIN d : /\ d[r] \in Seq(DOMAIN index)
                            /\ LeadsTo(index, current, d[r], r)
    BY <1>1, <1>2, <1>5 DEF AreChains
  <2>4. ASSUME NEW r \in DOMAIN t.via
        PROVE  /\ t.via[r] \in DOMAIN index /\ index[t.via[r]].new = r
               /\ index[t.via[r]].old \in DOMAIN d
               /\ d[r] = Append(d[index[t.via[r]].old], t.via[r])
    <3>1. CASE r = new
      <4>1. t.via[r] = k + 1 /\ index[t.via[r]].old = node /\ index[t.via[r]].new = r
        BY <1>3, <3>1
      <4>2. d[node] = c[node] /\ node \in DOMAIN d
        BY <1>1, <1>2
      <4> QED BY <1>1, <1>2, <3>1, <4>1, <4>2
    <3>2. CASE r # new
      <4>1. r \in DOMAIN s.via /\ r \in DOMAIN c
        BY <1>1, <1>3, <3>2 DEF Seen
      <4>2. /\ s.via[r] \in DOMAIN index /\ index[s.via[r]].new = r
            /\ index[s.via[r]].old \in DOMAIN c
            /\ c[r] = Append(c[index[s.via[r]].old], s.via[r])
        BY <1>1, <4>1 DEF AreChains
      <4>3. t.via[r] = s.via[r] /\ d[r] = c[r]
        BY <1>2, <1>3, <4>1
      <4>4. d[index[s.via[r]].old] = c[index[s.via[r]].old] /\ index[s.via[r]].old \in DOMAIN d
        BY <1>2, <4>2
      <4> QED BY <4>2, <4>3, <4>4
    <3> QED BY <3>1, <3>2
  <2> QED BY <2>1, <2>2, <2>3, <2>4 DEF AreChains
<1>7. /\ t.queue \in Seq(DOMAIN d) /\ Len(t.queue) = Len(s.queue) + 1 /\ Len(s.queue) \in Nat
      /\ \A i \in 1 .. Len(s.queue) : t.queue[i] = s.queue[i] /\ s.queue[i] \in DOMAIN c
      /\ t.queue[Len(s.queue) + 1] = new
  <2>1. s.queue \in Seq(DOMAIN c) /\ DOMAIN c \subseteq DOMAIN d /\ new \in DOMAIN d
    BY <1>1, <1>2 DEF Ascends
  <2>2. s.queue \in Seq(DOMAIN d)
    BY <2>1, SeqMonotonic
  <2> QED BY <1>3, <2>1, <2>2, AppendProperties, LenProperties, ElementOfSeq
<1>8. \A r \in DOMAIN d : Len(d[r]) <= Len(d[node]) + 1
  <2>1. \A r \in DOMAIN c : Len(c[r]) <= Len(c[node]) + 1
    BY DEF VisitInv
  <2>2. Len(d[node]) = Len(c[node])
    BY <1>1, <1>2
  <2>3. Len(d[new]) <= Len(d[node]) + 1
    BY <1>4, <1>5, <2>2
  <2> QED BY <1>2, <2>1, <2>2, <2>3
<1>9. \A i \in 1 .. Len(t.queue) : Len(d[node]) <= Len(d[t.queue[i]])
  <2> SUFFICES ASSUME NEW i \in 1 .. Len(t.queue)
               PROVE  Len(d[node]) <= Len(d[t.queue[i]])
    OBVIOUS
  <2>1. Len(d[node]) = Len(c[node])
    BY <1>1, <1>2
  <2>2. CASE i = Len(s.queue) + 1
    BY <1>4, <1>5, <1>7, <2>1, <2>2
  <2>3. CASE i # Len(s.queue) + 1
    <3>1. i \in 1 .. Len(s.queue)
      BY <1>7, <2>3
    <3>2. Len(c[node]) <= Len(c[s.queue[i]])
      BY <3>1 DEF VisitInv
    <3> QED BY <1>2, <1>7, <2>1, <3>1, <3>2
  <2> QED BY <2>2, <2>3
<1>10. Ascends(t, d)
  <2> SUFFICES ASSUME NEW i \in 1 .. Len(t.queue), NEW j \in 1 .. Len(t.queue), i <= j
               PROVE  Len(d[t.queue[i]]) <= Len(d[t.queue[j]])
    BY <1>7 DEF Ascends
  <2>1. CASE j = Len(s.queue) + 1
    <3>1. t.queue[i] \in DOMAIN d
      BY <1>7, ElementOfSeq
    <3>2. Len(d[t.queue[i]]) <= Len(d[node]) + 1
      BY <1>8, <3>1
    <3>3. Len(d[t.queue[j]]) = Len(d[node]) + 1
      BY <1>1, <1>2, <1>5, <1>7, <2>1
    <3> QED BY <3>2, <3>3
  <2>2. CASE j # Len(s.queue) + 1
    <3>1. i \in 1 .. Len(s.queue) /\ j \in 1 .. Len(s.queue)
      BY <1>7, <2>2
    <3>2. Len(c[s.queue[i]]) <= Len(c[s.queue[j]])
      BY <1>1, <3>1 DEF Ascends
    <3> QED BY <1>2, <1>7, <3>1, <3>2
  <2> QED BY <2>1, <2>2
<1>11. \A r \in DOMAIN d \ {node} : Waits(t, r) \/ IsFollowed(index, d, r, Len(index))
  <2> SUFFICES ASSUME NEW r \in DOMAIN d \ {node}
               PROVE  Waits(t, r) \/ IsFollowed(index, d, r, Len(index))
    OBVIOUS
  <2>1. CASE r = new
    <3>1. Len(s.queue) + 1 \in 1 .. Len(t.queue)
      BY <1>7
    <3> QED BY <1>7, <2>1, <3>1 DEF Waits
  <2>2. CASE r # new /\ Waits(s, r)
    <3>1. \A i \in 1 .. Len(s.queue) : i \in 1 .. Len(t.queue)
      BY <1>7
    <3> QED BY <1>7, <2>2, <3>1 DEF Waits
  <2>3. CASE r # new /\ ~Waits(s, r)
    <3>1. r \in DOMAIN c /\ IsFollowed(index, c, r, Len(index))
      BY <1>2, <2>3 DEF VisitInv
    <3> QED BY <1>2, <3>1 DEF IsFollowed
  <2> QED BY <2>1, <2>2, <2>3
<1>12. IsFollowed(index, d, node, k + 1)
  <2> SUFFICES ASSUME NEW i \in 1 .. k + 1, index[i].old = node
               PROVE  /\ index[i].new \in DOMAIN d
                      /\ Len(d[index[i].new]) <= Len(d[node]) + 1
    BY DEF IsFollowed
  <2>1. index[i].new \in DOMAIN d
    <3>1. CASE i = k + 1
      BY <1>2, <3>1
    <3>2. CASE i # k + 1
      <4>1. i \in 1 .. k
        BY <1>1, <3>2
      <4> QED BY <1>2, <4>1 DEF VisitInv, IsFollowed
    <3> QED BY <3>1, <3>2
  <2> QED BY <1>8, <2>1
<1> QED BY <1>1, <1>2, <1>6, <1>8, <1>9, <1>10, <1>11, <1>12 DEF VisitInv

LEMMA EdgeCounts ==
    ASSUME NEW s, NEW turns \in Nat, Counts(s, turns), NEW S, s.queue \in Seq(S),
           NEW new, new \notin DOMAIN s.via, NEW i,
           NEW t, t = [queue |-> Append(s.queue, new), via |-> Insert(s.via, new, i)]
    PROVE  Counts(t, turns)
<1>1. DOMAIN t.via = DOMAIN s.via \cup {new}
  BY DEF Insert
<1>2. IsFiniteSet(DOMAIN t.via) /\ Cardinality(DOMAIN t.via) = Cardinality(DOMAIN s.via) + 1
  BY <1>1, FS_AddElement DEF Counts
<1>3. Cardinality(DOMAIN s.via) \in Nat
  BY FS_CardinalityType DEF Counts
<1>4. Len(t.queue) = Len(s.queue) + 1 /\ Len(s.queue) \in Nat
  <2>1. s.queue \in Seq(S \cup {new}) /\ new \in S \cup {new}
    BY SeqMonotonic
  <2> QED BY <2>1, AppendProperties, LenProperties
<1>5. Cardinality(DOMAIN s.via) + 1 = turns + Len(s.queue)
  BY DEF Counts
<1> QED BY <1>2, <1>3, <1>4, <1>5 DEF Counts

\* The loop over the diffs of a node, its first m turns.
VisitBody(f, index, current, s, m) ==
    [i \in 0 .. m |->
        IF i = 0 THEN [queue |-> Tail(s.queue), via |-> s.via]
                 ELSE Edge(index, current, Head(s.queue), f[i - 1], i)]
VisitRun(index, current, s, m) == CHOOSE f : f = VisitBody(f, index, current, s, m)

LEMMA VisitRuns ==
    ASSUME NEW index, NEW current, NEW s, NEW m \in Nat
    PROVE  VisitRun(index, current, s, m)
               = VisitBody(VisitRun(index, current, s, m), index, current, s, m)
<1> DEFINE G == {k \in 0 .. m : \E f : f = VisitBody(f, index, current, s, k)}
           fresh == [queue |-> Tail(s.queue), via |-> s.via]
<1>1. 0 \in G
  <2>1. [i \in 0 .. 0 |-> fresh] = VisitBody([i \in 0 .. 0 |-> fresh], index, current, s, 0)
    BY DEF VisitBody
  <2> QED BY <2>1
<1>2. ASSUME NEW k \in 0 .. m - 1, k \in G PROVE k + 1 \in G
  <2>1. PICK f : f = VisitBody(f, index, current, s, k)
    BY <1>2
  <2> DEFINE g == [i \in 0 .. k + 1 |-> IF i = 0 THEN fresh
                       ELSE Edge(index, current, Head(s.queue), f[i - 1], i)]
  <2>2. \A i \in 0 .. k : g[i] = f[i]
    <3>1. \A i \in 0 .. k : g[i] = VisitBody(f, index, current, s, k)[i]
      BY DEF VisitBody
    <3> QED BY <2>1, <3>1, Zenon
  <2>3. \A i \in 0 .. k + 1 : i # 0 => i - 1 \in 0 .. k
    OBVIOUS
  <2>4. g = VisitBody(g, index, current, s, k + 1)
    BY <2>2, <2>3 DEF VisitBody
  <2> QED BY <2>4
<1>3. m \in G
  <2>1. \A k \in 0 .. m - 1 : k \in G => k + 1 \in G
    BY <1>2
  <2> HIDE DEF G
  <2> QED BY <1>1, <2>1, Induction
<1> QED BY <1>3 DEF VisitRun

AreVisited(f, index, current, s) ==
    /\ Visit(index, current, s) = f[Len(index)]
    /\ f[0] = [queue |-> Tail(s.queue), via |-> s.via]
    /\ \A k \in 0 .. Len(index) - 1 :
           f[k + 1] = Edge(index, current, Head(s.queue), f[k], k + 1)
LEMMA VisitSteps ==
    ASSUME NEW index, IsIndex(index), NEW current, NEW s
    PROVE  \E f : AreVisited(f, index, current, s)
<1> DEFINE m == Len(index)
           f == VisitRun(index, current, s, m)
           b == VisitBody(f, index, current, s, m)
<1>1. f = b /\ m \in Nat
  BY VisitRuns DEF IsIndex
<1>2. Visit(index, current, s) = f[m]
  BY <1>1 DEF Visit, VisitRun, VisitBody
<1>3. b[0] = [queue |-> Tail(s.queue), via |-> s.via]
  BY <1>1 DEF VisitBody
<1>4. ASSUME NEW k \in 0 .. m - 1
      PROVE  b[k + 1] = Edge(index, current, Head(s.queue), f[k], k + 1)
  <2>1. k + 1 \in 0 .. m /\ k + 1 # 0 /\ (k + 1) - 1 = k
    BY <1>1
  <2> HIDE DEF f, m
  <2> QED BY <2>1 DEF VisitBody
<1> HIDE DEF b, f
<1>5. f[0] = [queue |-> Tail(s.queue), via |-> s.via]
  BY <1>1, <1>3
<1>6. \A k \in 0 .. m - 1 : f[k + 1] = Edge(index, current, Head(s.queue), f[k], k + 1)
  BY <1>1, <1>4
<1> QED BY <1>2, <1>5, <1>6 DEF AreVisited

\* A visit takes its node from the queue.
LEMMA VisitBegins ==
    ASSUME NEW index, NEW current, NEW s, NEW c, SearchInv(index, current, s, c),
           s.queue # <<>>, NEW turns \in Nat, Counts(s, turns),
           NEW t, t = [queue |-> Tail(s.queue), via |-> s.via]
    PROVE  /\ VisitInv(index, current, t, c, Head(s.queue), 0)
           /\ Counts(t, turns + 1)
<1> DEFINE node == Head(s.queue)
<1>1. /\ t.queue \in Seq(DOMAIN c) /\ s.queue \in Seq(DOMAIN c) /\ node \in DOMAIN c
      /\ Len(t.queue) = Len(s.queue) - 1 /\ Len(s.queue) \in Nat \ {0}
      /\ \A i \in 1 .. Len(t.queue) : t.queue[i] = s.queue[i + 1] /\ i + 1 \in 1 .. Len(s.queue)
      /\ node = s.queue[1] /\ 1 \in 1 .. Len(s.queue)
  <2>1. s.queue \in Seq(DOMAIN c)
    BY DEF SearchInv, Ascends
  <2>2. Len(s.queue) \in Nat \ {0}
    BY <2>1, EmptySeq
  <2>3. /\ t.queue \in Seq(DOMAIN c) /\ node \in DOMAIN c /\ Len(t.queue) = Len(s.queue) - 1
        /\ \A i \in 1 .. Len(t.queue) : t.queue[i] = s.queue[i + 1]
    BY <2>1, HeadTailProperties
  <2> QED BY <2>1, <2>2, <2>3
<1>2. \A i, j \in 1 .. Len(s.queue) : i <= j => Len(c[s.queue[i]]) <= Len(c[s.queue[j]])
  BY DEF SearchInv, Ascends
<1>3. Ascends(t, c)
  <2> SUFFICES ASSUME NEW i \in 1 .. Len(t.queue), NEW j \in 1 .. Len(t.queue), i <= j
               PROVE  Len(c[t.queue[i]]) <= Len(c[t.queue[j]])
    BY <1>1 DEF Ascends
  <2>1. i + 1 <= j + 1 /\ i + 1 \in 1 .. Len(s.queue) /\ j + 1 \in 1 .. Len(s.queue)
    BY <1>1
  <2>2. Len(c[s.queue[i + 1]]) <= Len(c[s.queue[j + 1]])
    BY <1>2, <2>1
  <2> QED BY <1>1, <2>2
<1>4. \A i \in 1 .. Len(t.queue) : Len(c[node]) <= Len(c[t.queue[i]])
  <2> SUFFICES ASSUME NEW i \in 1 .. Len(t.queue)
               PROVE  Len(c[node]) <= Len(c[t.queue[i]])
    OBVIOUS
  <2>1. 1 <= i + 1 /\ i + 1 \in 1 .. Len(s.queue)
    BY <1>1
  <2>2. Len(c[s.queue[1]]) <= Len(c[s.queue[i + 1]])
    BY <1>1, <1>2, <2>1
  <2> QED BY <1>1, <2>2
<1>5. \A r \in DOMAIN c \ {node} : Waits(t, r) \/ IsFollowed(index, c, r, Len(index))
  <2> SUFFICES ASSUME NEW r \in DOMAIN c \ {node}, Waits(s, r) PROVE Waits(t, r)
    BY DEF SearchInv
  <2>1. PICK i \in 1 .. Len(s.queue) : s.queue[i] = r
    BY DEF Waits
  <2>2. i # 1
    BY <1>1, <2>1
  <2>3. i - 1 \in 1 .. Len(t.queue) /\ (i - 1) + 1 = i
    <3>1. Len(t.queue) = Len(s.queue) - 1 /\ Len(s.queue) \in Nat
      BY <1>1
    <3> QED BY <2>2, <3>1
  <2>4. t.queue[i - 1] = r
    BY <1>1, <2>1, <2>3
  <2> QED BY <2>3, <2>4 DEF Waits
<1>6. IsFollowed(index, c, node, 0)
  BY DEF IsFollowed
<1>7. AreChains(index, current, t, c)
  <2>1. t.via = s.via
    OBVIOUS
  <2> QED BY <2>1 DEF SearchInv, AreChains, Seen
<1>8. \A r \in DOMAIN c : Len(c[r]) <= Len(c[node]) + 1
  BY DEF SearchInv
<1>9. Counts(t, turns + 1)
  <2>1. Cardinality(DOMAIN s.via) \in Nat /\ t.via = s.via
    BY FS_CardinalityType DEF Counts
  <2>2. /\ IsFiniteSet(DOMAIN t.via)
        /\ Cardinality(DOMAIN t.via) + 1 = turns + Len(s.queue)
    BY <2>1 DEF Counts
  <2>3. Len(t.queue) = Len(s.queue) - 1 /\ Len(s.queue) \in Nat
    BY <1>1
  <2>4. turns + Len(s.queue) = turns + 1 + Len(t.queue)
    <3>1. \A a, b \in Int : b = a - 1 => turns + a = turns + 1 + b
      OBVIOUS
    <3>2. Len(s.queue) \in Int /\ Len(t.queue) \in Int
      BY <2>3
    <3> QED BY <2>3, <3>1, <3>2, Zenon
  <2> QED BY <2>2, <2>4 DEF Counts
<1> QED BY <1>1, <1>3, <1>4, <1>5, <1>6, <1>7, <1>8, <1>9 DEF VisitInv

\* After all diffs the next node is as near as any that waits.
LEMMA VisitEnds ==
    ASSUME NEW index, NEW current, NEW s, NEW c, NEW node,
           VisitInv(index, current, s, c, node, Len(index))
    PROVE  SearchInv(index, current, s, c)
<1>1. \A r \in DOMAIN c : Waits(s, r) \/ IsFollowed(index, c, r, Len(index))
  BY DEF VisitInv
<1>2. ASSUME s.queue # <<>>
      PROVE  \A r \in DOMAIN c : Len(c[r]) <= Len(c[Head(s.queue)]) + 1
  <2>1. s.queue \in Seq(DOMAIN c)
    BY DEF VisitInv, Ascends
  <2>2. 1 \in 1 .. Len(s.queue) /\ Head(s.queue) = s.queue[1] /\ s.queue[1] \in DOMAIN c
    BY <1>2, <2>1, EmptySeq, ElementOfSeq
  <2>3. Len(c[node]) <= Len(c[Head(s.queue)])
    BY <2>2 DEF VisitInv
  <2>4. \A r \in DOMAIN c : Len(c[r]) \in Nat
    BY LenProperties DEF VisitInv, AreChains
  <2>5. \A r \in DOMAIN c : Len(c[r]) <= Len(c[node]) + 1
    BY DEF VisitInv
  <2>6. Len(c[node]) \in Nat /\ Len(c[Head(s.queue)]) \in Nat
    BY <2>2, <2>4 DEF VisitInv
  <2> QED BY <2>3, <2>4, <2>5, <2>6
<1> QED BY <1>1, <1>2 DEF VisitInv, SearchInv

LEMMA EdgeStep ==
    ASSUME NEW index, IsIndex(index), NEW current,
           NEW s, NEW c, NEW node, NEW k \in 0 .. Len(index) - 1,
           VisitInv(index, current, s, c, node, k), NEW turns \in Nat, Counts(s, turns),
           NEW t, t = Edge(index, current, node, s, k + 1)
    PROVE  \E d : VisitInv(index, current, t, d, node, k + 1) /\ Counts(t, turns)
<1>1. k \in Nat
  BY DEF IsIndex
<1>2. CASE index[k + 1].old # node \/ index[k + 1].new \in Seen(current, s)
  <2>1. t = s
    BY <1>2 DEF Edge
  <2>2. VisitInv(index, current, s, c, node, k + 1)
    BY <1>1, <1>2, EdgeSkips
  <2> QED BY <2>1, <2>2
<1>3. CASE index[k + 1].old = node /\ index[k + 1].new \notin Seen(current, s)
  <2> DEFINE new == index[k + 1].new
             d   == Insert(c, new, Append(c[node], k + 1))
  <2>1. t = [queue |-> Append(s.queue, new), via |-> Insert(s.via, new, k + 1)]
    BY <1>3 DEF Edge
  <2>2. VisitInv(index, current, t, d, node, k + 1)
    BY <1>3, <2>1, EdgeReaches
  <2>3. s.queue \in Seq(DOMAIN c) /\ new \notin DOMAIN s.via
    BY <1>3 DEF VisitInv, Ascends, Seen
  <2> HIDE DEF new
  <2>4. Counts(t, turns)
    BY <2>1, <2>3, EdgeCounts
  <2> QED BY <2>2, <2>4
<1> QED BY <1>2, <1>3

LEMMA VisitKeeps ==
    ASSUME NEW index, IsIndex(index), NEW current,
           NEW s, NEW c, SearchInv(index, current, s, c), s.queue # <<>>,
           NEW turns \in Nat, Counts(s, turns)
    PROVE  \E d : /\ SearchInv(index, current, Visit(index, current, s), d)
                  /\ Counts(Visit(index, current, s), turns + 1)
<1>0. PICK f : AreVisited(f, index, current, s)
  BY VisitSteps
<1> DEFINE node == Head(s.queue)
           Good(k) == \E d : /\ VisitInv(index, current, f[k], d, node, k)
                             /\ Counts(f[k], turns + 1)
           G    == {k \in 0 .. Len(index) : Good(k)}
<1>1. /\ Visit(index, current, s) = f[Len(index)]
      /\ f[0] = [queue |-> Tail(s.queue), via |-> s.via]
      /\ \A k \in 0 .. Len(index) - 1 : f[k + 1] = Edge(index, current, node, f[k], k + 1)
  BY <1>0 DEF AreVisited
<1>2. Good(0)
  BY <1>1, VisitBegins
<1>3. ASSUME NEW k \in 0 .. Len(index) - 1, Good(k) PROVE Good(k + 1)
  <2>1. PICK d : VisitInv(index, current, f[k], d, node, k) /\ Counts(f[k], turns + 1)
    BY <1>3
  <2>2. f[k + 1] = Edge(index, current, node, f[k], k + 1) /\ turns + 1 \in Nat
    BY <1>1
  <2> HIDE DEF node
  <2> QED BY <2>1, <2>2, EdgeStep
<1>4. Good(Len(index))
  <2>1. 0 \in G
    BY <1>2
  <2>2. \A k \in 0 .. Len(index) - 1 : k \in G => k + 1 \in G
    <3> SUFFICES ASSUME NEW k \in 0 .. Len(index) - 1, Good(k)
                 PROVE  k + 1 \in 0 .. Len(index) /\ Good(k + 1)
      OBVIOUS
    <3> HIDE DEF Good
    <3> QED BY <1>3
  <2>3. 0 .. Len(index) \subseteq G
    <3> HIDE DEF G
    <3>1. Len(index) \in Nat
      BY DEF IsIndex
    <3> QED BY <2>1, <2>2, <3>1, Induction
  <2> HIDE DEF Good
  <2> QED BY <2>3
<1>5. PICK d : /\ VisitInv(index, current, f[Len(index)], d, node, Len(index))
               /\ Counts(f[Len(index)], turns + 1)
  BY <1>4
<1>6. SearchInv(index, current, f[Len(index)], d)
  BY <1>5, VisitEnds
<1> QED BY <1>1, <1>5, <1>6

\* Every revision in `via' is the new one of a diff of its own, so the turns
\* are enough to empty the queue.
LEMMA TurnsAreEnough ==
    ASSUME NEW index, IsIndex(index), NEW current,
           NEW s, NEW c, SearchInv(index, current, s, c), Counts(s, Len(index) + 1)
    PROVE  s.queue = <<>>
<1> DEFINE V == DOMAIN s.via
           f == [r \in V |-> s.via[r]]
<1>1. f \in [V -> 1 .. Len(index)]
  BY DEF SearchInv, AreChains, IsIndex
<1>2. \A r, q \in V : f[r] = f[q] => r = q
  BY DEF SearchInv, AreChains
<1>3. f \in Injection(V, 1 .. Len(index))
  <2> HIDE DEF f
  <2> QED BY <1>1, <1>2 DEF Injection, IsInjective
<1>4. IsFiniteSet(1 .. Len(index)) /\ Cardinality(1 .. Len(index)) = Len(index)
  <2>1. /\ IsFiniteSet(1 .. Len(index))
        /\ Cardinality(1 .. Len(index)) = IF 1 > Len(index) THEN 0 ELSE Len(index) - 1 + 1
    BY FS_Interval DEF IsIndex
  <2> QED BY <2>1 DEF IsIndex
<1>5. Cardinality(V) <= Len(index)
  BY <1>3, <1>4, FS_Injection
<1>6. Cardinality(V) + 1 = Len(index) + 1 + Len(s.queue) /\ Cardinality(V) \in Nat
  BY FS_CardinalityType DEF Counts
<1>7. s.queue \in Seq(DOMAIN c) /\ Len(s.queue) \in Nat
  BY LenProperties DEF SearchInv, Ascends
<1>8. Len(s.queue) = 0
  <2>1. \A a, b \in Nat : a <= Len(index) /\ a + 1 = Len(index) + 1 + b => b = 0
    BY DEF IsIndex
  <2> QED BY <1>5, <1>6, <1>7, <2>1
<1> QED BY <1>7, <1>8, EmptySeq

\* The search, turn by turn.
TurnBody(f, index, current, target, m) ==
    [i \in 0 .. m |->
        IF i = 0 THEN [queue |-> <<current>>, via |-> <<>>]
        ELSE IF IsOver(target, f[i - 1]) THEN f[i - 1] ELSE Visit(index, current, f[i - 1])]
TurnRun(index, current, target, m) == CHOOSE f : f = TurnBody(f, index, current, target, m)

LEMMA TurnRuns ==
    ASSUME NEW index, NEW current, NEW target, NEW m \in Nat
    PROVE  TurnRun(index, current, target, m)
               = TurnBody(TurnRun(index, current, target, m), index, current, target, m)
<1> DEFINE G == {k \in 0 .. m : \E f : f = TurnBody(f, index, current, target, k)}
           fresh == [queue |-> <<current>>, via |-> <<>>]
           Turn(s) == IF IsOver(target, s) THEN s ELSE Visit(index, current, s)
<1>1. 0 \in G
  <2>1. [i \in 0 .. 0 |-> fresh] = TurnBody([i \in 0 .. 0 |-> fresh], index, current, target, 0)
    BY DEF TurnBody
  <2> QED BY <2>1
<1>2. ASSUME NEW k \in 0 .. m - 1, k \in G PROVE k + 1 \in G
  <2>1. PICK f : f = TurnBody(f, index, current, target, k)
    BY <1>2
  <2> DEFINE g == [i \in 0 .. k + 1 |-> IF i = 0 THEN fresh ELSE Turn(f[i - 1])]
  <2>2. \A i \in 0 .. k : g[i] = f[i]
    <3>1. \A i \in 0 .. k : g[i] = TurnBody(f, index, current, target, k)[i]
      BY DEF TurnBody
    <3> QED BY <2>1, <3>1, Zenon
  <2>3. \A i \in 0 .. k + 1 : i # 0 => i - 1 \in 0 .. k
    OBVIOUS
  <2>4. g = TurnBody(g, index, current, target, k + 1)
    BY <2>2, <2>3 DEF TurnBody
  <2> QED BY <2>4
<1>3. m \in G
  <2>1. \A k \in 0 .. m - 1 : k \in G => k + 1 \in G
    BY <1>2
  <2> HIDE DEF G
  <2> QED BY <1>1, <2>1, Induction
<1> QED BY <1>3 DEF TurnRun

AreTurns(f, index, current, target) ==
    /\ Search(index, current, target) = f[Len(index) + 1]
    /\ f[0] = [queue |-> <<current>>, via |-> <<>>]
    /\ \A k \in 0 .. Len(index) :
           f[k + 1] = IF IsOver(target, f[k]) THEN f[k] ELSE Visit(index, current, f[k])
LEMMA TurnSteps ==
    ASSUME NEW index, IsIndex(index), NEW current, NEW target
    PROVE  \E f : AreTurns(f, index, current, target)
<1> DEFINE m == Len(index) + 1
           f == TurnRun(index, current, target, m)
           b == TurnBody(f, index, current, target, m)
<1>1. f = b /\ m \in Nat /\ Len(index) \in Nat
  BY TurnRuns DEF IsIndex
<1>2. Search(index, current, target) = f[m]
  BY <1>1 DEF Search, TurnRun, TurnBody
<1>3. b[0] = [queue |-> <<current>>, via |-> <<>>]
  BY <1>1 DEF TurnBody
<1>4. ASSUME NEW k \in 0 .. Len(index)
      PROVE  b[k + 1] = IF IsOver(target, f[k]) THEN f[k] ELSE Visit(index, current, f[k])
  <2>1. k + 1 \in 0 .. m /\ k + 1 # 0 /\ (k + 1) - 1 = k
    BY <1>1
  <2> HIDE DEF f, m
  <2> QED BY <2>1 DEF TurnBody
<1> HIDE DEF f, b
<1>5. f[0] = [queue |-> <<current>>, via |-> <<>>]
  BY <1>1, <1>3
<1>6. \A k \in 0 .. Len(index) :
          f[k + 1] = IF IsOver(target, f[k]) THEN f[k] ELSE Visit(index, current, f[k])
  BY <1>1, <1>4
<1> QED BY <1>2, <1>5, <1>6 DEF AreTurns

LEMMA SearchBegins ==
    ASSUME NEW index, NEW current, NEW s, s = [queue |-> <<current>>, via |-> <<>>]
    PROVE  /\ SearchInv(index, current, s, [r \in {current} |-> <<>>])
           /\ Counts(s, 0)
<1> DEFINE c == [r \in {current} |-> <<>>]
<1>1. DOMAIN c = {current} /\ c[current] = <<>> /\ s.queue = <<current>> /\ DOMAIN s.via = {}
  OBVIOUS
<1>2. s.queue \in Seq(DOMAIN c) /\ Len(s.queue) = 1 /\ s.queue[1] = current
  BY <1>1
<1>3. c[current] \in Seq(DOMAIN index) /\ Len(c[current]) = 0
  BY <1>1, EmptySeq
<1> HIDE DEF c
<1>4. LeadsTo(index, current, c[current], current)
  BY <1>1, <1>3 DEF LeadsTo
<1>5. AreChains(index, current, s, c)
  BY <1>1, <1>3, <1>4 DEF AreChains, Seen
<1>6. \A i \in 1 .. Len(s.queue) : i = 1
  BY <1>2
<1>7. Ascends(s, c)
  BY <1>1, <1>2, <1>3, <1>6 DEF Ascends
<1>8. \A r \in DOMAIN c : Waits(s, r)
  BY <1>1, <1>2 DEF Waits
<1>9. \A r \in DOMAIN c : Len(c[r]) <= Len(c[Head(s.queue)]) + 1
  BY <1>1, <1>3
<1>10. Counts(s, 0)
  BY <1>1, <1>2, FS_EmptySet DEF Counts
<1> QED BY <1>5, <1>7, <1>8, <1>9, <1>10 DEF SearchInv, c

\* The search ends with its queue empty or the target at its head.
LEMMA SearchEnds ==
    ASSUME NEW index, IsIndex(index), NEW current, NEW target
    PROVE  \E c : /\ SearchInv(index, current, Search(index, current, target), c)
                  /\ IsOver(target, Search(index, current, target))
<1>0. PICK f : AreTurns(f, index, current, target)
  BY TurnSteps
<1> DEFINE N == Len(index) + 1
           Good(k) == \E c : /\ SearchInv(index, current, f[k], c)
                             /\ IsOver(target, f[k]) \/ Counts(f[k], k)
           G    == {k \in 0 .. N : Good(k)}
<1>1. /\ Search(index, current, target) = f[N]
      /\ f[0] = [queue |-> <<current>>, via |-> <<>>]
      /\ \A k \in 0 .. N - 1 :
           f[k + 1] = IF IsOver(target, f[k]) THEN f[k] ELSE Visit(index, current, f[k])
      /\ N \in Nat
  BY <1>0 DEF AreTurns, IsIndex
<1>2. Good(0)
  BY <1>1, SearchBegins
<1>3. ASSUME NEW k \in 0 .. N - 1, Good(k) PROVE Good(k + 1)
  <2>1. PICK c : /\ SearchInv(index, current, f[k], c)
                 /\ IsOver(target, f[k]) \/ Counts(f[k], k)
    BY <1>3
  <2>2. CASE IsOver(target, f[k])
    <3>1. f[k + 1] = f[k]
      BY <1>1, <2>2
    <3> QED BY <2>1, <2>2, <3>1
  <2>3. CASE ~IsOver(target, f[k])
    <3>1. f[k + 1] = Visit(index, current, f[k]) /\ k \in Nat
      BY <1>1, <2>3
    <3>2. f[k].queue # <<>>
      BY <2>3 DEF IsOver
    <3>3. Counts(f[k], k)
      BY <2>1, <2>3
    <3>4. \E d : /\ SearchInv(index, current, Visit(index, current, f[k]), d)
                 /\ Counts(Visit(index, current, f[k]), k + 1)
      BY <2>1, <3>1, <3>2, <3>3, VisitKeeps
    <3> QED BY <3>1, <3>4
  <2> QED BY <2>2, <2>3
<1>4. Good(N)
  <2>1. 0 \in G
    BY <1>1, <1>2
  <2>2. \A k \in 0 .. N - 1 : k \in G => k + 1 \in G
    <3> SUFFICES ASSUME NEW k \in 0 .. N - 1, Good(k)
                 PROVE  k + 1 \in 0 .. N /\ Good(k + 1)
      OBVIOUS
    <3>1. k + 1 \in 0 .. N
      BY <1>1
    <3> HIDE DEF Good
    <3> QED BY <1>3, <3>1
  <2>3. 0 .. N \subseteq G
    <3> HIDE DEF G, N
    <3> QED BY <1>1, <2>1, <2>2, Induction
  <2>4. N \in 0 .. N
    BY <1>1
  <2> HIDE DEF Good, N
  <2> QED BY <2>3, <2>4
<1>5. PICK c : /\ SearchInv(index, current, f[N], c)
               /\ IsOver(target, f[N]) \/ Counts(f[N], N)
  BY <1>4
<1>6. IsOver(target, f[N])
  BY <1>5, TurnsAreEnough DEF IsOver
<1> QED BY <1>1, <1>5, <1>6

\* What is reached over k diffs, step by step.
WithinBody(f, index, from, m) ==
    [i \in 0 .. m |-> IF i = 0 THEN {from} ELSE Further(index, f[i - 1])]
WithinRun(index, from, m) == CHOOSE f : f = WithinBody(f, index, from, m)

LEMMA WithinRuns ==
    ASSUME NEW index, NEW from, NEW m \in Nat
    PROVE  WithinRun(index, from, m) = WithinBody(WithinRun(index, from, m), index, from, m)
<1> DEFINE G == {k \in 0 .. m : \E f : f = WithinBody(f, index, from, k)}
<1>1. 0 \in G
  <2>1. [i \in 0 .. 0 |-> {from}] = WithinBody([i \in 0 .. 0 |-> {from}], index, from, 0)
    BY DEF WithinBody
  <2> QED BY <2>1
<1>2. ASSUME NEW k \in 0 .. m - 1, k \in G PROVE k + 1 \in G
  <2>1. PICK f : f = WithinBody(f, index, from, k)
    BY <1>2
  <2> DEFINE g == [i \in 0 .. k + 1 |-> IF i = 0 THEN {from} ELSE Further(index, f[i - 1])]
  <2>2. \A i \in 0 .. k : g[i] = f[i]
    <3>1. \A i \in 0 .. k : g[i] = WithinBody(f, index, from, k)[i]
      BY DEF WithinBody
    <3> QED BY <2>1, <3>1, Zenon
  <2>3. \A i \in 0 .. k + 1 : i # 0 => i - 1 \in 0 .. k
    OBVIOUS
  <2>4. g = WithinBody(g, index, from, k + 1)
    BY <2>2, <2>3 DEF WithinBody
  <2> QED BY <2>4
<1>3. m \in G
  <2>1. \A k \in 0 .. m - 1 : k \in G => k + 1 \in G
    BY <1>2
  <2> HIDE DEF G
  <2> QED BY <1>1, <2>1, Induction
<1> QED BY <1>3 DEF WithinRun

AreWithin(f, index, from, m) ==
    /\ Reached(index, from, m) = f[m]
    /\ f[0] = {from}
    /\ \A k \in 0 .. m - 1 : f[k + 1] = Further(index, f[k])
LEMMA WithinSteps ==
    ASSUME NEW index, NEW from, NEW m \in Nat
    PROVE  \E f : AreWithin(f, index, from, m)
<1> DEFINE f == WithinRun(index, from, m)
           b == WithinBody(f, index, from, m)
<1>1. f = b
  BY WithinRuns
<1>2. Reached(index, from, m) = f[m]
  BY <1>1 DEF Reached, WithinRun, WithinBody
<1>3. b[0] = {from}
  BY <1>1 DEF WithinBody
<1>4. ASSUME NEW k \in 0 .. m - 1 PROVE b[k + 1] = Further(index, f[k])
  <2>1. k + 1 \in 0 .. m /\ k + 1 # 0 /\ (k + 1) - 1 = k
    OBVIOUS
  <2> HIDE DEF f
  <2> QED BY <2>1 DEF WithinBody
<1> HIDE DEF f, b
<1>5. f[0] = {from}
  BY <1>1, <1>3
<1>6. \A k \in 0 .. m - 1 : f[k + 1] = Further(index, f[k])
  BY <1>1, <1>4
<1> QED BY <1>2, <1>5, <1>6 DEF AreWithin

\* What is nearer than the head of the queue has been seen, at its distance.
LEMMA NearIsSeen ==
    ASSUME NEW index, IsIndex(index), NEW current, NEW s, NEW c,
           SearchInv(index, current, s, c), NEW m \in Nat,
           s.queue = <<>> \/ m <= Len(c[Head(s.queue)])
    PROVE  \A r \in Reached(index, current, m) : r \in DOMAIN c /\ Len(c[r]) <= m
<1>0. PICK f : AreWithin(f, index, current, m)
  BY WithinSteps
<1> DEFINE Good(k) == \A r \in f[k] : r \in DOMAIN c /\ Len(c[r]) <= k
           G == {k \in 0 .. m : Good(k)}
<1>1. /\ Reached(index, current, m) = f[m] /\ f[0] = {current}
      /\ \A k \in 0 .. m - 1 : f[k + 1] = Further(index, f[k])
  BY <1>0 DEF AreWithin
<1>2. \A r \in DOMAIN c : Len(c[r]) \in Nat
  BY LenProperties DEF SearchInv, AreChains
<1>3. Good(0)
  <2>1. current \in DOMAIN c /\ c[current] = <<>>
    BY DEF SearchInv, AreChains, Seen
  <2> QED BY <1>1, <2>1, EmptySeq
<1>4. ASSUME NEW r \in DOMAIN c, NEW k \in 0 .. m - 1, Len(c[r]) <= k PROVE ~Waits(s, r)
  <2> SUFFICES ASSUME NEW i \in 1 .. Len(s.queue), s.queue[i] = r PROVE FALSE
    BY DEF Waits
  <2>1. s.queue \in Seq(DOMAIN c) /\ Len(s.queue) \in Nat
    BY LenProperties DEF SearchInv, Ascends
  <2>2. 1 \in 1 .. Len(s.queue) /\ 1 <= i
    BY <2>1
  <2>3. s.queue # <<>>
    BY <2>1, <2>2, EmptySeq
  <2>4. Head(s.queue) = s.queue[1] /\ s.queue[1] \in DOMAIN c
    BY <2>1, <2>2, <2>3, ElementOfSeq
  <2>5. Len(c[s.queue[1]]) <= Len(c[s.queue[i]])
    BY <2>2 DEF SearchInv, Ascends
  <2>6. m <= Len(c[s.queue[1]])
    BY <2>3, <2>4
  <2>7. Len(c[s.queue[1]]) \in Nat /\ Len(c[r]) \in Nat
    BY <1>2, <2>4
  <2> QED BY <1>4, <2>5, <2>6, <2>7
<1>5. ASSUME NEW k \in 0 .. m - 1, Good(k) PROVE Good(k + 1)
  <2> SUFFICES ASSUME NEW r \in f[k + 1] PROVE r \in DOMAIN c /\ Len(c[r]) <= k + 1
    OBVIOUS
  <2>1. f[k + 1] = Further(index, f[k])
    BY <1>1
  <2>2. CASE r \in f[k]
    <3>1. r \in DOMAIN c /\ Len(c[r]) <= k
      BY <1>5, <2>2
    <3> QED BY <1>2, <3>1
  <2>3. CASE r \notin f[k]
    <3>1. PICK i \in DOMAIN index : index[i].old \in f[k] /\ index[i].new = r
      BY <2>1, <2>3 DEF Further
    <3>2. index[i].old \in DOMAIN c /\ Len(c[index[i].old]) <= k
      BY <1>5, <3>1
    <3>3. IsFollowed(index, c, index[i].old, Len(index))
      BY <1>4, <3>2 DEF SearchInv
    <3>4. i \in 1 .. Len(index)
      BY <3>1 DEF IsIndex
    <3>5. r \in DOMAIN c /\ Len(c[r]) <= Len(c[index[i].old]) + 1
      BY <3>1, <3>3, <3>4 DEF IsFollowed
    <3>6. Len(c[r]) \in Nat /\ Len(c[index[i].old]) \in Nat
      BY <1>2, <3>2, <3>5
    <3> QED BY <3>2, <3>5, <3>6
  <2> QED BY <2>2, <2>3
<1>6. Good(m)
  <2>1. 0 \in G
    BY <1>3
  <2>2. \A k \in 0 .. m - 1 : k \in G => k + 1 \in G
    <3> SUFFICES ASSUME NEW k \in 0 .. m - 1, Good(k) PROVE k + 1 \in 0 .. m /\ Good(k + 1)
      OBVIOUS
    <3> HIDE DEF Good
    <3> QED BY <1>5
  <2>3. 0 .. m \subseteq G
    <3> HIDE DEF G
    <3> QED BY <2>1, <2>2, Induction
  <2> HIDE DEF Good
  <2> QED BY <2>3
<1> QED BY <1>1, <1>6

\* The walk back over `via' finds the chain of the search.
ChainBody(g, index, current, s) ==
    [r \in Seen(current, s) |->
        IF r = current THEN <<>> ELSE Append(g[index[s.via[r]].old], s.via[r])]
LEMMA WalkFindsChain ==
    ASSUME NEW index, NEW current, NEW s, NEW c, AreChains(index, current, s, c),
           NEW target \in DOMAIN c,
           NEW g, g = CHOOSE h : h = ChainBody(h, index, current, s)
    PROVE  g[target] = c[target]
<1> DEFINE d == [r \in Seen(current, s) |-> c[r]]
           G == {k \in 0 .. Len(c[target]) : \A r \in DOMAIN c : Len(c[r]) <= k => g[r] = c[r]}
<1>1. d = ChainBody(d, index, current, s)
  <2>1. \A r \in Seen(current, s) : r # current =>
            /\ c[r] = Append(c[index[s.via[r]].old], s.via[r])
            /\ index[s.via[r]].old \in Seen(current, s)
    BY DEF AreChains, Seen
  <2>2. c[current] = <<>>
    BY DEF AreChains
  <2> QED BY <2>1, <2>2 DEF ChainBody
<1>2. g = ChainBody(g, index, current, s)
  BY <1>1
<1>3. /\ g[current] = c[current] /\ DOMAIN c = Seen(current, s)
      /\ \A r \in DOMAIN c : r # current => /\ r \in DOMAIN s.via
                                            /\ g[r] = Append(g[index[s.via[r]].old], s.via[r])
  <2>1. \A r \in Seen(current, s) : ChainBody(g, index, current, s)[r] =
            IF r = current THEN <<>> ELSE Append(g[index[s.via[r]].old], s.via[r])
    BY DEF ChainBody
  <2>2. \A r \in Seen(current, s) : g[r] =
            IF r = current THEN <<>> ELSE Append(g[index[s.via[r]].old], s.via[r])
    BY <1>2, <2>1, Zenon
  <2> QED BY <2>2 DEF AreChains, Seen
<1>4. /\ \A r \in DOMAIN c : c[r] \in Seq(DOMAIN index) /\ Len(c[r]) \in Nat
      /\ c[current] = <<>>
      /\ \A r \in DOMAIN s.via :
           /\ s.via[r] \in DOMAIN index /\ index[s.via[r]].old \in DOMAIN c
           /\ c[r] = Append(c[index[s.via[r]].old], s.via[r])
  BY LenProperties DEF AreChains
<1>5. ASSUME NEW r \in DOMAIN c, r # current
      PROVE  Len(c[r]) = Len(c[index[s.via[r]].old]) + 1
  <2>1. r \in DOMAIN s.via
    BY <1>3, <1>5
  <2>2. /\ c[r] = Append(c[index[s.via[r]].old], s.via[r])
        /\ c[index[s.via[r]].old] \in Seq(DOMAIN index) /\ s.via[r] \in DOMAIN index
    BY <1>4, <2>1
  <2> QED BY <2>2, AppendProperties
<1>6. 0 \in G
  <2>1. ASSUME NEW r \in DOMAIN c, Len(c[r]) <= 0, r # current PROVE FALSE
    <3>1. index[s.via[r]].old \in DOMAIN c
      BY <1>3, <1>4, <2>1
    <3> QED BY <1>4, <1>5, <2>1, <3>1
  <2>2. \A r \in DOMAIN c : Len(c[r]) <= 0 => g[r] = c[r]
    BY <1>3, <2>1
  <2>3. 0 \in 0 .. Len(c[target])
    BY <1>4
  <2> QED BY <2>2, <2>3
<1>7. ASSUME NEW k \in 0 .. Len(c[target]) - 1, k \in G PROVE k + 1 \in G
  <2>1. ASSUME NEW r \in DOMAIN c, Len(c[r]) <= k + 1, r # current PROVE g[r] = c[r]
    <3>1. r \in DOMAIN s.via
      BY <1>3, <2>1
    <3>2. index[s.via[r]].old \in DOMAIN c
      BY <1>4, <3>1
    <3>3. Len(c[index[s.via[r]].old]) <= k
      BY <1>4, <1>5, <2>1, <3>2
    <3>4. g[index[s.via[r]].old] = c[index[s.via[r]].old]
      BY <1>7, <3>2, <3>3
    <3>5. c[r] = Append(c[index[s.via[r]].old], s.via[r])
      BY <1>4, <3>1
    <3>6. g[r] = Append(g[index[s.via[r]].old], s.via[r])
      BY <1>3, <2>1
    <3> QED BY <3>4, <3>5, <3>6
  <2>2. k + 1 \in 0 .. Len(c[target])
    BY <1>4
  <2> QED BY <1>3, <2>1, <2>2
<1>8. Len(c[target]) \in G
  <2>1. \A k \in 0 .. Len(c[target]) - 1 : k \in G => k + 1 \in G
    BY <1>7
  <2>2. Len(c[target]) \in Nat
    BY <1>4
  <2> HIDE DEF G
  <2>3. 0 .. Len(c[target]) \subseteq G
    BY <1>6, <2>1, <2>2, Induction
  <2> QED BY <2>2, <2>3
<1>9. Len(c[target]) <= Len(c[target])
  BY <1>4
<1> QED BY <1>8, <1>9

\* For every index of diffs, whatever it leads to and in whatever order it lists
\* them, resolve_chain finds a chain from the current revision to the target
\* if there is one, and no shorter one leads there.
THEOREM ChainsAreShortest ==
    ASSUME NEW index, IsIndex(index), NEW current, NEW target,
           NEW found, found = ResolveChain(index, current, target)
    PROVE  /\ found = {} => \A k \in Nat : target \notin Reached(index, current, k)
           /\ \A p \in found : IsShortest(index, current, target, p)
<1>1. PICK s, c : /\ s = Search(index, current, target)
                  /\ SearchInv(index, current, s, c) /\ IsOver(target, s)
  BY SearchEnds
<1>2. /\ DOMAIN c = Seen(current, s) /\ AreChains(index, current, s, c)
      /\ \A r \in DOMAIN c : /\ c[r] \in Seq(DOMAIN index) /\ Len(c[r]) \in Nat
                             /\ LeadsTo(index, current, c[r], r)
  BY <1>1, LenProperties DEF SearchInv, AreChains
<1>3. s.queue # <<>> => Head(s.queue) = target /\ target \in DOMAIN c
  <2> SUFFICES ASSUME s.queue # <<>> PROVE Head(s.queue) = target /\ Head(s.queue) \in DOMAIN c
    OBVIOUS
  <2>1. s.queue \in Seq(DOMAIN c)
    BY <1>1 DEF SearchInv, Ascends
  <2> QED BY <1>1, <2>1, HeadTailProperties DEF IsOver
<1>4. CASE target \notin DOMAIN c
  <2>1. found = {}
    BY <1>1, <1>2, <1>4 DEF ResolveChain
  <2>2. s.queue = <<>>
    BY <1>3, <1>4
  <2>3. \A k \in Nat : target \notin Reached(index, current, k)
    BY <1>1, <1>4, <2>2, NearIsSeen
  <2> QED BY <2>1, <2>3
<1>5. CASE target \in DOMAIN c
  <2>1. PICK g : g = CHOOSE h : h = ChainBody(h, index, current, s)
    OBVIOUS
  <2>2. g[target] = c[target]
    BY <1>2, <1>5, <2>1, WalkFindsChain
  <2>3. found = {g[target]}
    BY <1>1, <1>2, <1>5, <2>1 DEF ResolveChain, ChainBody
  <2>4. ASSUME Len(c[target]) > 0
        PROVE  target \notin Reached(index, current, Len(c[target]) - 1)
    <3>1. Len(c[target]) - 1 \in Nat /\ ~(Len(c[target]) <= Len(c[target]) - 1)
      BY <1>2, <1>5, <2>4
    <3>2. s.queue = <<>> \/ Len(c[target]) - 1 <= Len(c[Head(s.queue)])
      BY <1>2, <1>3, <1>5
    <3> QED BY <1>1, <3>1, <3>2, NearIsSeen
  <2>5. LeadsTo(index, current, c[target], target) /\ Len(c[target]) \in Nat
    BY <1>2, <1>5
  <2>6. c[target] = <<>> <=> Len(c[target]) = 0
    BY <1>2, <1>5, EmptySeq
  <2>7. IsShortest(index, current, target, c[target])
    <3>1. Len(c[target]) = 0 => current = target
      BY <2>5, <2>6 DEF LeadsTo
    <3>2. Len(c[target]) > 0 => /\ index[c[target][1]].old = current
                                /\ index[c[target][Len(c[target])]].new = target
      BY <2>5, <2>6 DEF LeadsTo
    <3>3. \A i \in 1 .. Len(c[target]) - 1 :
             index[c[target][i]].new = index[c[target][i + 1]].old
      BY <2>5 DEF LeadsTo
    <3> QED BY <2>4, <3>1, <3>2, <3>3 DEF IsShortest
  <2> QED BY <2>2, <2>3, <2>7
<1> QED BY <1>4, <1>5

-----------------------------------------------------------------------------
\* What the archives publish are indices of diffs between revisions.
Revision == [origin : Origins, rev : Nat]
Diff == [old : Revision, new : Revision]
ChainInv == /\ rev \in [Origins -> Nat] /\ diffs \in [Origins -> Seq(Diff)]
            /\ n \in Nat /\ (n = 1 \/ n \in DOMAIN Work)
            /\ pc \in AtItems => n \in DOMAIN Work

LEMMA PublishedDiffs ==
    ASSUME ChainInv, NEW o \in Origins, Publish(o) PROVE ChainInv'
<1> DEFINE to(r) == [old |-> Content(o, r), new |-> Content(o, rev[o] + 1)]
           merged == [r \in 1 .. rev[o] |-> to(r)]
<1>1. /\ rev' = [rev EXCEPT ![o] = @ + 1] /\ UNCHANGED <<pc, n>>
      /\ \E d \in {Append(diffs[o], to(rev[o])), merged, diffs[o] \o merged, <<>>} :
             diffs' = [diffs EXCEPT ![o] = d]
  BY DEF Publish, local
<1>2. rev[o] \in Nat /\ rev' \in [Origins -> Nat] /\ diffs[o] \in Seq(Diff)
  BY <1>1 DEF ChainInv
<1>3. \A r \in Nat : to(r) \in Diff
  BY <1>2 DEF Diff, Revision, Content
<1>4. merged \in Seq(Diff)
  <2>1. merged \in [1 .. rev[o] -> Diff]
    BY <1>2, <1>3
  <2> HIDE DEF merged
  <2> QED BY <1>2, <2>1, FunctionIsSeq
<1>5. to(rev[o]) \in Diff
  BY <1>2, <1>3
<1> HIDE DEF to, merged
<1>6. /\ Append(diffs[o], to(rev[o])) \in Seq(Diff) /\ diffs[o] \o merged \in Seq(Diff)
      /\ <<>> \in Seq(Diff)
  BY <1>2, <1>4, <1>5, AppendProperties, ConcatProperties, EmptySeq
<1>7. diffs' \in [Origins -> Seq(Diff)]
  BY <1>1, <1>4, <1>6 DEF ChainInv
<1> QED BY <1>1, <1>2, <1>7 DEF ChainInv

LEMMA ChainStep == ASSUME ChainInv, [UpdateNext]_updateVars PROVE ChainInv'
<1>1. CASE UNCHANGED updateVars
  BY <1>1 DEF ChainInv, updateVars, archive, local
<1>2. CASE Begin
  BY <1>2 DEF ChainInv, Begin, AtItems, archive
<1>3. CASE FetchRelease
  <2>1. Work # <<>> /\ n = 1 => n \in DOMAIN Work
    BY WorkFacts, EmptySeq
  <2> QED BY <1>3, <2>1 DEF ChainInv, FetchRelease, AtItems, archive
<1>4. CASE Obtain
  BY <1>4 DEF ChainInv, Obtain, ChooseFull, ChooseCached, FetchDiffIndex, FetchPatch,
              FetchFull, AtItems, archive
<1>5. CASE Truncate
  BY <1>5 DEF ChainInv, Truncate, AtItems, archive, local
<1>6. CASE Write
  <2>1. n < Len(Work) /\ n \in DOMAIN Work => n + 1 \in DOMAIN Work
    BY WorkFacts
  <2> QED BY <1>6, <2>1 DEF ChainInv, Write, AtItems, archive
<1>7. CASE Stop
  BY <1>7 DEF ChainInv, Stop, AtItems, archive, local
<1> QED BY <1>1, <1>2, <1>3, <1>4, <1>5, <1>6, <1>7, PublishedDiffs DEF UpdateNext, UpdateStep

-----------------------------------------------------------------------------
(* The theorems.                                                            *)

\* If no two indices go to one file, an update that is done has brought the
\* file of every item up to date: it is of its own archive, no older than what
\* that published when update was called and than what its Release lists.
THEOREM UpdatesAreFresh ==
    ASSUME OneIndexPerFile PROVE UpdateSpec => []DoneIsFresh
<1>1. FreshInv /\ [UpdateNext]_updateVars => FreshInv'
  BY FreshNext
<1>2. FreshInv => DoneIsFresh
  BY DEF FreshInv
<1> QED BY <1>1, <1>2, FreshInit, PTL DEF UpdateSpec

\* And one that failed at an item has brought those before it up to date and
\* has not touched the files of those after it.
THEOREM FailuresArePrefixes ==
    ASSUME OneIndexPerFile PROVE UpdateSpec => []FailedIsPrefix
<1>1. FreshInv /\ [UpdateNext]_updateVars => FreshInv'
  BY FreshNext
<1>2. FreshInv => FailedIsPrefix
  BY DEF FreshInv, FreshBefore, LeftAlone, FailedIsPrefix
<1> QED BY <1>1, <1>2, FreshInit, PTL DEF UpdateSpec

\* And so the diffs that update applies lead from the file in the cache to what
\* the Release lists, no fewer do, and none do if the search finds none.
THEOREM ChainsOfUpdateAreShortest == UpdateSpec => []ChainIsShortest
<1>1. UpdateInit => ChainInv
  <2> SUFFICES ASSUME UpdateInit PROVE ChainInv
    OBVIOUS
  <2>1. diffs \in [Origins -> Seq(Diff)]
    BY EmptySeq DEF UpdateInit
  <2> QED BY <2>1 DEF UpdateInit, ChainInv, AtItems
<1>2. ChainInv /\ [UpdateNext]_updateVars => ChainInv'
  BY ChainStep
<1>3. ChainInv => ChainIsShortest
  <2> SUFFICES ASSUME ChainInv, pc = "item" PROVE ChainIsShortest
    BY DEF ChainIsShortest
  <2>1. Origin(Item) \in Origins
    BY DEF ChainInv, AtItems, Item, Origins
  <2>2. diffs[Origin(Item)] \in Seq(Diff)
    BY <2>1 DEF ChainInv
  <2>3. PICK index, current, target, found :
           /\ index = diffs[Origin(Item)] /\ current = cache[File]
           /\ target = CHOOSE t \in Target : TRUE
           /\ found = ResolveChain(index, current, target)
    OBVIOUS
  <2>4. IsIndex(index)
    BY <2>2, <2>3, LenProperties DEF IsIndex
  <2>5. /\ found = {} => target \notin Reached(index, current, MaxPublish)
        /\ \A p \in found : IsShortest(index, current, target, p)
    BY <2>3, <2>4, ChainsAreShortest, UpdateAssumption
  <2> QED BY <2>3, <2>5 DEF ChainIsShortest
<1> QED BY <1>1, <1>2, <1>3, PTL DEF UpdateSpec
=============================================================================
