--------------------------- MODULE AptInstallProofs ---------------------------
(***************************************************************************)
(* Theorems about AptInstall, for every archive, every set of cached       *)
(* files, torn or whole, and any number of calls; and about the difference *)
(* of any two packages.                                                    *)
(***************************************************************************)
EXTENDS AptInstall, Differences, TLAPS, SequenceTheorems, FiniteSetTheorems, NaturalsInduction, WellFoundedInduction

-----------------------------------------------------------------------------
(* The inductive invariant.                                                *)

\* What load_index can see: an entry of an archive, or one cut before its
\* Filename.
IsWhole(p) == \E i \in DOMAIN Indices : \E j \in DOMAIN Indices[i] : p = Indices[i][j]
Listing    == {p \in Entry : p.filename = {} \/ IsWhole(p)}

InLoop == pc \in {"download", "unpack", "configure"}

InstallTypes ==
    /\ index \in Seq(Listing) /\ plan \in Seq(Listing) /\ installed \in Seq(Name)
    /\ k \in Nat \ {0}
    /\ InLoop => ~asked.dryRun /\ k \in DOMAIN plan
    /\ pc \in {"idle", "resolve"} => plan = Empty
    /\ (plan = Empty \/ asked.dryRun) => k = 1

\* The plan is a selection: one version of each name, dependencies included.
OnePerName == \A i, j \in DOMAIN plan : plan[i].name = plan[j].name => i = j
PlanIsClosed ==
    \E m \in SUBSET DOMAIN index :
        /\ DependsMet(index, m)
        /\ \A i \in DOMAIN plan : \E v \in m : plan[i] = index[v]
        /\ \A v \in m : \E i \in DOMAIN plan : plan[i] = index[v]

\* The packages whose directory this call may have written to.
Touched(n) == \E i \in DOMAIN plan : /\ plan[i].name = n
                                     /\ i < k \/ (i = k /\ pc # "download")
LeftAlone ==
    /\ DOMAIN before \subseteq DOMAIN dirs
    /\ (pc \in {"idle", "resolve"} \/ asked.dryRun) => dirs = before
    /\ \A n \in DOMAIN dirs : ~Touched(n) => n \in DOMAIN before /\ dirs[n] = before[n]

\* What is written outside of a directory is not in it.
Inside == \A n \in DOMAIN dirs : \A p \in DOMAIN dirs[n] : p \notin Beyond

\* The entries up to s of archive d are in the directory of n as the archive
\* has them, over what was there before and nothing else.
StayAt(d, s)  == {j \in 1 .. s : Stays(Debs[d][j])}
PathsTo(d, s)   == {Debs[d][j].path : j \in StayAt(d, s)}
IsUnpacked(n, d, s) ==
    /\ DOMAIN dirs[n] = DOMAIN Old(n) \cup PathsTo(d, s)
    /\ \A j \in StayAt(d, s) : dirs[n][Debs[d][j].path] = Unpacked(d, Debs[d][j])
    /\ \A p \in DOMAIN Old(n) \ PathsTo(d, s) : dirs[n][p] = Old(n)[p]

\* No file of it is at the path of an older link.
Apart(n, d) == \A j \in DOMAIN Debs[d] :
    Stays(Debs[d][j]) /\ Debs[d][j].link = {} /\ Debs[d][j].path \in DOMAIN Old(n)
        => Old(n)[Debs[d][j].path].link = {}
HasAll(n)   == /\ n \in DOMAIN dirs
               /\ \A d \in Deb(n) : Apart(n, d) => IsUnpacked(n, d, Len(Debs[d]))

\* The packages before k, with the one at k from some point on.
Passed(i, states) == i \in DOMAIN plan /\ ~asked.dryRun /\ (i < k \/ (i = k /\ pc \in states))

WholeBefore ==
    \A i \in DOMAIN plan : Passed(i, {"configure", "done"}) => HasAll(plan[i].name)

\* The package at k: the entries up to s are there.
IsLeft(d, s) == /\ rest \in Seq(DebEntry) /\ Len(rest) = Len(Debs[d]) - s
                /\ \A j \in 1 .. Len(rest) : rest[j] = Debs[d][s + j]
UnderWay ==
    pc = "unpack" =>
        /\ Current \in DOMAIN dirs
        /\ \E d \in Deb(Current) : \E s \in 0 .. Len(Debs[d]) :
             IsLeft(d, s) /\ (Apart(Current, d) => IsUnpacked(Current, d, s))

Downloaded ==
    \A i \in DOMAIN plan : Passed(i, {"unpack", "configure", "done"}) => Deb(plan[i].name) # {}
InstalledSoFar ==
    ~asked.dryRun =>
        /\ \A i \in DOMAIN installed : \E j \in DOMAIN plan :
               Passed(j, {"done"}) /\ installed[i] = plan[j].name
        /\ \A j \in DOMAIN plan : Passed(j, {"done"}) =>
               \E i \in DOMAIN installed : installed[i] = plan[j].name
DoneIsAll == (pc = "done" /\ ~asked.dryRun) => \A i \in DOMAIN plan : i <= k

\* No archive has two files or links at one path.
OneFilePerPath ==
    \A d \in DOMAIN Debs : \A i, j \in StayAt(d, Len(Debs[d])) :
        Debs[d][i].path = Debs[d][j].path => i = j

-----------------------------------------------------------------------------
(* What load_index returns.                                                *)

\* Induction over the turns of a loop, from the least element of what is left.
LEMMA Induction ==
    ASSUME NEW last \in Nat, NEW G, 0 \in G,
           \A i \in 0 .. last - 1 : i \in G => i + 1 \in G
    PROVE  0 .. last \subseteq G
<1> DEFINE Below == OpToRel(<, Nat)
           Bad   == (0 .. last) \ G
<1>1. IsWellFoundedOn(Below, Nat)
  BY NatLessThanWellFounded
<1>2. \A a, b \in Nat : a < b => <<a, b>> \in Below
  BY DEF OpToRel
<1>3. Bad # {} => \E m \in Bad : \A i \in Bad : ~(<<i, m>> \in Below)
  <2>1. Bad \subseteq Nat
    OBVIOUS
  <2> QED BY <1>1, <2>1, WFMin
<1> HIDE DEF Below
<1>4. ASSUME NEW m \in Bad, \A i \in Bad : ~(<<i, m>> \in Below) PROVE FALSE
  <2>1. m \in Nat /\ m # 0 /\ m - 1 \in 0 .. last - 1 /\ m - 1 \in Nat
    BY <1>4
  <2>2. <<m - 1, m>> \in Below
    BY <1>2, <2>1
  <2>3. m - 1 \in G
    BY <1>4, <2>1, <2>2
  <2> QED BY <1>4, <2>1, <2>3
<1> QED BY <1>3, <1>4

\* The least of a set of positions.
LEMMA LeastExists ==
    ASSUME NEW S \in SUBSET Nat, S # {}
    PROVE  \E i \in S : \A j \in S : i <= j
<1> DEFINE Below == OpToRel(<, Nat)
<1>1. IsWellFoundedOn(Below, Nat)
  BY NatLessThanWellFounded
<1>2. \A a, b \in Nat : a < b => <<a, b>> \in Below
  BY DEF OpToRel
<1>3. \E m \in S : \A i \in S : ~(<<i, m>> \in Below)
  <2> HIDE DEF Below
  <2> QED BY <1>1, WFMin
<1> HIDE DEF Below
<1>4. PICK m \in S : \A i \in S : ~(<<i, m>> \in Below)
  BY <1>3
<1>5. ASSUME NEW i \in S PROVE m <= i
  <2>1. m \in Nat /\ i \in Nat /\ ~(i < m)
    BY <1>2, <1>4
  <2> QED BY <2>1
<1> QED BY <1>4, <1>5

LEMMA FunctionIsSeq ==
    ASSUME NEW S, NEW size \in Nat, NEW f \in [1 .. size -> S]
    PROVE  f \in Seq(S) /\ Len(f) = size /\ DOMAIN f = 1 .. size
OBVIOUS

\* The types of the cached files.
LEMMA IndicesFacts ==
    /\ Len(Indices) \in Nat /\ DOMAIN Indices = 1 .. Len(Indices)
    /\ \A i \in DOMAIN Indices :
         /\ Indices[i] \in Seq(Entry) /\ Indices[i] \in Seq(Listing)
         /\ \A j \in DOMAIN Indices[i] : AtMostOne(Indices[i][j].filename)
<1>1. Indices \in Seq(Seq(Entry))
  BY InstallAssumption
<1>2. Len(Indices) \in Nat /\ DOMAIN Indices = 1 .. Len(Indices)
  BY <1>1, LenProperties
<1>3. ASSUME NEW i \in DOMAIN Indices
      PROVE  /\ Indices[i] \in Seq(Entry) /\ Indices[i] \in Seq(Listing)
             /\ \A j \in DOMAIN Indices[i] : AtMostOne(Indices[i][j].filename)
  <2>1. Indices[i] \in Seq(Entry)
    BY <1>1, <1>2, <1>3, ElementOfSeq
  <2>2. /\ Indices[i] \in [1 .. Len(Indices[i]) -> Entry] /\ Len(Indices[i]) \in Nat
        /\ DOMAIN Indices[i] = 1 .. Len(Indices[i])
    BY <2>1, LenProperties
  <2>3. \A j \in DOMAIN Indices[i] : Indices[i][j] \in Listing
    BY <1>3, <2>2 DEF Listing, IsWhole
  <2>4. Indices[i] \in [1 .. Len(Indices[i]) -> Listing]
    BY <2>2, <2>3
  <2>5. Indices[i] \in Seq(Listing)
    BY <2>2, <2>4, FunctionIsSeq
  <2>6. Indices[i] \in ToSet(Indices) /\ \A j \in DOMAIN Indices[i] : Indices[i][j] \in ToSet(Indices[i])
    BY <1>3 DEF ToSet
  <2> QED BY <2>1, <2>5, <2>6, InstallAssumption
<1> QED BY <1>2, <1>3

\* A listing names one file at most.
LEMMA ListingFacts ==
    ASSUME NEW p \in Listing
    PROVE  /\ AtMostOne(p.filename) /\ p.name \in Name
           /\ p.depends \in SUBSET DependencyGroup
<1>1. p.name \in Name /\ p.depends \in SUBSET DependencyGroup
  BY DEF Listing, Entry
<1>2. CASE p.filename = {}
  BY <1>1, <1>2 DEF AtMostOne
<1>3. CASE IsWhole(p)
  BY <1>1, <1>3, IndicesFacts DEF IsWhole
<1> QED BY <1>2, <1>3 DEF Listing

\* What is read of a file, torn or whole.
LEMMA ReadIsListing ==
    ASSUME NEW i \in DOMAIN Indices, NEW x \in Read(i)
    PROVE  x \in Seq(Listing)
<1> DEFINE f == Indices[i]
<1>1. /\ f \in Seq(Entry) /\ f \in Seq(Listing) /\ Len(f) \in Nat /\ DOMAIN f = 1 .. Len(f)
      /\ \A j \in 1 .. Len(f) : f[j] \in Listing /\ f[j] \in Entry
  BY IndicesFacts, LenProperties
<1> HIDE DEF f
<1>2. \A j \in 0 .. Len(f) : SubSeq(f, 1, j) \in Seq(Listing)
  BY <1>1, SubSeqProperties
<1>3. ASSUME NEW j \in DOMAIN f, NEW d \in UNION {SUBSET p.depends : p \in ToSet(f)}
      PROVE  Append(SubSeq(f, 1, j - 1), Cut(f[j], d))
                \in Seq(Listing)
  <2>1. d \in SUBSET DependencyGroup
    <3>1. PICK p \in ToSet(f) : d \in SUBSET p.depends
      BY <1>3
    <3>2. p \in Entry
      BY <1>1 DEF ToSet
    <3> QED BY <3>1, <3>2 DEF Entry
  <2>2. Cut(f[j], d) \in Listing
    <3>1. f[j] \in Entry
      BY <1>1
    <3> QED BY <2>1, <3>1 DEF Listing, Entry, Cut
  <2>3. SubSeq(f, 1, j - 1) \in Seq(Listing)
    BY <1>1, <1>2
  <2> HIDE DEF Listing
  <2> QED BY <2>2, <2>3, AppendProperties
<1>4. x = f \/ x \in Torn(f)
  BY DEF Read, f
<1>5. Torn(f) \subseteq Seq(Listing)
  <2> SUFFICES ASSUME NEW t \in Torn(f) PROVE t \in Seq(Listing)
    OBVIOUS
  <2>1. CASE t \in {SubSeq(f, 1, j) : j \in 0 .. Len(f)}
    BY <1>2, <2>1
  <2>2. CASE t \in UNION {CutAt(f, j) : j \in DOMAIN f}
    <3>1. PICK j \in DOMAIN f : t \in CutAt(f, j)
      BY <2>2
    <3> QED BY <1>3, <3>1 DEF CutAt
  <2> QED BY <2>1, <2>2 DEF Torn
<1> QED BY <1>1, <1>4, <1>5

\* The loop of FlattenSeq, its first m turns.
FlatBody(f, seqs, m) ==
    [i \in 1 .. m |-> IF i = 1 THEN seqs[i] ELSE f[i - 1] \o seqs[i]]
FlatRun(seqs, m) == CHOOSE f : f = FlatBody(f, seqs, m)

LEMMA FlatRuns ==
    ASSUME NEW seqs, NEW m \in Nat
    PROVE  FlatRun(seqs, m) = FlatBody(FlatRun(seqs, m), seqs, m)
<1> DEFINE G == {t \in 0 .. m : \E f : f = FlatBody(f, seqs, t)}
<1>1. 0 \in G
  <2>1. [i \in 1 .. 0 |-> <<>>] = FlatBody([i \in 1 .. 0 |-> <<>>], seqs, 0)
    BY DEF FlatBody
  <2> QED BY <2>1
<1>2. ASSUME NEW t \in 0 .. m - 1, t \in G PROVE t + 1 \in G
  <2>1. PICK f : f = FlatBody(f, seqs, t)
    BY <1>2
  <2> DEFINE g == [i \in 1 .. t + 1 |-> IF i = 1 THEN seqs[i] ELSE f[i - 1] \o seqs[i]]
  <2>2. \A i \in 1 .. t : g[i] = f[i]
    <3>1. \A i \in 1 .. t : g[i] = FlatBody(f, seqs, t)[i]
      BY DEF FlatBody
    <3> QED BY <2>1, <3>1, Zenon
  <2>3. \A i \in 1 .. t + 1 : i # 1 => i - 1 \in 1 .. t
    OBVIOUS
  <2>4. g = FlatBody(g, seqs, t + 1)
    BY <2>2, <2>3 DEF FlatBody
  <2> QED BY <2>4
<1>3. m \in G
  <2>1. \A t \in 0 .. m - 1 : t \in G => t + 1 \in G
    BY <1>2
  <2> HIDE DEF G
  <2> QED BY <1>1, <2>1, Induction
<1> QED BY <1>3 DEF FlatRun

LEMMA FlatSteps ==
    ASSUME NEW seqs, Len(seqs) \in Nat \ {0}
    PROVE  LET f == FlatRun(seqs, Len(seqs)) IN
           /\ FlattenSeq(seqs) = f[Len(seqs)]
           /\ f[1] = seqs[1]
           /\ \A t \in 1 .. Len(seqs) - 1 : f[t + 1] = f[t] \o seqs[t + 1]
<1> DEFINE m == Len(seqs)
           f == FlatRun(seqs, m)
           b == FlatBody(f, seqs, m)
<1>1. f = b /\ m \in Nat \ {0}
  BY FlatRuns
<1>2. FlattenSeq(seqs) = f[m]
  BY <1>1 DEF FlattenSeq, FlatRun, FlatBody
<1>3. b[1] = seqs[1]
  BY <1>1 DEF FlatBody
<1>4. ASSUME NEW t \in 1 .. m - 1 PROVE b[t + 1] = f[t] \o seqs[t + 1]
  <2>1. t + 1 \in 1 .. m /\ t + 1 # 1 /\ (t + 1) - 1 = t
    BY <1>1
  <2> HIDE DEF f, m
  <2> QED BY <2>1 DEF FlatBody
<1> HIDE DEF f, b
<1>5. f[1] = seqs[1]
  BY <1>1, <1>3
<1>6. ASSUME NEW t \in 1 .. m - 1 PROVE f[t + 1] = f[t] \o seqs[t + 1]
  BY <1>1, <1>4
<1> QED BY <1>2, <1>5, <1>6 DEF f

\* The files one after the other are a sequence of listings.
LEMMA FlattenedIsListing ==
    ASSUME NEW seqs \in [DOMAIN Indices -> Seq(Listing)]
    PROVE  FlattenSeq(seqs) \in Seq(Listing)
<1> DEFINE m == Len(Indices)
           f == FlatRun(seqs, m)
           G == {t \in 0 .. m : t = 0 \/ f[t] \in Seq(Listing)}
<1>1. m \in Nat /\ DOMAIN Indices = 1 .. m
  BY IndicesFacts
<1>2. Len(seqs) = m /\ DOMAIN seqs = 1 .. m
  <2> HIDE DEF m
  <2>1. seqs \in [1 .. m -> Seq(Listing)]
    BY <1>1
  <2> QED BY <1>1, <2>1, FunctionIsSeq
<1>3. CASE m = 0
  <2>1. seqs = <<>>
    BY <1>1, <1>2, <1>3
  <2>2. FlattenSeq(seqs) = seqs
    BY <1>2, <1>3 DEF FlattenSeq
  <2> QED BY <2>1, <2>2, EmptySeq
<1>4. CASE m # 0
  <2>1. /\ FlattenSeq(seqs) = f[m] /\ f[1] = seqs[1]
        /\ \A t \in 1 .. m - 1 : f[t + 1] = f[t] \o seqs[t + 1]
    <3> HIDE DEF f, m
    <3>1. Len(seqs) \in Nat \ {0}
      BY <1>1, <1>2, <1>4
    <3> QED BY <1>2, <3>1, FlatSteps DEF f
  <2> HIDE DEF f
  <2>2. \A t \in 1 .. m : seqs[t] \in Seq(Listing)
    BY <1>1
  <2>3. \A t \in 0 .. m - 1 : t \in G => t + 1 \in G
    <3> SUFFICES ASSUME NEW t \in 0 .. m - 1, t \in G PROVE f[t + 1] \in Seq(Listing)
      BY <1>1
    <3>1. t + 1 \in 1 .. m
      BY <1>1
    <3>2. CASE t = 0
      BY <2>1, <2>2, <3>1, <3>2
    <3>3. CASE t # 0
      <4>1. t \in 1 .. m - 1 /\ f[t] \in Seq(Listing)
        BY <1>1, <3>3
      <4>2. f[t + 1] = f[t] \o seqs[t + 1] /\ seqs[t + 1] \in Seq(Listing)
        BY <2>1, <2>2, <3>1, <4>1
      <4> QED BY <4>1, <4>2, ConcatProperties
    <3> QED BY <3>2, <3>3
  <2>4. 0 \in G
    BY <1>1
  <2>5. m \in G
    <3> HIDE DEF G, m
    <3>1. 0 .. m \subseteq G
      BY <1>1, <2>3, <2>4, Induction
    <3> QED BY <1>1, <3>1
  <2> QED BY <1>4, <2>1, <2>5
<1> QED BY <1>3, <1>4

LEMMA LoadedIsListing ==
    ASSUME NEW r, Load(r) PROVE index' \in Seq(Listing)
<1>1. PICK files \in [DOMAIN Indices -> UNION {Read(i) : i \in DOMAIN Indices}] :
         index' = FlattenSeq(files)
  BY DEF Load
<1>2. files \in [DOMAIN Indices -> Seq(Listing)]
  BY ReadIsListing
<1> QED BY <1>1, <1>2, FlattenedIsListing

-----------------------------------------------------------------------------
(* The plan: the packages of a selection in the order of the index.        *)

PlanTo(f, m, j) ==
    [i \in 0 .. j |->
        IF i = 0 THEN Empty ELSE IF i \in m THEN Append(f[i - 1], index[i]) ELSE f[i - 1]]
PlanRun(m) == CHOOSE f : f = PlanTo(f, m, Len(index))

\* What the plan is after the package at position j was looked at.
PlanUpTo(s, m, j) ==
    /\ s \in Seq(Listing)
    /\ \A a \in DOMAIN s : \E v \in m : v <= j /\ s[a] = index[v]
    /\ \A v \in m : v <= j => \E a \in DOMAIN s : s[a] = index[v]
    /\ \A a, b \in DOMAIN s : a < b => \E v, w \in m : v < w /\ w <= j /\ s[a] = index[v] /\ s[b] = index[w]

LEMMA PlanRuns ==
    ASSUME Len(index) \in Nat, NEW m
    PROVE  PlanRun(m) = PlanTo(PlanRun(m), m, Len(index))
<1> DEFINE G == {t \in 0 .. Len(index) : \E f : f = PlanTo(f, m, t)}
<1>1. 0 \in G
  <2>1. [i \in 0 .. 0 |-> Empty] = PlanTo([i \in 0 .. 0 |-> Empty], m, 0)
    BY DEF PlanTo
  <2> QED BY <2>1
<1>2. ASSUME NEW t \in 0 .. Len(index) - 1, t \in G PROVE t + 1 \in G
  <2>1. PICK f : f = PlanTo(f, m, t)
    BY <1>2
  <2> DEFINE g == PlanTo(f, m, t + 1)
  <2>2. \A i \in 0 .. t : g[i] = f[i]
    <3>1. \A i \in 0 .. t : g[i] = PlanTo(f, m, t)[i]
      BY DEF PlanTo
    <3> QED BY <2>1, <3>1, Zenon
  <2>3. \A i \in 0 .. t + 1 : i # 0 => i - 1 \in 0 .. t
    OBVIOUS
  <2>4. g = PlanTo(g, m, t + 1)
    BY <2>2, <2>3 DEF PlanTo
  <2> QED BY <2>4
<1>3. Len(index) \in G
  <2>1. \A t \in 0 .. Len(index) - 1 : t \in G => t + 1 \in G
    BY <1>2
  <2> HIDE DEF G
  <2>2. 0 .. Len(index) \subseteq G
    BY <1>1, <2>1, Induction
  <2> QED BY <2>2
<1> QED BY <1>3 DEF PlanRun

LEMMA PlanSteps ==
    ASSUME Len(index) \in Nat, NEW m
    PROVE  LET f == PlanRun(m) IN
           /\ Planned(m) = f[Len(index)]
           /\ f[0] = Empty
           /\ \A t \in 0 .. Len(index) - 1 :
                 f[t + 1] = IF t + 1 \in m THEN Append(f[t], index[t + 1]) ELSE f[t]
<1> DEFINE f == PlanRun(m)
           b == PlanTo(f, m, Len(index))
<1>1. f = b
  BY PlanRuns
<1>2. Planned(m) = f[Len(index)]
  BY DEF Planned, PlanRun, PlanTo
<1>3. b[0] = Empty
  BY DEF PlanTo
<1>4. ASSUME NEW t \in 0 .. Len(index) - 1
      PROVE  b[t + 1] = IF t + 1 \in m THEN Append(f[t], index[t + 1]) ELSE f[t]
  <2>1. t + 1 \in 0 .. Len(index) /\ t + 1 # 0 /\ (t + 1) - 1 = t
    OBVIOUS
  <2> HIDE DEF f
  <2> QED BY <2>1 DEF PlanTo
<1> HIDE DEF f, b
<1>5. f[0] = Empty
  BY <1>1, <1>3
<1>6. ASSUME NEW t \in 0 .. Len(index) - 1
      PROVE  f[t + 1] = IF t + 1 \in m THEN Append(f[t], index[t + 1]) ELSE f[t]
  BY <1>1, <1>4
<1> QED BY <1>2, <1>5, <1>6 DEF f

\* One more package.
LEMMA PlanGrows ==
    ASSUME index \in Seq(Listing), NEW m \in SUBSET DOMAIN index,
           NEW t \in 0 .. Len(index) - 1, NEW s, PlanUpTo(s, m, t), t + 1 \in m
    PROVE  PlanUpTo(Append(s, index[t + 1]), m, t + 1)
<1> DEFINE q == Append(s, index[t + 1])
<1>1. Len(index) \in Nat /\ t \in Nat /\ t + 1 \in 1 .. Len(index) /\ m \in SUBSET Nat
  BY LenProperties
<1>2. index[t + 1] \in Listing /\ s \in Seq(Listing)
  BY <1>1, ElementOfSeq DEF PlanUpTo
<1>3. /\ q \in Seq(Listing) /\ Len(s) \in Nat /\ DOMAIN s = 1 .. Len(s)
      /\ DOMAIN q = 1 .. Len(s) + 1 /\ q[Len(s) + 1] = index[t + 1]
      /\ \A a \in DOMAIN s : q[a] = s[a]
  <2>1. /\ q \in Seq(Listing) /\ Len(q) = Len(s) + 1 /\ q[Len(s) + 1] = index[t + 1]
        /\ \A a \in 1 .. Len(s) : q[a] = s[a]
    BY <1>2, AppendProperties
  <2>2. Len(s) \in Nat /\ DOMAIN s = 1 .. Len(s) /\ DOMAIN q = 1 .. Len(q)
    BY <1>2, <2>1, LenProperties
  <2> QED BY <2>1, <2>2
<1> HIDE DEF q
<1>4. \A a \in DOMAIN q : (a \in DOMAIN s /\ q[a] = s[a]) \/ (a = Len(s) + 1 /\ q[a] = index[t + 1])
  BY <1>3
<1>5. \A a \in DOMAIN q : \E v \in m : v <= t + 1 /\ q[a] = index[v]
  <2> SUFFICES ASSUME NEW a \in DOMAIN q PROVE \E v \in m : v <= t + 1 /\ q[a] = index[v]
    OBVIOUS
  <2>1. CASE a \in DOMAIN s /\ q[a] = s[a]
    <3>1. PICK v \in m : v <= t /\ s[a] = index[v]
      BY <2>1 DEF PlanUpTo
    <3>2. v \in Nat /\ v <= t + 1
      BY <1>1, <3>1
    <3> QED BY <2>1, <3>1, <3>2
  <2>2. CASE a = Len(s) + 1 /\ q[a] = index[t + 1]
    BY <1>1, <2>2
  <2> QED BY <1>4, <2>1, <2>2
<1>6. \A v \in m : v <= t + 1 => \E a \in DOMAIN q : q[a] = index[v]
  <2> SUFFICES ASSUME NEW v \in m, v <= t + 1 PROVE \E a \in DOMAIN q : q[a] = index[v]
    OBVIOUS
  <2>1. CASE v = t + 1
    BY <1>3, <2>1
  <2>2. CASE v # t + 1
    <3>1. v <= t
      BY <1>1, <2>2
    <3>2. PICK a \in DOMAIN s : s[a] = index[v]
      BY <3>1 DEF PlanUpTo
    <3> QED BY <1>3, <3>2
  <2> QED BY <2>1, <2>2
<1>7. \A a, b \in DOMAIN q : a < b =>
         \E v, w \in m : v < w /\ w <= t + 1 /\ q[a] = index[v] /\ q[b] = index[w]
  <2> SUFFICES ASSUME NEW a \in DOMAIN q, NEW b \in DOMAIN q, a < b
               PROVE  \E v, w \in m : v < w /\ w <= t + 1 /\ q[a] = index[v] /\ q[b] = index[w]
    OBVIOUS
  <2>1. a \in DOMAIN s /\ q[a] = s[a]
    BY <1>3
  <2>2. CASE b \in DOMAIN s /\ q[b] = s[b]
    <3>1. PICK v \in m, w \in m : v < w /\ w <= t /\ s[a] = index[v] /\ s[b] = index[w]
      BY <2>1, <2>2 DEF PlanUpTo
    <3>2. w \in Nat /\ w <= t + 1
      BY <1>1, <3>1
    <3> QED BY <2>1, <2>2, <3>1, <3>2
  <2>3. CASE q[b] = index[t + 1]
    <3>1. PICK v \in m : v <= t /\ s[a] = index[v]
      BY <2>1 DEF PlanUpTo
    <3>2. v \in Nat /\ v < t + 1 /\ t + 1 <= t + 1
      BY <1>1, <3>1
    <3> QED BY <2>1, <2>3, <3>1, <3>2
  <2> QED BY <1>4, <2>2, <2>3
<1> QED BY <1>3, <1>5, <1>6, <1>7 DEF PlanUpTo, q

\* A package that is not selected.
LEMMA PlanStays ==
    ASSUME index \in Seq(Listing), NEW m \in SUBSET DOMAIN index,
           NEW t \in 0 .. Len(index) - 1, NEW s, PlanUpTo(s, m, t), t + 1 \notin m
    PROVE  PlanUpTo(s, m, t + 1)
<1>1. Len(index) \in Nat /\ t \in Nat /\ m \in SUBSET Nat
  BY LenProperties
<1>2. \A v \in m : v <= t <=> v <= t + 1
  BY <1>1
<1> HIDE DEF Listing
<1>3. /\ s \in Seq(Listing)
      /\ \A a \in DOMAIN s : \E v \in m : v <= t + 1 /\ s[a] = index[v]
      /\ \A v \in m : v <= t + 1 => \E a \in DOMAIN s : s[a] = index[v]
  BY <1>2 DEF PlanUpTo
<1>4. \A a, b \in DOMAIN s : a < b => \E v, w \in m : v < w /\ w <= t + 1 /\ s[a] = index[v] /\ s[b] = index[w]
  BY <1>2 DEF PlanUpTo
<1> QED BY <1>3, <1>4 DEF PlanUpTo

LEMMA PlanFacts ==
    ASSUME index \in Seq(Listing), NEW m \in SUBSET DOMAIN index
    PROVE  PlanUpTo(Planned(m), m, Len(index))
<1> DEFINE f == PlanRun(m)
           G == {t \in 0 .. Len(index) : PlanUpTo(f[t], m, t)}
<1>1. Len(index) \in Nat /\ m \in SUBSET (Nat \ {0})
  BY LenProperties
<1>2. /\ Planned(m) = f[Len(index)] /\ f[0] = Empty
      /\ \A t \in 0 .. Len(index) - 1 :
           f[t + 1] = IF t + 1 \in m THEN Append(f[t], index[t + 1]) ELSE f[t]
  BY <1>1, PlanSteps
<1> HIDE DEF f
<1>3. 0 \in G
  <2>1. Empty \in Seq(Listing) /\ DOMAIN Empty = {}
    BY EmptySeq DEF Empty
  <2>2. \A v \in m : ~(v <= 0)
    BY <1>1
  <2>3. PlanUpTo(Empty, m, 0)
    BY <2>1, <2>2 DEF PlanUpTo
  <2> QED BY <1>1, <1>2, <2>3
<1>4. \A t \in 0 .. Len(index) - 1 : t \in G => t + 1 \in G
  <2> SUFFICES ASSUME NEW t \in 0 .. Len(index) - 1, PlanUpTo(f[t], m, t)
               PROVE  PlanUpTo(f[t + 1], m, t + 1)
    BY <1>1
  <2>1. CASE t + 1 \in m
    BY <1>2, <2>1, PlanGrows
  <2>2. CASE t + 1 \notin m
    BY <1>2, <2>2, PlanStays
  <2> QED BY <2>1, <2>2
<1>5. Len(index) \in G
  <2> HIDE DEF G
  <2>1. 0 .. Len(index) \subseteq G
    BY <1>1, <1>3, <1>4, Induction
  <2> QED BY <1>1, <2>1
<1> QED BY <1>2, <1>5

-----------------------------------------------------------------------------
(* Types.                                                                  *)

LEMMA TypesInit == InstallInit => InstallTypes
<1> SUFFICES ASSUME InstallInit PROVE InstallTypes
  OBVIOUS
<1>1. Empty \in Seq(Listing) /\ Empty \in Seq(Name)
  BY EmptySeq DEF Empty
<1> QED BY <1>1 DEF InstallInit, InstallTypes, InLoop

LEMMA TypesLoad ==
    ASSUME InstallTypes, NEW r, Load(r) PROVE InstallTypes'
<1>1. index' \in Seq(Listing)
  BY LoadedIsListing
<1>2. Empty \in Seq(Listing) /\ Empty \in Seq(Name)
  BY EmptySeq DEF Empty
<1> QED BY <1>1, <1>2 DEF InstallTypes, InLoop, Load

LEMMA TypesResolve ==
    ASSUME InstallTypes, Resolve PROVE InstallTypes'
<1>1. index \in Seq(Listing) /\ plan = Empty /\ installed \in Seq(Name) /\ k = 1
  BY DEF InstallTypes, Resolve
<1>2. plan' \in Seq(Listing)
  <2>1. CASE \E m \in SUBSET DOMAIN index : plan' = Planned(m)
    BY <1>1, <2>1, PlanFacts DEF PlanUpTo
  <2>2. CASE plan' = plan
    BY <2>2 DEF InstallTypes
  <2> QED BY <2>1, <2>2 DEF Resolve
<1>3. Len(plan') \in Nat /\ DOMAIN plan' = 1 .. Len(plan') /\ \A i \in DOMAIN plan' : plan'[i] \in Listing
  BY <1>2, LenProperties, ElementOfSeq
<1>4. installed' \in Seq(Name)
  <2>1. CASE installed' = installed
    BY <1>1, <2>1
  <2>2. CASE installed' = [i \in DOMAIN plan' |-> plan'[i].name]
    <3>1. \A i \in DOMAIN plan' : plan'[i].name \in Name
      BY <1>3, ListingFacts
    <3>2. installed' \in [1 .. Len(plan') -> Name]
      BY <1>3, <2>2, <3>1
    <3> QED BY <1>3, <3>2, FunctionIsSeq
  <2> QED BY <2>1, <2>2 DEF Resolve
<1>5. plan' # Empty => 1 \in DOMAIN plan'
  BY <1>2, <1>3, EmptySeq DEF Empty
<1> QED BY <1>1, <1>2, <1>4, <1>5 DEF InstallTypes, InLoop, Resolve

LEMMA TypesCarry ==
    ASSUME InstallTypes, Carry PROVE InstallTypes'
<1>1. /\ UNCHANGED <<index, asked, plan>> /\ InLoop /\ k \in DOMAIN plan /\ ~asked.dryRun
      /\ plan \in Seq(Listing) /\ installed \in Seq(Name) /\ k \in Nat \ {0}
      /\ index \in Seq(Listing) /\ plan # Empty
  <2>1. UNCHANGED <<index, asked, plan>> /\ InLoop
    BY DEF Carry, Download, Unpack, Configure, InLoop
  <2>2. k \in DOMAIN plan => plan # Empty
    BY DEF Empty
  <2> QED BY <2>1, <2>2 DEF InstallTypes
<1>2. Len(plan) \in Nat /\ DOMAIN plan = 1 .. Len(plan)
  BY <1>1, LenProperties
<1>3. CASE Download
  BY <1>1, <1>3 DEF InstallTypes, InLoop, Download, Fail
<1>4. CASE Unpack
  BY <1>1, <1>4 DEF InstallTypes, InLoop, Unpack, Fail
<1>5. CASE Configure
  <2>1. Current \in Name
    BY <1>1, <1>2, ElementOfSeq, ListingFacts DEF Current
  <2>2. installed' \in Seq(Name)
    BY <1>1, <1>5, <2>1, AppendProperties DEF Configure
  <2>3. k' \in DOMAIN plan /\ k' \in Nat \ {0} /\ pc' \in {"download", "done"}
    BY <1>1, <1>2, <1>5 DEF Configure
  <2> QED BY <1>1, <2>2, <2>3 DEF InstallTypes, InLoop
<1> QED BY <1>3, <1>4, <1>5 DEF Carry

-----------------------------------------------------------------------------
(* Directories that a call leaves alone.                                   *)

LEMMA LeftInit == InstallInit => LeftAlone
BY DEF InstallInit, LeftAlone

\* What a step of the loop over the plan does to the directories.
LEMMA WritesToCurrent ==
    ASSUME InstallTypes, Carry
    PROVE  /\ DOMAIN dirs \subseteq DOMAIN dirs'
           /\ \A n \in DOMAIN dirs' : n # Current => n \in DOMAIN dirs /\ dirs'[n] = dirs[n]
           /\ pc' # "unpack" => dirs' = dirs
<1>1. CASE UNCHANGED dirs
  BY <1>1
<1>2. CASE pc' = "unpack" /\ CreateDir
  BY <1>2 DEF CreateDir, Insert
<1>3. CASE pc' = "unpack" /\ \E x : dirs' = [dirs EXCEPT ![Current] = x]
  BY <1>3
<1> QED BY <1>1, <1>2, <1>3 DEF Carry, Download, Unpack, Configure, Fail

LEMMA LeftStep ==
    ASSUME InstallTypes, LeftAlone, InstallNext PROVE LeftAlone'
<1>1. CASE \E r \in Requests : Load(r)
  BY <1>1 DEF Load, LeftAlone
<1>2. CASE Resolve
  BY <1>2 DEF Resolve, LeftAlone
<1>3. CASE Carry
  <2>1. /\ UNCHANGED <<asked, plan, before>> /\ ~asked.dryRun /\ k \in DOMAIN plan
        /\ k \in Nat /\ plan \in Seq(Listing) /\ pc' \notin {"idle", "resolve"}
    BY <1>3 DEF InstallTypes, InLoop, Carry, Download, Unpack, Configure, Fail
  <2>2. DOMAIN plan \subseteq Nat
    BY <2>1, LenProperties
  <2>3. \A n : Touched(n) => Touched(n)'
    <3> SUFFICES ASSUME NEW n, Touched(n) PROVE Touched(n)'
      OBVIOUS
    <3>1. PICK i \in DOMAIN plan : plan[i].name = n /\ (i < k \/ (i = k /\ pc # "download"))
      BY DEF Touched
    <3>2. i \in Nat
      BY <2>2
    <3>3. (k' = k /\ (pc # "download" => pc' # "download")) \/ (k' = k + 1)
      BY <1>3, <2>1 DEF Carry, Download, Unpack, Configure, Fail
    <3>4. i < k' \/ (i = k' /\ pc' # "download")
      BY <2>1, <3>1, <3>2, <3>3
    <3> QED BY <2>1, <3>1, <3>4 DEF Touched
  <2>4. ASSUME NEW n \in DOMAIN dirs', ~Touched(n)'
        PROVE  n \in DOMAIN dirs /\ dirs'[n] = dirs[n]
    <3>1. CASE pc' = "unpack"
      <4>1. k' = k
        BY <1>3, <3>1 DEF Carry, Download, Unpack, Configure, Fail
      <4>2. n # Current
        BY <2>1, <2>4, <3>1, <4>1 DEF Touched, Current
      <4> QED BY <1>3, <4>2, WritesToCurrent
    <3>2. CASE pc' # "unpack"
      BY <1>3, <3>2, WritesToCurrent
    <3> QED BY <3>1, <3>2
  <2>5. DOMAIN before' \subseteq DOMAIN dirs'
    BY <1>3, <2>1, WritesToCurrent DEF LeftAlone
  <2>6. \A n \in DOMAIN dirs' : ~Touched(n)' => n \in DOMAIN before' /\ dirs'[n] = before'[n]
    BY <2>1, <2>3, <2>4 DEF LeftAlone
  <2> QED BY <2>1, <2>5, <2>6 DEF LeftAlone
<1> QED BY <1>1, <1>2, <1>3 DEF InstallNext

-----------------------------------------------------------------------------
(* The plan is a selection, and what is downloaded for it.                 *)

\* The entry that install downloads for a name is one it has read.
LEMMA ListedFacts ==
    ASSUME index \in Seq(Listing), NEW v \in DOMAIN index, NEW n, n = index[v].name
    PROVE  /\ \E i \in DOMAIN index : /\ Listed(n) = index[i] /\ index[i].name = n
                                      /\ \A j \in DOMAIN index : index[j].name = n => i <= j
           /\ Listed(n) \in Listing /\ AtMostOne(Deb(n))
<1>1. /\ Named(index, n) \in SUBSET Nat /\ Named(index, n) # {}
      /\ \A i \in DOMAIN index : index[i] \in Listing
  BY LenProperties DEF Named
<1>2. \E i \in Named(index, n) : \A j \in Named(index, n) : i <= j
  BY <1>1, LeastExists
<1>3. \E i \in Named(index, n) : Listed(n) = index[i] /\ \A j \in Named(index, n) : i <= j
  BY <1>2 DEF Listed
<1>4. \E i \in DOMAIN index : /\ Listed(n) = index[i] /\ index[i].name = n
                              /\ \A j \in DOMAIN index : index[j].name = n => i <= j
  BY <1>3 DEF Named
<1>5. Listed(n) \in Listing
  BY <1>1, <1>4
<1>6. AtMostOne(Listed(n).filename) /\ AtMostOne(Source)
  BY <1>5, ListingFacts, InstallAssumption
<1>7. AtMostOne(Deb(n))
  BY <1>6 DEF AtMostOne, Deb
<1> QED BY <1>4, <1>5, <1>7

LEMMA SelectionInit == InstallInit => OnePerName /\ PlanIsClosed
<1> SUFFICES ASSUME InstallInit PROVE OnePerName /\ PlanIsClosed
  OBVIOUS
<1>1. DOMAIN plan = {} /\ DependsMet(index, {})
  BY DEF InstallInit, Empty, DependsMet
<1> QED BY <1>1 DEF OnePerName, PlanIsClosed

LEMMA SelectionStep ==
    ASSUME InstallTypes, OnePerName, PlanIsClosed, InstallNext
    PROVE  OnePerName' /\ PlanIsClosed'
<1>1. CASE \E r \in Requests : Load(r)
  <2>1. DOMAIN plan' = {} /\ DependsMet(index', {})
    BY <1>1 DEF Load, Empty, DependsMet
  <2> QED BY <2>1 DEF OnePerName, PlanIsClosed
<1>2. CASE Resolve
  <2>1. CASE UNCHANGED plan
    BY <1>2, <2>1 DEF Resolve, OnePerName, PlanIsClosed
  <2>2. CASE \E m \in SUBSET DOMAIN index :
               Consistent(index, asked.packages, m) /\ plan' = Planned(m)
    <3>1. PICK m \in SUBSET DOMAIN index :
             Consistent(index, asked.packages, m) /\ plan' = Planned(m)
      BY <2>2
    <3>2. /\ index' = index /\ index \in Seq(Listing) /\ m \in SUBSET Nat
          /\ DOMAIN index = 1 .. Len(index) /\ Len(index) \in Nat
      BY <1>2, LenProperties DEF Resolve, InstallTypes
    <3>3. PlanUpTo(plan', m, Len(index))
      BY <3>1, <3>2, PlanFacts
    <3>4. \A v \in m : v <= Len(index) /\ v \in Nat
      BY <3>2
    <3>5. PlanIsClosed'
      <4>1. DependsMet(index, m)
        BY <3>1 DEF Consistent
      <4>2. \A i \in DOMAIN plan' : \E v \in m : plan'[i] = index[v]
        BY <3>3 DEF PlanUpTo
      <4>3. \A v \in m : \E i \in DOMAIN plan' : plan'[i] = index[v]
        BY <3>3, <3>4 DEF PlanUpTo
      <4> QED BY <3>2, <4>1, <4>2, <4>3 DEF PlanIsClosed
    <3>6. OnePerName'
      <4>1. DOMAIN plan' \subseteq Nat
        BY <3>3, LenProperties DEF PlanUpTo
      <4>2. \A i, j \in DOMAIN plan' : i < j => plan'[i].name # plan'[j].name
        <5> SUFFICES ASSUME NEW i \in DOMAIN plan', NEW j \in DOMAIN plan', i < j,
                            plan'[i].name = plan'[j].name
                     PROVE  FALSE
          OBVIOUS
        <5>1. PICK v \in m, w \in m : v < w /\ plan'[i] = index[v] /\ plan'[j] = index[w]
          BY <3>3 DEF PlanUpTo
        <5>2. v = w
          BY <3>1, <5>1 DEF Consistent, OneVersionEach
        <5> QED BY <3>2, <5>1, <5>2
      <4>3. \A i, j \in DOMAIN plan' : i = j \/ i < j \/ j < i
        BY <4>1
      <4> QED BY <4>2, <4>3 DEF OnePerName
    <3> QED BY <3>5, <3>6
  <2> QED BY <1>2, <2>1, <2>2 DEF Resolve
<1>3. CASE Carry
  BY <1>3 DEF Carry, Download, Unpack, Configure, OnePerName, PlanIsClosed
<1> QED BY <1>1, <1>2, <1>3 DEF InstallNext

\* A package of the plan: its name is in the index, and at most one archive
\* is downloaded for it.
LEMMA PlannedFacts ==
    ASSUME InstallTypes, PlanIsClosed, NEW i \in DOMAIN plan
    PROVE  /\ \E v \in DOMAIN index : plan[i].name = index[v].name
           /\ AtMostOne(Deb(plan[i].name)) /\ Listed(plan[i].name) \in Listing
<1>1. PICK v \in DOMAIN index : plan[i] = index[v]
  BY DEF PlanIsClosed
<1> QED BY <1>1, ListedFacts DEF InstallTypes

\* How the loop over the plan goes on.
LEMMA PassedStep ==
    ASSUME InstallTypes, Carry, NEW i
    PROVE  /\ Passed(i, {"unpack", "configure", "done"})' =>
                Passed(i, {"unpack", "configure", "done"}) \/ (i = k /\ Download /\ pc' = "unpack")
           /\ Passed(i, {"configure", "done"})' =>
                Passed(i, {"configure", "done"}) \/ (i = k /\ Unpack /\ rest = Empty)
           /\ Passed(i, {"done"})' <=> Passed(i, {"done"}) \/ (i = k /\ Configure)
<1>1. /\ UNCHANGED <<asked, plan>> /\ k \in DOMAIN plan /\ k \in Nat /\ ~asked.dryRun
      /\ DOMAIN plan = 1 .. Len(plan) /\ Len(plan) \in Nat
  BY LenProperties DEF InstallTypes, InLoop, Carry, Download, Unpack, Configure
<1>2. CASE i \notin DOMAIN plan
  BY <1>1, <1>2 DEF Passed
<1>3. CASE i \in DOMAIN plan
  <2>1. i \in Nat
    BY <1>1, <1>3
  <2>2. CASE Download
    BY <1>1, <1>3, <2>1, <2>2 DEF Download, Unpack, Configure, Fail, Passed
  <2>3. CASE Unpack
    BY <1>1, <1>3, <2>1, <2>3 DEF Download, Unpack, Configure, Fail, Passed
  <2>4. CASE Configure
    <3>1. pc = "configure" /\ ((k' = k + 1 /\ pc' = "download") \/ (k' = k /\ pc' = "done"))
      BY <2>4 DEF Configure
    <3> QED BY <1>1, <1>3, <2>1, <2>4, <3>1 DEF Passed
  <2> QED BY <2>2, <2>3, <2>4 DEF Carry
<1> QED BY <1>2, <1>3

LEMMA ProgressInit == InstallInit => Downloaded /\ InstalledSoFar /\ DoneIsAll
<1> SUFFICES ASSUME InstallInit PROVE Downloaded /\ InstalledSoFar /\ DoneIsAll
  OBVIOUS
<1>1. DOMAIN plan = {} /\ DOMAIN installed = {}
  BY DEF InstallInit, Empty
<1> QED BY <1>1 DEF Downloaded, InstalledSoFar, DoneIsAll

LEMMA ProgressStarts ==
    ASSUME InstallTypes, InstalledSoFar, (\E r \in Requests : Load(r)) \/ Resolve
    PROVE  Downloaded' /\ InstalledSoFar' /\ DoneIsAll'
<1>1. CASE \E r \in Requests : Load(r)
  <2>1. DOMAIN plan' = {} /\ DOMAIN installed' = {}
    BY <1>1 DEF Load, Empty
  <2> QED BY <2>1 DEF Downloaded, InstalledSoFar, DoneIsAll
<1>2. CASE Resolve
  <2>1. /\ asked' = asked /\ k = 1 /\ k' = 1 /\ plan = Empty
        /\ plan' \in Seq(Listing) /\ DOMAIN plan' \subseteq Nat \ {0}
    <3>1. plan' \in Seq(Listing)
      BY <1>2, TypesResolve DEF InstallTypes
    <3> QED BY <1>2, <3>1, LenProperties DEF Resolve, InstallTypes
  <2>2. CASE asked.dryRun
    BY <2>1, <2>2 DEF Downloaded, InstalledSoFar, DoneIsAll, Passed
  <2>3. CASE ~asked.dryRun
    <3>1. installed' = installed /\ (pc' \in {"unpack", "configure", "done"} => plan' = Empty)
      BY <1>2, <2>3 DEF Resolve
    <3>2. DOMAIN Empty = {} /\ DOMAIN installed = {}
      <4>1. DOMAIN Empty = {}
        BY DEF Empty
      <4>2. DOMAIN plan = {}
        BY <2>1, <4>1
      <4> QED BY <2>3, <4>1, <4>2 DEF InstalledSoFar
    <3>3. \A i \in DOMAIN plan' : ~Passed(i, {"unpack", "configure", "done"})' /\ ~Passed(i, {"done"})'
      BY <2>1, <3>1, <3>2 DEF Passed
    <3> QED BY <2>1, <3>1, <3>2, <3>3 DEF Downloaded, InstalledSoFar, DoneIsAll
  <2> QED BY <2>2, <2>3
<1> QED BY <1>1, <1>2

LEMMA ProgressGoesOn ==
    ASSUME InstallTypes, Downloaded, InstalledSoFar, Carry
    PROVE  Downloaded' /\ InstalledSoFar' /\ DoneIsAll'
<1>1. /\ UNCHANGED <<index, asked, plan>> /\ k \in DOMAIN plan /\ k \in Nat /\ ~asked.dryRun
      /\ DOMAIN plan = 1 .. Len(plan) /\ Len(plan) \in Nat /\ installed \in Seq(Name)
      /\ plan \in Seq(Listing)
  BY LenProperties DEF InstallTypes, InLoop, Carry, Download, Unpack, Configure
<1>2. \A n : Deb(n)' = Deb(n)
  BY <1>1 DEF Deb, Listed, Named
<1>3. Downloaded'
  <2> SUFFICES ASSUME NEW i \in DOMAIN plan, Passed(i, {"unpack", "configure", "done"})'
               PROVE  Deb(plan[i].name) # {}
    BY <1>1, <1>2 DEF Downloaded
  <2>1. CASE Passed(i, {"unpack", "configure", "done"})
    BY <2>1 DEF Downloaded
  <2>2. CASE i = k /\ Download /\ pc' = "unpack"
    BY <2>2 DEF Download, Fail, Current
  <2> QED BY <2>1, <2>2, PassedStep
<1>4. InstalledSoFar'
  <2>1. CASE Configure
    <3>1. Current \in Name
      BY <1>1, ElementOfSeq, ListingFacts DEF Current
    <3>2. /\ installed' = Append(installed, Current) /\ Len(installed) \in Nat
          /\ DOMAIN installed = 1 .. Len(installed) /\ DOMAIN installed' = 1 .. Len(installed) + 1
          /\ installed'[Len(installed) + 1] = Current
          /\ \A i \in 1 .. Len(installed) : installed'[i] = installed[i]
      <4>1. installed' = Append(installed, Current)
        BY <2>1 DEF Configure
      <4>2. installed' \in Seq(Name) /\ Len(installed') = Len(installed) + 1
        BY <1>1, <3>1, <4>1, AppendProperties
      <4> QED BY <1>1, <3>1, <4>1, <4>2, AppendProperties, LenProperties
    <3>3. \A i \in DOMAIN installed' : \E j \in DOMAIN plan :
             Passed(j, {"done"})' /\ installed'[i] = plan[j].name
      <4> SUFFICES ASSUME NEW i \in DOMAIN installed'
                   PROVE  \E j \in DOMAIN plan : Passed(j, {"done"})' /\ installed'[i] = plan[j].name
        OBVIOUS
      <4>1. CASE i = Len(installed) + 1
        BY <1>1, <2>1, <3>2, <4>1, PassedStep DEF Current
      <4>2. CASE i \in DOMAIN installed /\ installed'[i] = installed[i]
        <5>1. PICK j \in DOMAIN plan : Passed(j, {"done"}) /\ installed[i] = plan[j].name
          BY <1>1, <4>2 DEF InstalledSoFar
        <5> QED BY <4>2, <5>1, PassedStep
      <4> QED BY <3>2, <4>1, <4>2
    <3>4. \A j \in DOMAIN plan : Passed(j, {"done"})' =>
             \E i \in DOMAIN installed' : installed'[i] = plan[j].name
      <4> SUFFICES ASSUME NEW j \in DOMAIN plan, Passed(j, {"done"})'
                   PROVE  \E i \in DOMAIN installed' : installed'[i] = plan[j].name
        OBVIOUS
      <4>1. CASE j = k
        BY <3>2, <4>1 DEF Current
      <4>2. CASE Passed(j, {"done"})
        <5>1. PICK i \in DOMAIN installed : installed[i] = plan[j].name
          BY <1>1, <4>2 DEF InstalledSoFar
        <5> QED BY <3>2, <5>1
      <4> QED BY <4>1, <4>2, PassedStep
    <3> QED BY <1>1, <3>3, <3>4 DEF InstalledSoFar
  <2>2. CASE ~Configure
    <3>1. installed' = installed /\ \A i : Passed(i, {"done"})' <=> Passed(i, {"done"})
      <4>1. installed' = installed
        BY <2>2 DEF Carry, Download, Unpack, Fail
      <4> QED BY <2>2, <4>1, PassedStep
    <3> QED BY <1>1, <3>1 DEF InstalledSoFar
  <2> QED BY <2>1, <2>2
<1>5. DoneIsAll'
  BY <1>1 DEF DoneIsAll, Carry, Download, Unpack, Configure, Fail
<1> QED BY <1>3, <1>4, <1>5

ClosedInv == /\ InstallTypes /\ OnePerName /\ PlanIsClosed /\ LeftAlone
             /\ Downloaded /\ InstalledSoFar /\ DoneIsAll

LEMMA ClosedInit == InstallInit => ClosedInv
BY TypesInit, SelectionInit, LeftInit, ProgressInit DEF ClosedInv

LEMMA ClosedStep == ClosedInv /\ [InstallNext]_installVars => ClosedInv'
<1> SUFFICES ASSUME ClosedInv, [InstallNext]_installVars PROVE ClosedInv'
  OBVIOUS
<1>1. CASE InstallNext
  <2>1. InstallTypes'
    BY <1>1, TypesLoad, TypesResolve, TypesCarry DEF ClosedInv, InstallNext
  <2>2. OnePerName' /\ PlanIsClosed' /\ LeftAlone'
    BY <1>1, SelectionStep, LeftStep DEF ClosedInv
  <2>3. Downloaded' /\ InstalledSoFar' /\ DoneIsAll'
    BY <1>1, ProgressStarts, ProgressGoesOn DEF ClosedInv, InstallNext
  <2> QED BY <2>1, <2>2, <2>3 DEF ClosedInv
<1>2. CASE UNCHANGED installVars
  <2>1. UNCHANGED <<index, asked, pc, plan, k, installed, dirs, before>>
    BY <1>2 DEF installVars, control
  <2>2. InstallTypes' /\ OnePerName' /\ PlanIsClosed' /\ LeftAlone'
    BY <2>1 DEF ClosedInv, InstallTypes, InLoop, OnePerName, PlanIsClosed, LeftAlone, Touched
  <2>3. \A n : Deb(n)' = Deb(n)
    BY <2>1 DEF Deb, Listed, Named
  <2>4. \A i, S : Passed(i, S)' <=> Passed(i, S)
    BY <2>1 DEF Passed
  <2>5. Downloaded' /\ InstalledSoFar' /\ DoneIsAll'
    BY <2>1, <2>3, <2>4 DEF ClosedInv, Downloaded, InstalledSoFar, DoneIsAll
  <2> QED BY <2>2, <2>5 DEF ClosedInv
<1> QED BY <1>1, <1>2

\* A call that fails has left the directories after the package it failed at
\* alone, a dry run all of them.
THEOREM InstallStopsWhereItFails == InstallSpec => []StopsWhereItFails
<1>1. ClosedInv => StopsWhereItFails
  <2> SUFFICES ASSUME ClosedInv, NEW n \in DOMAIN dirs,
                      asked.dryRun \/ (pc = "failed" /\ n \notin {plan[i].name : i \in DOMAIN plan \cap 1 .. k})
               PROVE  n \in DOMAIN before /\ dirs[n] = before[n]
    BY DEF StopsWhereItFails
  <2>1. CASE asked.dryRun
    BY <2>1 DEF ClosedInv, LeftAlone
  <2>2. CASE n \notin {plan[i].name : i \in DOMAIN plan \cap 1 .. k}
    <3>1. k \in Nat /\ DOMAIN plan \subseteq Nat \ {0}
      BY LenProperties DEF ClosedInv, InstallTypes
    <3>2. ~Touched(n)
      BY <2>2, <3>1 DEF Touched
    <3> QED BY <3>2 DEF ClosedInv, LeftAlone
  <2> QED BY <2>1, <2>2
<1> QED BY <1>1, ClosedInit, ClosedStep, PTL DEF InstallSpec

\* A call that returns Ok has installed whole entries, and, while every package
\* is in the indices once, all that they depend on.
THEOREM InstalledAreClosed == InstallSpec => []InstalledIsClosed
<1>1. ClosedInv => InstalledIsClosed
  <2> SUFFICES ASSUME ClosedInv, Returned, NEW n \in ToSet(installed)
               PROVE  /\ \E f \in ToSet(Indices) : Listed(n) \in ToSet(f)
                      /\ OneEach => \A g \in Listed(n).depends :
                            \E i \in DOMAIN g : \E o \in ToSet(installed) : Fits(Listed(o), g[i])
    BY DEF InstalledIsClosed
  <2>1. /\ index \in Seq(Listing) /\ pc = "done" /\ ~asked.dryRun /\ InstalledSoFar /\ DoneIsAll
        /\ Downloaded /\ InstallTypes /\ PlanIsClosed
        /\ k \in Nat /\ DOMAIN plan \subseteq Nat
    BY LenProperties DEF ClosedInv, InstallTypes, Returned
  <2>2. PICK j \in DOMAIN plan : Passed(j, {"done"}) /\ n = plan[j].name
    BY <2>1 DEF InstalledSoFar, ToSet
  <2>3. \E f \in ToSet(Indices) : Listed(n) \in ToSet(f)
    <3>1. Passed(j, {"unpack", "configure", "done"})
      BY <2>2 DEF Passed
    <3>2. Deb(n) # {} /\ Listed(n) \in Listing
      BY <2>1, <2>2, <3>1, PlannedFacts DEF Downloaded
    <3>3. Listed(n).filename # {}
      BY <3>2 DEF Deb
    <3>4. IsWhole(Listed(n))
      BY <3>2, <3>3 DEF Listing
    <3> QED BY <3>4 DEF IsWhole, ToSet
  <2>4. ASSUME OneEach, NEW g \in Listed(n).depends
        PROVE  \E i \in DOMAIN g : \E o \in ToSet(installed) : Fits(Listed(o), g[i])
    <3>1. PICK m \in SUBSET DOMAIN index :
             /\ DependsMet(index, m)
             /\ \A i \in DOMAIN plan : \E v \in m : plan[i] = index[v]
             /\ \A v \in m : \E i \in DOMAIN plan : plan[i] = index[v]
      BY <2>1 DEF PlanIsClosed
    <3>2. \A v \in m : Listed(index[v].name) = index[v]
      <4> SUFFICES ASSUME NEW v \in m PROVE Listed(index[v].name) = index[v]
        OBVIOUS
      <4>1. PICK i \in DOMAIN index :
               Listed(index[v].name) = index[i] /\ index[i].name = index[v].name
        BY <2>1, ListedFacts
      <4> QED BY <2>4, <4>1 DEF OneEach
    <3>3. PICK v \in m : plan[j] = index[v]
      BY <3>1
    <3>4. g \in index[v].depends
      BY <2>2, <3>2, <3>3
    <3>5. PICK i \in DOMAIN g, w \in m : Fits(index[w], g[i])
      BY <3>1, <3>4 DEF DependsMet
    <3>6. PICK h \in DOMAIN plan : plan[h] = index[w]
      BY <3>1
    <3>7. Passed(h, {"done"})
      BY <2>1 DEF DoneIsAll, Passed
    <3>8. plan[h].name \in ToSet(installed)
      BY <2>1, <3>7 DEF InstalledSoFar, ToSet
    <3> QED BY <3>2, <3>5, <3>6, <3>8
  <2> QED BY <2>3, <2>4
<1> QED BY <1>1, ClosedInit, ClosedStep, PTL DEF InstallSpec

-----------------------------------------------------------------------------
(* What a package unpacks to.                                              *)

LEMMA DebFacts ==
    ASSUME NEW n, NEW d \in Deb(n)
    PROVE  /\ d \in DOMAIN Debs /\ Debs[d] \in Seq(DebEntry) /\ Len(Debs[d]) \in Nat
           /\ DOMAIN Debs[d] = 1 .. Len(Debs[d])
           /\ \A j \in DOMAIN Debs[d] : Debs[d][j] \in DebEntry
<1>1. d \in DOMAIN Debs
  BY DEF Deb
<1>2. Debs[d] \in Seq(DebEntry)
  BY <1>1, InstallAssumption DEF DebEntry
<1> QED BY <1>1, <1>2, LenProperties, ElementOfSeq

PayloadInv == ClosedInv /\ WholeBefore /\ UnderWay /\ Inside

LEMMA InsideStep == Inside /\ [InstallNext]_installVars => Inside'
<1> SUFFICES ASSUME Inside, [InstallNext]_installVars, NEW n \in DOMAIN dirs', NEW p \in DOMAIN dirs'[n]
             PROVE  p \notin Beyond
  BY DEF Inside
<1>1. CASE UNCHANGED dirs
  BY <1>1 DEF Inside
<1>2. CASE CreateDir
  BY <1>2 DEF CreateDir, Insert, Empty, Inside
<1>3. CASE Unpack /\ \E d \in Deb(Current) : dirs' = [dirs EXCEPT ![Current] = Extract(@, d, Head(rest))]
  <2>1. PICK d \in Deb(Current) : dirs' = [dirs EXCEPT ![Current] = Extract(@, d, Head(rest))]
    BY <1>3
  <2>2. CASE n # Current
    BY <2>1, <2>2 DEF Inside
  <2>3. CASE n = Current
    <3>1. n \in DOMAIN dirs /\ dirs'[n] = Extract(dirs[n], d, Head(rest))
      BY <2>1, <2>3
    <3> QED BY <3>1 DEF Inside, Extract, Insert
  <2> QED BY <2>2, <2>3
<1>4. CASE Carry
  <2>1. UNCHANGED dirs \/ CreateDir \/ (Unpack /\ \E d \in Deb(Current) : dirs' = [dirs EXCEPT ![Current] = Extract(@, d, Head(rest))])
    BY <1>4 DEF Carry, Download, Unpack, Configure, Fail
  <2> QED BY <1>1, <1>2, <1>3, <2>1
<1>5. CASE Resolve \/ (\E r \in Requests : Load(r)) \/ UNCHANGED installVars
  <2>1. UNCHANGED dirs
    BY <1>5 DEF Resolve, Load, installVars
  <2> QED BY <1>1, <2>1
<1> QED BY <1>4, <1>5 DEF InstallNext

\* The other packages of the plan stay as they are.
LEMMA WholeStays ==
    ASSUME PayloadInv, Carry, NEW i \in DOMAIN plan, Passed(i, {"configure", "done"})
    PROVE  HasAll(plan[i].name)'
<1>0. PICK n : n = plan[i].name
  OBVIOUS
<1>1. /\ UNCHANGED <<index, plan, before>> /\ HasAll(n) /\ k \in DOMAIN plan /\ k \in Nat
      /\ pc \in {"download", "unpack", "configure"}
  BY <1>0 DEF PayloadInv, ClosedInv, WholeBefore, InstallTypes, InLoop, Carry, Download, Unpack, Configure
<1>2. Deb(n)' = Deb(n) /\ Old(n)' = Old(n)
  BY <1>1 DEF Deb, Listed, Named, Old
<1>3. n \in DOMAIN dirs' /\ dirs'[n] = dirs[n]
  <2>1. n \in DOMAIN dirs
    BY <1>1 DEF HasAll
  <2>2. CASE pc' # "unpack"
    BY <2>1, <2>2, WritesToCurrent DEF PayloadInv, ClosedInv
  <2>3. CASE pc' = "unpack"
    <3>1. pc \in {"download", "unpack"}
      BY <2>3 DEF Carry, Download, Unpack, Configure, Fail
    <3>2. i # k
      BY <1>1, <3>1 DEF Passed
    <3>3. n # Current
      BY <1>0, <1>1, <3>2 DEF PayloadInv, ClosedInv, OnePerName, Current
    <3> QED BY <2>1, <3>3, WritesToCurrent DEF PayloadInv, ClosedInv
  <2> QED BY <2>2, <2>3
<1>4. \A d, s : (Apart(n, d)' <=> Apart(n, d)) /\ (IsUnpacked(n, d, s)' <=> IsUnpacked(n, d, s))
  BY <1>2, <1>3 DEF Apart, IsUnpacked, StayAt, PathsTo
<1>5. HasAll(n)'
  BY <1>1, <1>2, <1>3, <1>4 DEF HasAll
<1> QED BY <1>0, <1>1, <1>5

\* The download of an archive: nothing of it is unpacked.
LEMMA UnpackingBegins ==
    ASSUME PayloadInv, Carry, Download, pc' = "unpack" PROVE UnderWay'
<1>1. PICK n : n = Current
  OBVIOUS
<1>2. /\ UNCHANGED <<index, plan, k, before>> /\ k \in DOMAIN plan /\ k \in Nat
      /\ DOMAIN plan \subseteq Nat /\ CreateDir /\ pc = "download"
  BY LenProperties DEF PayloadInv, ClosedInv, InstallTypes, InLoop, Carry, Download, Fail
<1>3. PICK d \in Deb(n) : rest' = Debs[d]
  BY <1>1 DEF Download, Fail
<1>4. Current' = n /\ Deb(n)' = Deb(n) /\ Old(n)' = Old(n)
  BY <1>1, <1>2 DEF Current, Deb, Listed, Named, Old
<1>5. 0 \in 0 .. Len(Debs[d]) /\ IsLeft(d, 0)'
  BY <1>3, DebFacts DEF IsLeft
<1>6. n \in DOMAIN dirs'
  BY <1>1, <1>2 DEF CreateDir, Insert
<1>7. dirs'[n] = Old(n)
  <2>1. CASE n \in DOMAIN dirs
    <3>1. ~Touched(n)
      BY <1>1, <1>2 DEF Touched, Current, PayloadInv, ClosedInv, OnePerName
    <3>2. n \in DOMAIN before /\ dirs[n] = before[n]
      BY <2>1, <3>1 DEF PayloadInv, ClosedInv, LeftAlone
    <3>3. dirs'[n] = dirs[n]
      BY <1>1, <1>2, <2>1 DEF CreateDir
    <3> QED BY <3>2, <3>3 DEF Old
  <2>2. CASE n \notin DOMAIN dirs
    <3>1. dirs'[n] = Empty
      BY <1>1, <1>2, <2>2 DEF CreateDir, Insert
    <3>2. n \notin DOMAIN before
      BY <2>2 DEF PayloadInv, ClosedInv, LeftAlone
    <3> QED BY <3>1, <3>2 DEF Old
  <2> QED BY <2>1, <2>2
<1>8. IsUnpacked(n, d, 0)'
  <2>1. StayAt(d, 0) = {} /\ PathsTo(d, 0) = {}
    BY DEF StayAt, PathsTo
  <2> QED BY <1>4, <1>7, <2>1 DEF IsUnpacked, StayAt, PathsTo
<1> QED BY <1>3, <1>4, <1>5, <1>6, <1>8 DEF UnderWay

\* The paths of one more entry.
LEMMA PathsGrow ==
    ASSUME NEW d, NEW s \in Nat, NEW e, e = Debs[d][s + 1]
    PROVE  /\ Stays(e) => StayAt(d, s + 1) = StayAt(d, s) \cup {s + 1} /\ PathsTo(d, s + 1) = PathsTo(d, s) \cup {e.path}
           /\ ~Stays(e) => StayAt(d, s + 1) = StayAt(d, s) /\ PathsTo(d, s + 1) = PathsTo(d, s)
<1>1. 1 .. s + 1 = 1 .. s \cup {s + 1}
  OBVIOUS
<1>2. Stays(e) => StayAt(d, s + 1) = StayAt(d, s) \cup {s + 1}
  BY <1>1 DEF StayAt
<1>3. ~Stays(e) => StayAt(d, s + 1) = StayAt(d, s)
  BY <1>1 DEF StayAt
<1> QED BY <1>2, <1>3 DEF PathsTo

\* One entry of it: where no link was before, a file goes to its own path and
\* is over none of those before it, and what does not stay changes nothing.
LEMMA OneMoreFile ==
    ASSUME OneFilePerPath, NEW d \in DOMAIN Debs, Debs[d] \in Seq(DebEntry),
           NEW s \in 0 .. Len(Debs[d]) - 1, NEW n, n \in DOMAIN dirs, Apart(n, d), IsUnpacked(n, d, s),
           \A p \in DOMAIN dirs[n] : p \notin Beyond,
           NEW e, e = Debs[d][s + 1],
           dirs' = [dirs EXCEPT ![n] = Extract(@, d, e)], UNCHANGED before
    PROVE  IsUnpacked(n, d, s + 1)'
<1>1. /\ Len(Debs[d]) \in Nat /\ DOMAIN Debs[d] = 1 .. Len(Debs[d]) /\ s \in Nat
      /\ s + 1 \in DOMAIN Debs[d] /\ s + 1 \notin 1 .. s /\ \A j \in 1 .. s : j \in 1 .. Len(Debs[d])
      /\ e \in DebEntry
  <2>1. Len(Debs[d]) \in Nat /\ DOMAIN Debs[d] = 1 .. Len(Debs[d])
    BY LenProperties
  <2> QED BY <2>1, ElementOfSeq
<1>2. dirs'[n] = Extract(dirs[n], d, e)
  OBVIOUS
<1>3. Old(n)' = Old(n)
  BY DEF Old
<1>4. CASE ~Stays(e)
  <2>1. IsWritten(e) => Target(dirs[n], e) \in Beyond
    <3>1. IsWritten(e) => e.path \in Beyond
      BY <1>4 DEF Stays, IsWritten
    <3>2. e.path \in Beyond => e.path \notin DOMAIN dirs[n]
      OBVIOUS
    <3> QED BY <3>1, <3>2 DEF Target
  <2>2. dirs'[n] = dirs[n]
    <3>1. ~(IsWritten(e) /\ Target(dirs[n], e) \notin Beyond)
      BY <2>1
    <3>2. Extract(dirs[n], d, e) = dirs[n]
      BY <3>1 DEF Extract
    <3> QED BY <1>2, <3>2
  <2>3. StayAt(d, s + 1) = StayAt(d, s) /\ PathsTo(d, s + 1) = PathsTo(d, s)
    BY <1>1, <1>4, PathsGrow
  <2> QED BY <1>3, <2>2, <2>3 DEF IsUnpacked, StayAt, PathsTo
<1>5. CASE Stays(e)
  <2>1. StayAt(d, s + 1) = StayAt(d, s) \cup {s + 1} /\ PathsTo(d, s + 1) = PathsTo(d, s) \cup {e.path}
    BY <1>1, <1>5, PathsGrow
  <2>2. \A j \in StayAt(d, s) : Debs[d][j].path # e.path
    <3>1. s + 1 \in StayAt(d, Len(Debs[d])) /\ \A j \in StayAt(d, s) : j \in StayAt(d, Len(Debs[d]))
      BY <1>1, <1>5 DEF StayAt
    <3>2. \A j \in StayAt(d, s) : j # s + 1
      BY <1>1 DEF StayAt
    <3> QED BY <3>1, <3>2 DEF OneFilePerPath
  <2>3. e.path \notin PathsTo(d, s)
    BY <2>2 DEF PathsTo
  <2>4. Target(dirs[n], e) = e.path
    <3>1. CASE e.link # {} \/ e.path \notin DOMAIN dirs[n]
      BY <3>1 DEF Target
    <3>2. CASE e.link = {} /\ e.path \in DOMAIN dirs[n]
      <4>1. dirs[n][e.path].link = {}
        BY <1>1, <1>5, <2>3, <3>2 DEF IsUnpacked, Apart
      <4>2. Target(dirs[n], e) = CHOOSE p \in {e.path} : dirs[n][e.path].link # {} => p # e.path
        BY <3>2, <4>1 DEF Target
      <4> QED BY <4>1, <4>2
    <3> QED BY <3>1, <3>2
  <2>5. dirs'[n] = Insert(dirs[n], e.path, Unpacked(d, e))
    BY <1>2, <1>5, <2>4 DEF Extract, Stays
  <2>6. /\ DOMAIN dirs'[n] = DOMAIN dirs[n] \cup {e.path}
        /\ dirs'[n][e.path] = Unpacked(d, e)
        /\ \A p \in DOMAIN dirs[n] : p # e.path => dirs'[n][p] = dirs[n][p]
    BY <2>5 DEF Insert
  <2>7. DOMAIN dirs'[n] = DOMAIN Old(n) \cup PathsTo(d, s + 1)
    BY <2>1, <2>6 DEF IsUnpacked
  <2>8. ASSUME NEW j \in StayAt(d, s + 1) PROVE dirs'[n][Debs[d][j].path] = Unpacked(d, Debs[d][j])
    <3>1. CASE j = s + 1
      BY <2>6, <3>1
    <3>2. CASE j \in StayAt(d, s)
      <4>1. Debs[d][j].path \in DOMAIN dirs[n] /\ dirs[n][Debs[d][j].path] = Unpacked(d, Debs[d][j])
        BY <3>2 DEF IsUnpacked, PathsTo
      <4> QED BY <2>2, <2>6, <3>2, <4>1
    <3> QED BY <2>1, <2>8, <3>1, <3>2
  <2>9. \A p \in DOMAIN Old(n) \ PathsTo(d, s + 1) : dirs'[n][p] = Old(n)[p]
    BY <2>1, <2>6 DEF IsUnpacked
  <2> QED BY <1>3, <2>7, <2>8, <2>9 DEF IsUnpacked, StayAt, PathsTo
<1> QED BY <1>4, <1>5

LEMMA UnpackingGoesOn ==
    ASSUME OneFilePerPath, PayloadInv, Carry, Unpack, pc' = "unpack" PROVE UnderWay'
<1>1. PICK n : n = Current
  OBVIOUS
<1>2. UNCHANGED <<index, plan, k, before>> /\ pc = "unpack" /\ rest # Empty /\ rest' = Tail(rest)
  BY DEF Carry, Unpack, Fail
<1>3. n \in DOMAIN dirs /\ AtMostOne(Deb(n))
  BY <1>1, <1>2, PlannedFacts DEF PayloadInv, ClosedInv, UnderWay, InstallTypes, InLoop, Current
<1>4. PICK d \in Deb(n) : \E s \in 0 .. Len(Debs[d]) :
         IsLeft(d, s) /\ (Apart(n, d) => IsUnpacked(n, d, s))
  BY <1>1, <1>2 DEF PayloadInv, UnderWay
<1>5. PICK s \in 0 .. Len(Debs[d]) : IsLeft(d, s) /\ (Apart(n, d) => IsUnpacked(n, d, s))
  BY <1>4
<1>6. PICK e : e = Head(rest)
  OBVIOUS
<1>7. dirs' = [dirs EXCEPT ![n] = Extract(@, d, e)]
  <2>1. \E c \in Deb(n) : dirs' = [dirs EXCEPT ![n] = Extract(@, c, e)]
    BY <1>1, <1>2, <1>6 DEF Unpack, Fail
  <2> QED BY <1>3, <2>1 DEF AtMostOne
<1>8. /\ d \in DOMAIN Debs /\ Debs[d] \in Seq(DebEntry) /\ Len(Debs[d]) \in Nat /\ s \in Nat
      /\ rest \in Seq(DebEntry) /\ Len(rest) = Len(Debs[d]) - s /\ Len(rest) \in Nat \ {0}
      /\ \A j \in 1 .. Len(rest) : rest[j] = Debs[d][s + j]
  <2>1. rest \in Seq(DebEntry) /\ rest # <<>>
    BY <1>2, <1>5 DEF IsLeft, Empty
  <2>2. Len(rest) \in Nat \ {0}
    BY <2>1, EmptySeq
  <2> QED BY <1>5, <2>1, <2>2, DebFacts DEF IsLeft
<1>9. s \in 0 .. Len(Debs[d]) - 1 /\ s + 1 \in 0 .. Len(Debs[d])
  BY <1>8
<1>10. e = Debs[d][s + 1]
  <2>1. Head(rest) = rest[1]
    OBVIOUS
  <2> QED BY <1>6, <1>8, <2>1
<1>11. IsLeft(d, s + 1)'
  <2>1. /\ Tail(rest) \in Seq(DebEntry) /\ Len(Tail(rest)) = Len(rest) - 1
        /\ \A j \in 1 .. Len(Tail(rest)) : Tail(rest)[j] = rest[j + 1]
    BY <1>2, <1>8, HeadTailProperties DEF Empty
  <2>2. \A j \in 1 .. Len(Tail(rest)) : Tail(rest)[j] = Debs[d][(s + 1) + j]
    <3> SUFFICES ASSUME NEW j \in 1 .. Len(Tail(rest)) PROVE Tail(rest)[j] = Debs[d][(s + 1) + j]
      OBVIOUS
    <3>1. j + 1 \in 1 .. Len(rest) /\ s + (j + 1) = (s + 1) + j
      BY <1>8, <2>1
    <3>2. rest[j + 1] = Debs[d][s + (j + 1)]
      BY <1>8, <3>1
    <3> QED BY <2>1, <3>1, <3>2
  <2>3. Len(Tail(rest)) = Len(Debs[d]) - (s + 1)
    BY <1>8, <2>1
  <2> QED BY <1>2, <2>1, <2>2, <2>3 DEF IsLeft
<1>12. Apart(n, d) => IsUnpacked(n, d, s + 1)'
  <2>1. \A p \in DOMAIN dirs[n] : p \notin Beyond
    BY <1>3 DEF PayloadInv, Inside
  <2> QED BY <1>2, <1>3, <1>5, <1>7, <1>8, <1>9, <1>10, <2>1, OneMoreFile
<1>13. Current' = n /\ Deb(n)' = Deb(n) /\ (Apart(n, d)' <=> Apart(n, d)) /\ n \in DOMAIN dirs'
  BY <1>1, <1>2, <1>3, <1>7 DEF Current, Deb, Listed, Named, Apart, Old
<1> QED BY <1>5, <1>9, <1>11, <1>12, <1>13 DEF UnderWay

\* And when nothing is left all of it is there.
LEMMA UnpackingEnds ==
    ASSUME PayloadInv, Carry, Unpack, rest = Empty PROVE HasAll(plan[k].name)'
<1>1. PICK n : n = Current
  OBVIOUS
<1>2. UNCHANGED <<index, plan, k, before, dirs>> /\ pc = "unpack"
  BY DEF Carry, Unpack, Fail
<1>3. n \in DOMAIN dirs /\ AtMostOne(Deb(n))
  BY <1>1, <1>2, PlannedFacts DEF PayloadInv, ClosedInv, UnderWay, InstallTypes, InLoop, Current
<1>4. PICK d \in Deb(n) : \E s \in 0 .. Len(Debs[d]) :
         IsLeft(d, s) /\ (Apart(n, d) => IsUnpacked(n, d, s))
  BY <1>1, <1>2 DEF PayloadInv, UnderWay
<1>5. PICK s \in 0 .. Len(Debs[d]) : IsLeft(d, s) /\ (Apart(n, d) => IsUnpacked(n, d, s))
  BY <1>4
<1>6. s = Len(Debs[d]) /\ DOMAIN Debs[d] = 1 .. s
  <2>1. Len(rest) = 0
    BY EmptySeq DEF Empty
  <2> QED BY <1>5, <2>1, DebFacts DEF IsLeft
<1>7. \A c \in Deb(n) : Apart(n, c) => IsUnpacked(n, c, Len(Debs[c]))
  BY <1>3, <1>5, <1>6 DEF AtMostOne
<1>8. Deb(n)' = Deb(n) /\ Old(n)' = Old(n) /\ dirs'[n] = dirs[n]
  BY <1>2 DEF Deb, Listed, Named, Old
<1>9. \A c, j : (Apart(n, c)' <=> Apart(n, c)) /\ (IsUnpacked(n, c, j)' <=> IsUnpacked(n, c, j))
  BY <1>8 DEF Apart, IsUnpacked, StayAt, PathsTo
<1>10. HasAll(n)'
  BY <1>2, <1>3, <1>7, <1>8, <1>9 DEF HasAll
<1> QED BY <1>1, <1>2, <1>10 DEF Current

LEMMA PayloadStep ==
    ASSUME OneFilePerPath
    PROVE  PayloadInv /\ [InstallNext]_installVars => PayloadInv'
<1> SUFFICES ASSUME PayloadInv, [InstallNext]_installVars PROVE PayloadInv'
  OBVIOUS
<1>1. ClosedInv' /\ Inside'
  BY ClosedStep, InsideStep DEF PayloadInv
<1>2. CASE (\E r \in Requests : Load(r)) \/ Resolve
  <2>1. pc' # "unpack"
    BY <1>2 DEF Load, Resolve
  <2>2. ASSUME NEW i \in DOMAIN plan' PROVE ~Passed(i, {"configure", "done"})'
    <3>1. CASE \E r \in Requests : Load(r)
      BY <2>2, <3>1 DEF Load, Empty
    <3>2. CASE Resolve
      <4>1. k' = 1 /\ i \in Nat \ {0}
        BY <1>1, <2>2, <3>2, LenProperties DEF Resolve, PayloadInv, ClosedInv, InstallTypes
      <4>2. plan' # Empty
        BY <2>2 DEF Empty
      <4>3. asked'.dryRun \/ pc' \notin {"configure", "done"}
        BY <3>2, <4>2 DEF Resolve
      <4> QED BY <4>1, <4>3 DEF Passed
    <3> QED BY <1>2, <3>1, <3>2
  <2> QED BY <1>1, <2>1, <2>2 DEF PayloadInv, WholeBefore, UnderWay
<1>3. CASE Carry
  <2>1. WholeBefore'
    <3> SUFFICES ASSUME NEW i \in DOMAIN plan, Passed(i, {"configure", "done"})'
                 PROVE  HasAll(plan[i].name)'
      <4>1. plan' = plan
        BY <1>3 DEF Carry
      <4> QED BY <4>1 DEF WholeBefore
    <3>1. CASE Passed(i, {"configure", "done"})
      BY <1>3, <3>1, WholeStays
    <3>2. CASE i = k /\ Unpack /\ rest = Empty
      <4>1. i' = i /\ UNCHANGED <<plan, k>>
        BY <1>3, <3>2 DEF Carry, Unpack, Fail
      <4>2. HasAll(plan[k].name)'
        BY <1>3, <3>2, UnpackingEnds
      <4> QED BY <3>2, <4>1, <4>2
    <3> QED BY <1>3, <3>1, <3>2, PassedStep DEF PayloadInv, ClosedInv
  <2>2. UnderWay'
    <3>1. CASE pc' = "unpack"
      BY <1>3, <3>1, UnpackingBegins, UnpackingGoesOn DEF Carry, Configure
    <3>2. CASE pc' # "unpack"
      BY <3>2 DEF UnderWay
    <3> QED BY <3>1, <3>2
  <2> QED BY <1>1, <2>1, <2>2 DEF PayloadInv
<1>4. CASE UNCHANGED installVars
  <2>1. UNCHANGED <<index, asked, pc, plan, k, rest, dirs, before>>
    BY <1>4 DEF installVars, control
  <2>2. \A n : Deb(n)' = Deb(n)
    BY <2>1 DEF Deb, Listed, Named
  <2>3. \A n, d, s : (Apart(n, d)' <=> Apart(n, d)) /\ (IsUnpacked(n, d, s)' <=> IsUnpacked(n, d, s))
    BY <2>1 DEF Apart, IsUnpacked, StayAt, PathsTo, Old
  <2>4. \A n : HasAll(n)' <=> HasAll(n)
    BY <2>1, <2>2, <2>3 DEF HasAll
  <2>5. /\ \A i, S : Passed(i, S)' <=> Passed(i, S)
        /\ \A d, s : IsLeft(d, s)' <=> IsLeft(d, s)
    BY <2>1 DEF Passed, IsLeft
  <2>6. WholeBefore'
    BY <2>1, <2>4, <2>5 DEF PayloadInv, WholeBefore
  <2>7. UnderWay'
    <3>1. Current' = Current
      BY <2>1 DEF Current
    <3> QED BY <2>1, <2>2, <2>3, <2>5, <3>1 DEF PayloadInv, UnderWay
  <2> QED BY <1>1, <2>6, <2>7 DEF PayloadInv
<1> QED BY <1>2, <1>3, <1>4 DEF InstallNext

\* When no archive has two files or links at one path, a call that returns Ok
\* has every regular file and every link of what it downloaded in place, over
\* whatever was there before, and nothing else (deb-format lib.rs 551-583).
THEOREM InstallsAreWhole ==
    ASSUME OneFilePerPath PROVE InstallSpec => []UnpackedWhole
<1>1. InstallInit => PayloadInv
  <2> SUFFICES ASSUME InstallInit PROVE PayloadInv
    OBVIOUS
  <2>1. pc = "idle" /\ DOMAIN plan = {} /\ DOMAIN dirs = {}
    BY DEF InstallInit, Empty
  <2> QED BY <2>1, ClosedInit DEF PayloadInv, WholeBefore, UnderWay, Inside
<1>2. PayloadInv => UnpackedWhole
  <2> SUFFICES ASSUME PayloadInv, Returned, NEW i \in DOMAIN plan, NEW d \in Deb(plan[i].name)
               PROVE  LET dir   == dirs[plan[i].name]
                          old   == Old(plan[i].name)
                          put   == {e \in ToSet(Debs[d]) : Stays(e)}
                          paths == {e.path : e \in put}
                      IN (\A e \in put : e.link = {} /\ e.path \in DOMAIN old => old[e.path].link = {})
                         => /\ DOMAIN dir = DOMAIN old \cup paths
                            /\ \A e \in put : dir[e.path] = Unpacked(d, e)
                            /\ \A p \in DOMAIN old \ paths : dir[p] = old[p]
    BY DEF UnpackedWhole
  <2>1. PICK n : n = plan[i].name
    OBVIOUS
  <2>2. PICK put : put = {e \in ToSet(Debs[d]) : Stays(e)}
    OBVIOUS
  <2>3. PICK s \in Nat : s = Len(Debs[d]) /\ DOMAIN Debs[d] = 1 .. s
    BY DebFacts
  <2>4. put = {Debs[d][j] : j \in StayAt(d, s)}
    <3>1. ToSet(Debs[d]) = {Debs[d][j] : j \in 1 .. s}
      BY <2>3 DEF ToSet
    <3>2. \A e : e \in put <=> \E j \in 1 .. s : Stays(Debs[d][j]) /\ e = Debs[d][j]
      BY <2>2, <3>1
    <3> QED BY <3>2 DEF StayAt
  <2>5. {e.path : e \in put} = PathsTo(d, s)
    BY <2>4 DEF PathsTo
  <2>6. Passed(i, {"configure", "done"})
    <3>1. k \in Nat /\ i \in Nat /\ i <= k
      BY LenProperties DEF PayloadInv, ClosedInv, InstallTypes, DoneIsAll, Returned
    <3> QED BY <3>1 DEF Returned, Passed
  <2>7. ASSUME \A e \in put : e.link = {} /\ e.path \in DOMAIN Old(n) => Old(n)[e.path].link = {}
        PROVE  IsUnpacked(n, d, s)
    <3>1. Apart(n, d)
      BY <2>3, <2>4, <2>7 DEF Apart, StayAt
    <3> QED BY <2>1, <2>3, <2>6, <3>1 DEF PayloadInv, WholeBefore, HasAll
  <2>8. ASSUME IsUnpacked(n, d, s)
        PROVE  /\ DOMAIN dirs[n] = DOMAIN Old(n) \cup {e.path : e \in put}
               /\ \A e \in put : dirs[n][e.path] = Unpacked(d, e)
               /\ \A p \in DOMAIN Old(n) \ {e.path : e \in put} : dirs[n][p] = Old(n)[p]
    BY <2>4, <2>5, <2>8 DEF IsUnpacked
  <2> QED BY <2>1, <2>2, <2>7, <2>8
<1> QED BY <1>1, <1>2, PayloadStep, PTL DEF InstallSpec

-----------------------------------------------------------------------------
(* The difference of two packages.                                         *)

LEMMA AtIsValue ==
    ASSUME NEW f, NEW x
    PROVE  At(f, x) = IF x \in DOMAIN f THEN {f[x]} ELSE {}
BY DEF At

LEMMA TheOne ==
    ASSUME NEW x
    PROVE  The({x}) = x
BY DEF The

Differ(old, new) == {g \in DOMAIN old.fields \cup DOMAIN new.fields : At(old.fields, g) # At(new.fields, g)}
Change(old, new, f) == [field |-> f, old |-> At(old.fields, f), new |-> At(new.fields, f)]
Difference(old, new, p) == [path |-> p, old |-> old.files[p], new |-> new.files[p]]
Rewritten(old, new) == {q \in DOMAIN old.files \cap DOMAIN new.files : old.files[q] # new.files[q]}

LEMMA ReportIs ==
    ASSUME NEW old, NEW new, NEW r, r = Compare(old, new)
    PROVE  /\ r.metadata = {Change(old, new, f) : f \in Differ(old, new)}
           /\ r.added = DOMAIN new.files \ DOMAIN old.files
           /\ r.removed = DOMAIN old.files \ DOMAIN new.files
           /\ r.modified = {Difference(old, new, p) : p \in Rewritten(old, new)}
BY DEF Compare, Change, Differ, Difference, Rewritten, Modified

LEMMA ChangesAre ==
    ASSUME NEW old, NEW new, NEW r, r = Compare(old, new), NEW f
    PROVE  Changes(r, f) = IF f \in Differ(old, new) THEN {Change(old, new, f)} ELSE {}
<1>1. \A g : Change(old, new, g).field = g
  BY DEF Change
<1> QED BY <1>1, ReportIs DEF Changes

LEMMA FieldsRebuilt ==
    ASSUME NEW old \in Contained, NEW new \in Contained,
           NEW r, r = Compare(old, new)
    PROVE  PatchedFields(old.fields, r) = new.fields
<1>1. PICK f, g : f = old.fields /\ g = new.fields
  OBVIOUS
<1>2. g = [x \in DOMAIN g |-> g[x]]
  BY <1>1 DEF Contained
<1>3. Unchanged(f, r) = {x \in DOMAIN f : At(f, x) = At(g, x)}
  <2>1. \A x : Changes(r, x) = {} <=> x \notin Differ(old, new)
    BY ChangesAre
  <2> QED BY <1>1, <2>1 DEF Unchanged, Differ
<1>4. Given(r) = {x \in DOMAIN g : At(f, x) # At(g, x)}
  <2>1. \A x : Change(old, new, x).field = x /\ Change(old, new, x).new = At(g, x)
    BY <1>1 DEF Change
  <2>2. \A x : At(g, x) # {} <=> x \in DOMAIN g
    BY AtIsValue
  <2>3. Given(r) = {x \in Differ(old, new) : At(g, x) # {}}
    BY <2>1, ReportIs DEF Given
  <2> QED BY <1>1, <2>2, <2>3 DEF Differ
<1>5. Unchanged(f, r) \cup Given(r) = DOMAIN g
  <2>1. \A x : At(f, x) = At(g, x) => (x \in DOMAIN f <=> x \in DOMAIN g)
    BY AtIsValue
  <2> QED BY <1>3, <1>4, <2>1
<1>6. ASSUME NEW x \in DOMAIN g
      PROVE  (IF x \in Unchanged(f, r) THEN f[x] ELSE The(The(Changes(r, x)).new)) = g[x]
  <2>1. CASE x \in Unchanged(f, r)
    <3>1. x \in DOMAIN f /\ {f[x]} = {g[x]}
      BY <1>3, <2>1, AtIsValue
    <3> QED BY <2>1, <3>1
  <2>2. CASE x \notin Unchanged(f, r)
    <3>1. x \in Differ(old, new)
      BY <1>1, <1>4, <1>5, <2>2 DEF Differ
    <3>2. The(Changes(r, x)) = Change(old, new, x)
      BY <3>1, ChangesAre, TheOne
    <3>3. Change(old, new, x).new = {g[x]}
      BY <1>1, AtIsValue DEF Change
    <3> QED BY <2>2, <3>2, <3>3, TheOne
  <2> QED BY <2>1, <2>2
<1> QED BY <1>1, <1>2, <1>5, <1>6 DEF PatchedFields

LEMMA FilesRebuilt ==
    ASSUME NEW old \in Contained, NEW new \in Contained,
           NEW r, r = Compare(old, new)
    PROVE  PatchedFiles(old.files, new, r) = new.files
<1>1. PICK f, g : f = old.files /\ g = new.files
  OBVIOUS
<1>2. g = [x \in DOMAIN g |-> g[x]]
  BY <1>1 DEF Contained
<1>3. r.added = DOMAIN g \ DOMAIN f /\ r.removed = DOMAIN f \ DOMAIN g
  BY <1>1, ReportIs
<1>4. (DOMAIN f \ r.removed) \cup r.added = DOMAIN g
  BY <1>3
<1>5. ASSUME NEW p
      PROVE  Contents(r, p) = IF p \in Rewritten(old, new) THEN {g[p]} ELSE {}
  <2>1. \A x : Difference(old, new, x).path = x /\ Difference(old, new, x).new = g[x]
    BY <1>1 DEF Difference
  <2> QED BY <2>1, ReportIs DEF Contents
<1>6. ASSUME NEW p \in DOMAIN g
      PROVE  (IF p \in r.added THEN new.files[p]
              ELSE IF Contents(r, p) # {} THEN The(Contents(r, p)) ELSE f[p]) = g[p]
  <2>1. CASE p \in DOMAIN f
    <3>1. p \in Rewritten(old, new) <=> f[p] # g[p]
      BY <1>1, <2>1 DEF Rewritten
    <3> QED BY <1>3, <1>5, <2>1, <3>1, TheOne
  <2>2. CASE p \notin DOMAIN f
    BY <1>1, <1>3, <2>2
  <2> QED BY <2>1, <2>2
<1> QED BY <1>1, <1>2, <1>4, <1>6 DEF PatchedFiles

\* A report of deb-diff is all that sets two packages apart: the older one
\* with the changes made is the newer one, and it is empty, and counts no
\* change, exactly for two packages that are equal (deb-diff lib.rs).
LEMMA ReportsRebuild ==
    ASSUME NEW old \in Contained, NEW new \in Contained
    PROVE  ReportRebuilds(old, new)
<1>1. PICK r : r = Compare(old, new)
  OBVIOUS
<1>2. old = [fields |-> old.fields, files |-> old.files] /\ new = [fields |-> new.fields, files |-> new.files]
  BY DEF Contained
<1>3. [fields |-> PatchedFields(old.fields, r), files |-> PatchedFiles(old.files, new, r)] = new
  BY <1>1, <1>2, FieldsRebuilt, FilesRebuilt
<1>4. IsEmpty(r) => old = new
  <2> SUFFICES ASSUME IsEmpty(r) PROVE old = new
    OBVIOUS
  <2>1. Differ(old, new) = {} /\ Rewritten(old, new) = {} /\ DOMAIN old.files = DOMAIN new.files
    <3>1. r.metadata = {} /\ r.added = {} /\ r.removed = {} /\ r.modified = {}
      BY DEF IsEmpty
    <3>2. {Change(old, new, f) : f \in Differ(old, new)} = {} /\ {Difference(old, new, p) : p \in Rewritten(old, new)} = {}
      BY <1>1, <3>1, ReportIs
    <3>3. DOMAIN new.files \ DOMAIN old.files = {} /\ DOMAIN old.files \ DOMAIN new.files = {}
      BY <1>1, <3>1, ReportIs
    <3> QED BY <3>2, <3>3
  <2>2. \A x \in DOMAIN old.fields \cup DOMAIN new.fields : At(old.fields, x) = At(new.fields, x)
    BY <2>1 DEF Differ
  <2>3. DOMAIN old.fields = DOMAIN new.fields /\ \A x \in DOMAIN old.fields : old.fields[x] = new.fields[x]
    BY <2>2, AtIsValue
  <2>4. old.fields = new.fields
    BY <2>3 DEF Contained
  <2>5. \A x \in DOMAIN old.files : old.files[x] = new.files[x]
    BY <2>1 DEF Rewritten
  <2>6. old.files = new.files
    BY <2>1, <2>5 DEF Contained
  <2> QED BY <1>2, <2>4, <2>6
<1>5. old = new => IsEmpty(r)
  <2> SUFFICES ASSUME old = new PROVE IsEmpty(r)
    OBVIOUS
  <2>1. Differ(old, new) = {} /\ Rewritten(old, new) = {}
    BY DEF Differ, Rewritten
  <2> QED BY <1>1, <2>1, ReportIs DEF IsEmpty
<1>6. /\ IsFiniteSet(r.metadata) /\ IsFiniteSet(r.added)
      /\ IsFiniteSet(r.removed) /\ IsFiniteSet(r.modified)
  <2>1. /\ DOMAIN old.fields \subseteq Label /\ DOMAIN new.fields \subseteq Label
        /\ DOMAIN old.files \subseteq Label /\ DOMAIN new.files \subseteq Label
    BY DEF Contained
  <2>2. Differ(old, new) \subseteq Label /\ Rewritten(old, new) \subseteq Label
    BY <2>1 DEF Differ, Rewritten
  <2> IsFiniteSet(Label)
    BY DifferenceAssumption
  <2>3. IsFiniteSet(Differ(old, new)) /\ IsFiniteSet(Rewritten(old, new))
    BY <2>2, FS_Subset
  <2>4. IsFiniteSet(r.added) /\ IsFiniteSet(r.removed)
    <3>1. r.added \subseteq Label /\ r.removed \subseteq Label
      BY <1>1, <2>1, ReportIs
    <3> QED BY <3>1, FS_Subset
  <2>5. IsFiniteSet({Change(old, new, f) : f \in Differ(old, new)})
    <3> DEFINE T == {Change(old, new, f) : f \in Differ(old, new)}
               h == [f \in Differ(old, new) |-> Change(old, new, f)]
    <3>1. h \in Surjection(Differ(old, new), T)
      BY DEF Surjection
    <3> HIDE DEF h, T
    <3>2. IsFiniteSet(T)
      BY <2>3, <3>1, FS_Surjection
    <3> QED BY <3>2 DEF T
  <2>6. IsFiniteSet({Difference(old, new, p) : p \in Rewritten(old, new)})
    <3> DEFINE T == {Difference(old, new, p) : p \in Rewritten(old, new)}
               h == [p \in Rewritten(old, new) |-> Difference(old, new, p)]
    <3>1. h \in Surjection(Rewritten(old, new), T)
      BY DEF Surjection
    <3> HIDE DEF h, T
    <3>2. IsFiniteSet(T)
      BY <2>3, <3>1, FS_Surjection
    <3> QED BY <3>2 DEF T
  <2>7. /\ r.metadata = {Change(old, new, f) : f \in Differ(old, new)}
        /\ r.modified = {Difference(old, new, p) : p \in Rewritten(old, new)}
    BY <1>1, ReportIs
  <2> QED BY <2>4, <2>5, <2>6, <2>7
<1>7. (ChangeCount(r) = 0) <=> IsEmpty(r)
  <2>1. PICK a, b, c, d : /\ a = Cardinality(r.metadata) /\ b = Cardinality(r.added)
                          /\ c = Cardinality(r.removed) /\ d = Cardinality(r.modified)
    OBVIOUS
  <2>2. a \in Nat /\ b \in Nat /\ c \in Nat /\ d \in Nat
    BY <1>6, <2>1, FS_CardinalityType
  <2>3. /\ (a = 0 <=> r.metadata = {}) /\ (b = 0 <=> r.added = {})
        /\ (c = 0 <=> r.removed = {}) /\ (d = 0 <=> r.modified = {})
    BY <1>6, <2>1, FS_EmptySet
  <2>4. ChangeCount(r) = a + b + c + d
    BY <2>1 DEF ChangeCount
  <2>5. (a + b + c + d = 0) <=> (a = 0 /\ b = 0 /\ c = 0 /\ d = 0)
    BY <2>2
  <2> QED BY <2>3, <2>4, <2>5 DEF IsEmpty
<1> QED BY <1>1, <1>3, <1>4, <1>5, <1>7 DEF ReportRebuilds

-----------------------------------------------------------------------------
(* The delta of an index: the numbers of the format.                       *)

PowerTo(f, m) == [n \in 0 .. m |-> IF n = 0 THEN 1 ELSE f[n - 1] * Radix]
PowerRun(m) == CHOOSE f : f = PowerTo(f, m)

LEMMA PowerRuns ==
    ASSUME NEW m \in Nat
    PROVE  PowerRun(m) = PowerTo(PowerRun(m), m)
<1> DEFINE G == {n \in 0 .. m : \E f : f = PowerTo(f, n)}
<1>1. 0 \in G
  <2>1. [i \in 0 .. 0 |-> 1] = PowerTo([i \in 0 .. 0 |-> 1], 0)
    BY DEF PowerTo
  <2> QED BY <2>1
<1>2. ASSUME NEW n \in 0 .. m - 1, n \in G PROVE n + 1 \in G
  <2>1. PICK f : f = PowerTo(f, n)
    BY <1>2
  <2> DEFINE g == [i \in 0 .. n + 1 |-> IF i = 0 THEN 1 ELSE f[i - 1] * Radix]
  <2>2. \A i \in 0 .. n : g[i] = f[i]
    <3>1. \A i \in 0 .. n : g[i] = PowerTo(f, n)[i]
      BY DEF PowerTo
    <3> QED BY <2>1, <3>1, Zenon
  <2>3. \A i \in 0 .. n + 1 : i # 0 => i - 1 \in 0 .. n
    OBVIOUS
  <2>4. g = PowerTo(g, n + 1)
    BY <2>2, <2>3 DEF PowerTo
  <2> QED BY <2>4
<1>3. m \in G
  <2>1. \A n \in 0 .. m - 1 : n \in G => n + 1 \in G
    BY <1>2
  <2> HIDE DEF G
  <2> QED BY <1>1, <2>1, Induction
<1> QED BY <1>3 DEF PowerRun

\* Its values.
LEMMA PowerSteps ==
    ASSUME NEW m \in Nat, NEW f, f = PowerRun(m)
    PROVE  f[0] = 1 /\ \A n \in 0 .. m - 1 : f[n + 1] = f[n] * Radix
<1>1. f = PowerTo(f, m)
  BY PowerRuns
<1>2. \A n \in 0 .. m : f[n] = IF n = 0 THEN 1 ELSE f[n - 1] * Radix
  <2>1. \A n \in 0 .. m : PowerTo(f, m)[n] = IF n = 0 THEN 1 ELSE f[n - 1] * Radix
    BY DEF PowerTo
  <2> QED BY <1>1, <2>1, Zenon
<1>3. 0 \in 0 .. m /\ \A n \in 0 .. m - 1 : n + 1 \in 0 .. m /\ n + 1 # 0 /\ (n + 1) - 1 = n
  OBVIOUS
<1>4. ASSUME NEW n \in 0 .. m - 1 PROVE f[n + 1] = f[n] * Radix
  <2>1. f[n + 1] = f[(n + 1) - 1] * Radix
    BY <1>2, <1>3
  <2> QED BY <1>3, <2>1
<1> QED BY <1>2, <1>3, <1>4

ReadTo(f, bytes, m) == [n \in 0 .. m |-> IF n = 0 THEN 0 ELSE f[n - 1] * Radix + bytes[n]]
ReadRun(bytes, m) == CHOOSE f : f = ReadTo(f, bytes, m)

LEMMA ReadRuns ==
    ASSUME NEW bytes, NEW m \in Nat
    PROVE  ReadRun(bytes, m) = ReadTo(ReadRun(bytes, m), bytes, m)
<1> DEFINE G == {n \in 0 .. m : \E f : f = ReadTo(f, bytes, n)}
<1>1. 0 \in G
  <2>1. [i \in 0 .. 0 |-> 0] = ReadTo([i \in 0 .. 0 |-> 0], bytes, 0)
    BY DEF ReadTo
  <2> QED BY <2>1
<1>2. ASSUME NEW n \in 0 .. m - 1, n \in G PROVE n + 1 \in G
  <2>1. PICK f : f = ReadTo(f, bytes, n)
    BY <1>2
  <2> DEFINE g == [i \in 0 .. n + 1 |-> IF i = 0 THEN 0 ELSE f[i - 1] * Radix + bytes[i]]
  <2>2. \A i \in 0 .. n : g[i] = f[i]
    <3>1. \A i \in 0 .. n : g[i] = ReadTo(f, bytes, n)[i]
      BY DEF ReadTo
    <3> QED BY <2>1, <3>1, Zenon
  <2>3. \A i \in 0 .. n + 1 : i # 0 => i - 1 \in 0 .. n
    OBVIOUS
  <2>4. g = ReadTo(g, bytes, n + 1)
    BY <2>2, <2>3 DEF ReadTo
  <2> QED BY <2>4
<1>3. m \in G
  <2>1. \A n \in 0 .. m - 1 : n \in G => n + 1 \in G
    BY <1>2
  <2> HIDE DEF G
  <2> QED BY <1>1, <2>1, Induction
<1> QED BY <1>3 DEF ReadRun

\* Its values.
LEMMA ReadSteps ==
    ASSUME NEW bytes, NEW m \in Nat, NEW f, f = ReadRun(bytes, m)
    PROVE  f[0] = 0 /\ \A n \in 0 .. m - 1 : f[n + 1] = f[n] * Radix + bytes[n + 1]
<1>1. f = ReadTo(f, bytes, m)
  BY ReadRuns
<1>2. \A n \in 0 .. m : f[n] = IF n = 0 THEN 0 ELSE f[n - 1] * Radix + bytes[n]
  <2>1. \A n \in 0 .. m : ReadTo(f, bytes, m)[n] = IF n = 0 THEN 0 ELSE f[n - 1] * Radix + bytes[n]
    BY DEF ReadTo
  <2> QED BY <1>1, <2>1, Zenon
<1>3. 0 \in 0 .. m /\ \A n \in 0 .. m - 1 : n + 1 \in 0 .. m /\ n + 1 # 0 /\ (n + 1) - 1 = n
  OBVIOUS
<1>4. ASSUME NEW n \in 0 .. m - 1 PROVE f[n + 1] = f[n] * Radix + bytes[n + 1]
  <2>1. f[n + 1] = f[(n + 1) - 1] * Radix + bytes[n + 1]
    BY <1>2, <1>3
  <2> QED BY <1>3, <2>1
<1> QED BY <1>2, <1>3, <1>4

ShiftTo(f, v, m) == [n \in 0 .. m |-> IF n = 0 THEN v ELSE f[n - 1] \div Radix]
ShiftRun(v, m) == CHOOSE f : f = ShiftTo(f, v, m)

LEMMA ShiftRuns ==
    ASSUME NEW v, NEW m \in Nat
    PROVE  ShiftRun(v, m) = ShiftTo(ShiftRun(v, m), v, m)
<1> DEFINE G == {n \in 0 .. m : \E f : f = ShiftTo(f, v, n)}
<1>1. 0 \in G
  <2>1. [i \in 0 .. 0 |-> v] = ShiftTo([i \in 0 .. 0 |-> v], v, 0)
    BY DEF ShiftTo
  <2> QED BY <2>1
<1>2. ASSUME NEW n \in 0 .. m - 1, n \in G PROVE n + 1 \in G
  <2>1. PICK f : f = ShiftTo(f, v, n)
    BY <1>2
  <2> DEFINE g == [i \in 0 .. n + 1 |-> IF i = 0 THEN v ELSE f[i - 1] \div Radix]
  <2>2. \A i \in 0 .. n : g[i] = f[i]
    <3>1. \A i \in 0 .. n : g[i] = ShiftTo(f, v, n)[i]
      BY DEF ShiftTo
    <3> QED BY <2>1, <3>1, Zenon
  <2>3. \A i \in 0 .. n + 1 : i # 0 => i - 1 \in 0 .. n
    OBVIOUS
  <2>4. g = ShiftTo(g, v, n + 1)
    BY <2>2, <2>3 DEF ShiftTo
  <2> QED BY <2>4
<1>3. m \in G
  <2>1. \A n \in 0 .. m - 1 : n \in G => n + 1 \in G
    BY <1>2
  <2> HIDE DEF G
  <2> QED BY <1>1, <2>1, Induction
<1> QED BY <1>3 DEF ShiftRun

\* Its values.
LEMMA ShiftSteps ==
    ASSUME NEW v, NEW m \in Nat, NEW f, f = ShiftRun(v, m)
    PROVE  f[0] = v /\ \A n \in 0 .. m - 1 : f[n + 1] = f[n] \div Radix
<1>1. f = ShiftTo(f, v, m)
  BY ShiftRuns
<1>2. \A n \in 0 .. m : f[n] = IF n = 0 THEN v ELSE f[n - 1] \div Radix
  <2>1. \A n \in 0 .. m : ShiftTo(f, v, m)[n] = IF n = 0 THEN v ELSE f[n - 1] \div Radix
    BY DEF ShiftTo
  <2> QED BY <1>1, <2>1, Zenon
<1>3. 0 \in 0 .. m /\ \A n \in 0 .. m - 1 : n + 1 \in 0 .. m /\ n + 1 # 0 /\ (n + 1) - 1 = n
  OBVIOUS
<1>4. ASSUME NEW n \in 0 .. m - 1 PROVE f[n + 1] = f[n] \div Radix
  <2>1. f[n + 1] = f[(n + 1) - 1] \div Radix
    BY <1>2, <1>3
  <2> QED BY <1>3, <2>1
<1> QED BY <1>2, <1>3, <1>4

DeltaTo(f, ops, m) == [n \in 0 .. m |-> IF n = 0 THEN <<Magic>> ELSE f[n - 1] \o EncodeOp(ops[n])]
DeltaRun(ops, m) == CHOOSE f : f = DeltaTo(f, ops, m)

LEMMA DeltaRuns ==
    ASSUME NEW ops, NEW m \in Nat
    PROVE  DeltaRun(ops, m) = DeltaTo(DeltaRun(ops, m), ops, m)
<1> DEFINE G == {n \in 0 .. m : \E f : f = DeltaTo(f, ops, n)}
<1>1. 0 \in G
  <2>1. [i \in 0 .. 0 |-> <<Magic>>] = DeltaTo([i \in 0 .. 0 |-> <<Magic>>], ops, 0)
    BY DEF DeltaTo
  <2> QED BY <2>1
<1>2. ASSUME NEW n \in 0 .. m - 1, n \in G PROVE n + 1 \in G
  <2>1. PICK f : f = DeltaTo(f, ops, n)
    BY <1>2
  <2> DEFINE g == [i \in 0 .. n + 1 |-> IF i = 0 THEN <<Magic>> ELSE f[i - 1] \o EncodeOp(ops[i])]
  <2>2. \A i \in 0 .. n : g[i] = f[i]
    <3>1. \A i \in 0 .. n : g[i] = DeltaTo(f, ops, n)[i]
      BY DEF DeltaTo
    <3> QED BY <2>1, <3>1, Zenon
  <2>3. \A i \in 0 .. n + 1 : i # 0 => i - 1 \in 0 .. n
    OBVIOUS
  <2>4. g = DeltaTo(g, ops, n + 1)
    BY <2>2, <2>3 DEF DeltaTo
  <2> QED BY <2>4
<1>3. m \in G
  <2>1. \A n \in 0 .. m - 1 : n \in G => n + 1 \in G
    BY <1>2
  <2> HIDE DEF G
  <2> QED BY <1>1, <2>1, Induction
<1> QED BY <1>3 DEF DeltaRun

\* Its values.
LEMMA DeltaSteps ==
    ASSUME NEW ops, NEW m \in Nat, NEW f, f = DeltaRun(ops, m)
    PROVE  f[0] = <<Magic>> /\ \A n \in 0 .. m - 1 : f[n + 1] = f[n] \o EncodeOp(ops[n + 1])
<1>1. f = DeltaTo(f, ops, m)
  BY DeltaRuns
<1>2. \A n \in 0 .. m : f[n] = IF n = 0 THEN <<Magic>> ELSE f[n - 1] \o EncodeOp(ops[n])
  <2>1. \A n \in 0 .. m : DeltaTo(f, ops, m)[n] = IF n = 0 THEN <<Magic>> ELSE f[n - 1] \o EncodeOp(ops[n])
    BY DEF DeltaTo
  <2> QED BY <1>1, <2>1, Zenon
<1>3. 0 \in 0 .. m /\ \A n \in 0 .. m - 1 : n + 1 \in 0 .. m /\ n + 1 # 0 /\ (n + 1) - 1 = n
  OBVIOUS
<1>4. ASSUME NEW n \in 0 .. m - 1 PROVE f[n + 1] = f[n] \o EncodeOp(ops[n + 1])
  <2>1. f[n + 1] = f[(n + 1) - 1] \o EncodeOp(ops[n + 1])
    BY <1>2, <1>3
  <2> QED BY <1>3, <2>1
<1> QED BY <1>2, <1>3, <1>4

OutputTo(f, base, ops, m) == [n \in 0 .. m |-> IF n = 0 THEN <<>> ELSE f[n - 1] \o Piece(base, ops[n])]
OutputRun(base, ops, m) == CHOOSE f : f = OutputTo(f, base, ops, m)

LEMMA OutputRuns ==
    ASSUME NEW base, NEW ops, NEW m \in Nat
    PROVE  OutputRun(base, ops, m) = OutputTo(OutputRun(base, ops, m), base, ops, m)
<1> DEFINE G == {n \in 0 .. m : \E f : f = OutputTo(f, base, ops, n)}
<1>1. 0 \in G
  <2>1. [i \in 0 .. 0 |-> <<>>] = OutputTo([i \in 0 .. 0 |-> <<>>], base, ops, 0)
    BY DEF OutputTo
  <2> QED BY <2>1
<1>2. ASSUME NEW n \in 0 .. m - 1, n \in G PROVE n + 1 \in G
  <2>1. PICK f : f = OutputTo(f, base, ops, n)
    BY <1>2
  <2> DEFINE g == [i \in 0 .. n + 1 |-> IF i = 0 THEN <<>> ELSE f[i - 1] \o Piece(base, ops[i])]
  <2>2. \A i \in 0 .. n : g[i] = f[i]
    <3>1. \A i \in 0 .. n : g[i] = OutputTo(f, base, ops, n)[i]
      BY DEF OutputTo
    <3> QED BY <2>1, <3>1, Zenon
  <2>3. \A i \in 0 .. n + 1 : i # 0 => i - 1 \in 0 .. n
    OBVIOUS
  <2>4. g = OutputTo(g, base, ops, n + 1)
    BY <2>2, <2>3 DEF OutputTo
  <2> QED BY <2>4
<1>3. m \in G
  <2>1. \A n \in 0 .. m - 1 : n \in G => n + 1 \in G
    BY <1>2
  <2> HIDE DEF G
  <2> QED BY <1>1, <2>1, Induction
<1> QED BY <1>3 DEF OutputRun

\* Its values.
IsOutput(f, base, ops, m) ==
    f[0] = <<>> /\ \A n \in 0 .. m - 1 : f[n + 1] = f[n] \o Piece(base, ops[n + 1])

LEMMA OutputIs ==
    ASSUME NEW base, NEW ops, NEW m \in Nat, NEW f, f = OutputRun(base, ops, m)
    PROVE  IsOutput(f, base, ops, m)
<1>1. f = OutputTo(f, base, ops, m)
  BY OutputRuns
<1>2. \A n \in 0 .. m : f[n] = IF n = 0 THEN <<>> ELSE f[n - 1] \o Piece(base, ops[n])
  <2>1. \A n \in 0 .. m : OutputTo(f, base, ops, m)[n] = IF n = 0 THEN <<>> ELSE f[n - 1] \o Piece(base, ops[n])
    BY DEF OutputTo
  <2> QED BY <1>1, <2>1, Zenon
<1>3. 0 \in 0 .. m /\ \A n \in 0 .. m - 1 : n + 1 \in 0 .. m /\ n + 1 # 0 /\ (n + 1) - 1 = n
  OBVIOUS
<1>4. ASSUME NEW n \in 0 .. m - 1 PROVE f[n + 1] = f[n] \o Piece(base, ops[n + 1])
  <2>1. f[n + 1] = f[(n + 1) - 1] \o Piece(base, ops[n + 1])
    BY <1>2, <1>3
  <2> QED BY <1>3, <2>1
<1> QED BY <1>2, <1>3, <1>4 DEF IsOutput

TurnTo(f, base, d, m) == [n \in 0 .. m |-> IF n = 0 THEN [state |-> "reading", i |-> 2, out |-> <<>>] ELSE Apply1(f[n - 1], d, base)]
TurnRun(base, d, m) == CHOOSE f : f = TurnTo(f, base, d, m)

LEMMA TurnRuns ==
    ASSUME NEW base, NEW d, NEW m \in Nat
    PROVE  TurnRun(base, d, m) = TurnTo(TurnRun(base, d, m), base, d, m)
<1> DEFINE G == {n \in 0 .. m : \E f : f = TurnTo(f, base, d, n)}
<1>1. 0 \in G
  <2>1. [i \in 0 .. 0 |-> [state |-> "reading", i |-> 2, out |-> <<>>]] = TurnTo([i \in 0 .. 0 |-> [state |-> "reading", i |-> 2, out |-> <<>>]], base, d, 0)
    BY DEF TurnTo
  <2> QED BY <2>1
<1>2. ASSUME NEW n \in 0 .. m - 1, n \in G PROVE n + 1 \in G
  <2>1. PICK f : f = TurnTo(f, base, d, n)
    BY <1>2
  <2> DEFINE g == [i \in 0 .. n + 1 |-> IF i = 0 THEN [state |-> "reading", i |-> 2, out |-> <<>>] ELSE Apply1(f[i - 1], d, base)]
  <2>2. \A i \in 0 .. n : g[i] = f[i]
    <3>1. \A i \in 0 .. n : g[i] = TurnTo(f, base, d, n)[i]
      BY DEF TurnTo
    <3> QED BY <2>1, <3>1, Zenon
  <2>3. \A i \in 0 .. n + 1 : i # 0 => i - 1 \in 0 .. n
    OBVIOUS
  <2>4. g = TurnTo(g, base, d, n + 1)
    BY <2>2, <2>3 DEF TurnTo
  <2> QED BY <2>4
<1>3. m \in G
  <2>1. \A n \in 0 .. m - 1 : n \in G => n + 1 \in G
    BY <1>2
  <2> HIDE DEF G
  <2> QED BY <1>1, <2>1, Induction
<1> QED BY <1>3 DEF TurnRun

\* Its values.
LEMMA TurnSteps ==
    ASSUME NEW base, NEW d, NEW m \in Nat, NEW f, f = TurnRun(base, d, m)
    PROVE  f[0] = [state |-> "reading", i |-> 2, out |-> <<>>] /\ \A n \in 0 .. m - 1 : f[n + 1] = Apply1(f[n], d, base)
<1>1. f = TurnTo(f, base, d, m)
  BY TurnRuns
<1>2. \A n \in 0 .. m : f[n] = IF n = 0 THEN [state |-> "reading", i |-> 2, out |-> <<>>] ELSE Apply1(f[n - 1], d, base)
  <2>1. \A n \in 0 .. m : TurnTo(f, base, d, m)[n] = IF n = 0 THEN [state |-> "reading", i |-> 2, out |-> <<>>] ELSE Apply1(f[n - 1], d, base)
    BY DEF TurnTo
  <2> QED BY <1>1, <2>1, Zenon
<1>3. 0 \in 0 .. m /\ \A n \in 0 .. m - 1 : n + 1 \in 0 .. m /\ n + 1 # 0 /\ (n + 1) - 1 = n
  OBVIOUS
<1>4. ASSUME NEW n \in 0 .. m - 1 PROVE f[n + 1] = Apply1(f[n], d, base)
  <2>1. f[n + 1] = Apply1(f[(n + 1) - 1], d, base)
    BY <1>2, <1>3
  <2> QED BY <1>3, <2>1
<1> QED BY <1>2, <1>3, <1>4

\* The powers of the radix.
LEMMA Powers ==
    /\ Power[0] = 1
    /\ \A n \in 1 .. MaxBytes : Power[n] = Power[n - 1] * Radix
    /\ \A n \in 0 .. MaxBytes : Power[n] \in Nat \ {0}
<1>1. MaxBytes \in Nat /\ Radix \in Nat /\ Radix > 1
  BY RdiffAssumption
<1>2. Power = PowerRun(MaxBytes)
  BY Zenon DEF Power, PowerRun, PowerTo
<1>3. Power[0] = 1 /\ \A n \in 0 .. MaxBytes - 1 : Power[n + 1] = Power[n] * Radix
  BY <1>1, <1>2, PowerSteps
<1> DEFINE G == {n \in 0 .. MaxBytes : Power[n] \in Nat \ {0}}
<1>4. 0 \in G
  BY <1>1, <1>3
<1>5. ASSUME NEW n \in 0 .. MaxBytes - 1, n \in G PROVE n + 1 \in G
  <2>1. PICK p : p = Power[n]
    OBVIOUS
  <2>2. p \in Nat \ {0} /\ Power[n + 1] = p * Radix
    BY <1>3, <1>5, <2>1
  <2>3. p * Radix \in Nat \ {0}
    BY <1>1, <2>2
  <2> QED BY <1>1, <2>2, <2>3
<1>6. 0 .. MaxBytes \subseteq G
  <2> HIDE DEF G
  <2> QED BY <1>1, <1>4, <1>5, Induction
<1>7. \A n \in 1 .. MaxBytes : n - 1 \in 0 .. MaxBytes - 1 /\ (n - 1) + 1 = n
  BY <1>1
<1> QED BY <1>3, <1>6, <1>7

\* What div and % do.
LEMMA DivMod ==
    ASSUME NEW x \in Nat
    PROVE  /\ x \div Radix \in Nat /\ x % Radix \in Nat
           /\ (x \div Radix) * Radix + (x % Radix) = x
           /\ \A p \in Nat : x < p * Radix => x \div Radix < p
<1>1. PICK r : r = Radix /\ r \in Nat /\ r > 1
  BY RdiffAssumption
<1>2. PICK q, e : q = x \div r /\ e = x % r
  OBVIOUS
<1>3. q \in Nat /\ e \in Nat /\ q * r + e = x
  BY <1>1, <1>2
<1>4. ASSUME NEW p \in Nat, x < p * r PROVE q < p
  <2>1. q >= p => q * r >= p * r
    BY <1>1, <1>3
  <2>2. q * r \in Int /\ p * r \in Int
    BY <1>1, <1>3
  <2> QED BY <1>3, <1>4, <2>1, <2>2
<1> QED BY <1>1, <1>2, <1>3, <1>4

\* A number is written in its bytes and read back, if they are enough for it.
IsNumber(bytes, v, n) == bytes \in Seq(Int) /\ Len(bytes) = n /\ ReadBe(bytes) = v

LEMMA WrittenIsRead ==
    ASSUME NEW n \in 1 .. MaxBytes, NEW v \in Nat, v < Power[n]
    PROVE  IsNumber(WriteBe(v, n), v, n)
<1>1. MaxBytes \in Nat /\ Radix \in Nat /\ Radix > 1 /\ n \in Nat
  BY RdiffAssumption
<1>2. PICK f : f = ShiftRun(v, n)
  OBVIOUS
<1>3. f[0] = v /\ \A j \in 0 .. n - 1 : f[j + 1] = f[j] \div Radix
  BY <1>1, <1>2, ShiftSteps
<1> DEFINE G == {j \in 0 .. n : f[j] \in Nat /\ f[j] < Power[n - j]}
<1>4. 0 \in G
  BY <1>1, <1>3
<1>5. ASSUME NEW j \in 0 .. n - 1, j \in G PROVE j + 1 \in G
  <2>1. PICK x, p : x = f[j] /\ p = Power[n - (j + 1)]
    OBVIOUS
  <2>2. n - j \in 1 .. MaxBytes /\ (n - j) - 1 = n - (j + 1) /\ n - (j + 1) \in 0 .. MaxBytes
    BY <1>1
  <2>3. Power[n - j] = p * Radix /\ p \in Nat
    <3>1. Power[n - j] = Power[(n - j) - 1] * Radix
      BY <2>2, Powers
    <3> QED BY <2>1, <2>2, <3>1, Powers
  <2>4. x \in Nat /\ x < p * Radix
    BY <1>5, <2>1, <2>3
  <2>5. x \div Radix \in Nat /\ x \div Radix < p
    BY <2>3, <2>4, DivMod
  <2>6. f[j + 1] = x \div Radix
    BY <1>3, <2>1
  <2>7. j + 1 \in 0 .. n
    BY <1>1
  <2> QED BY <2>1, <2>5, <2>6, <2>7
<1>6. 0 .. n \subseteq G
  <2> HIDE DEF G
  <2> QED BY <1>1, <1>4, <1>5, Induction
<1>7. \A j \in 0 .. n : f[j] \in Nat
  BY <1>6
<1>8. f[n] = 0
  <2>1. n \in 0 .. n /\ n - n = 0
    BY <1>1
  <2>2. f[n] \in Nat /\ f[n] < Power[0]
    BY <1>6, <2>1
  <2> QED BY <2>2, Powers
<1>9. PICK w : w = WriteBe(v, n)
  OBVIOUS
<1>10. w = [j \in 1 .. n |-> f[n - j] % Radix]
  <2>1. WriteBe(v, n) = [j \in 1 .. n |-> ShiftRun(v, n)[n - j] % Radix]
    BY Zenon DEF WriteBe, ShiftRun, ShiftTo
  <2> QED BY <1>2, <1>9, <2>1
<1>11. w \in Seq(Int) /\ Len(w) = n
  <2>1. \A j \in 1 .. n : f[n - j] % Radix \in Int
    <3> SUFFICES ASSUME NEW j \in 1 .. n PROVE f[n - j] % Radix \in Int
      OBVIOUS
    <3>1. n - j \in 0 .. n
      BY <1>1
    <3>2. f[n - j] \in Nat
      BY <1>7, <3>1
    <3> QED BY <3>2, DivMod
  <2>2. w \in [1 .. n -> Int]
    BY <1>10, <2>1
  <2> QED BY <1>1, <2>2, FunctionIsSeq
<1>12. PICK r : r = ReadRun(w, n)
  OBVIOUS
<1>13. r[0] = 0 /\ \A j \in 0 .. n - 1 : r[j + 1] = r[j] * Radix + w[j + 1]
  BY <1>1, <1>12, ReadSteps
<1> DEFINE H == {j \in 0 .. n : r[j] = f[n - j]}
<1>14. 0 \in H
  BY <1>1, <1>8, <1>13
<1>15. ASSUME NEW j \in 0 .. n - 1, j \in H PROVE j + 1 \in H
  <2>1. PICK a : a = n - (j + 1)
    OBVIOUS
  <2>2. a \in 0 .. n - 1 /\ a + 1 = n - j /\ a \in 0 .. n /\ j + 1 \in 1 .. n /\ j + 1 \in 0 .. n
    BY <1>1, <2>1
  <2>3. PICK x : x = f[a]
    OBVIOUS
  <2>4. x \in Nat /\ f[a + 1] = x \div Radix
    BY <1>3, <1>7, <2>2, <2>3
  <2>5. w[j + 1] = x % Radix
    BY <1>10, <2>1, <2>2, <2>3
  <2>6. r[j] = x \div Radix
    BY <1>15, <2>2, <2>4
  <2>7. r[j + 1] = (x \div Radix) * Radix + (x % Radix)
    BY <1>13, <2>5, <2>6
  <2>8. r[j + 1] = x
    BY <2>4, <2>7, DivMod
  <2> QED BY <2>1, <2>2, <2>3, <2>8
<1>16. 0 .. n \subseteq H
  <2> HIDE DEF H
  <2> QED BY <1>1, <1>14, <1>15, Induction
<1>17. r[n] = v
  <2>1. n \in 0 .. n /\ n - n = 0
    BY <1>1
  <2> QED BY <1>3, <1>16, <2>1
<1>18. ReadBe(w) = r[n]
  BY <1>11, <1>12, Zenon DEF ReadBe, ReadRun, ReadTo
<1> QED BY <1>9, <1>11, <1>17, <1>18 DEF IsNumber

LEMMA EnoughBytes ==
    ASSUME NEW v \in Nat, v < Power[MaxBytes]
    PROVE  BytesNeeded(v) \in 1 .. MaxBytes /\ v < Power[BytesNeeded(v)]
<1> DEFINE need == {n \in 1 .. MaxBytes : v < Power[n]}
<1>1. MaxBytes \in 1 .. MaxBytes /\ need \in SUBSET Nat
  BY RdiffAssumption
<1>2. need # {}
  BY <1>1
<1>3. \E n \in need : \A j \in need : n <= j
  <2> HIDE DEF need
  <2> QED BY <1>1, <1>2, LeastExists
<1>4. BytesNeeded(v) = CHOOSE n \in need : \A j \in need : n <= j
  BY <1>2 DEF BytesNeeded
<1>5. BytesNeeded(v) \in need
  <2> HIDE DEF need
  <2> QED BY <1>3, <1>4
<1> QED BY <1>5

-----------------------------------------------------------------------------
(* An operation of a delta, and where its bytes are.                       *)

IsSmall(op) == op.from < Power[MaxBytes] /\ op.length < Power[MaxBytes] /\ Len(op.data) < Power[MaxBytes]
DeltaOp == [literal : BOOLEAN, data : Seq(Int), from : Nat, length : Nat]

Spells(e, at, x, n) == \A j \in 1 .. n : e[at + j] = x[j]
WrittenLiteral(op, e) ==
    \E n \in 1 .. 4 : \E x :
        /\ Len(e) = 1 + n + Len(op.data) /\ e[1] = 64 + n
        /\ IsNumber(x, Len(op.data), n) /\ Spells(e, 1, x, n)
        /\ Spells(e, 1 + n, op.data, Len(op.data))
WrittenCopy(op, e) ==
    \E a, b \in 1 .. 4 : \E x, y :
        /\ Len(e) = 1 + a + b /\ e[1] = 69 + (a - 1) * 4 + (b - 1)
        /\ IsNumber(x, op.from, a) /\ Spells(e, 1, x, a)
        /\ IsNumber(y, op.length, b) /\ Spells(e, 1 + a, y, b)
IsEncoded(op, e) ==
    e \in Seq(Int) /\ Len(e) \in Nat \ {0} /\ (IF op.literal THEN WrittenLiteral(op, e) ELSE WrittenCopy(op, e))

\* A head and two parts, one after the other.
IsJoined(e, h, x, y) ==
    /\ e \in Seq(Int) /\ Len(e) = 1 + Len(x) + Len(y) /\ e[1] = h
    /\ Spells(e, 1, x, Len(x)) /\ Spells(e, 1 + Len(x), y, Len(y))
LEMMA JoinedIs ==
    ASSUME NEW h \in Int, NEW x \in Seq(Int), NEW y \in Seq(Int), NEW e, e = <<h>> \o x \o y
    PROVE  IsJoined(e, h, x, y)
<1>1. PICK c, u : c = <<h>> /\ u = c \o x
  OBVIOUS
<1>2. c \in Seq(Int) /\ Len(c) = 1 /\ c[1] = h
  BY <1>1
<1>3. /\ u \in Seq(Int) /\ Len(u) = 1 + Len(x)
      /\ \A j \in 1 .. 1 + Len(x) : u[j] = IF j <= 1 THEN c[j] ELSE x[j - 1]
  BY <1>1, <1>2, ConcatProperties
<1>4. e = u \o y
  BY <1>1
<1>5. /\ e \in Seq(Int) /\ Len(e) = Len(u) + Len(y)
      /\ \A j \in 1 .. Len(u) + Len(y) : e[j] = IF j <= Len(u) THEN u[j] ELSE y[j - Len(u)]
  BY <1>3, <1>4, ConcatProperties
<1>6. Len(x) \in Nat /\ Len(y) \in Nat
  OBVIOUS
<1>7. e[1] = h
  <2>1. 1 \in 1 .. Len(u) + Len(y) /\ 1 <= Len(u) /\ 1 \in 1 .. 1 + Len(x)
    BY <1>3, <1>6
  <2> QED BY <1>2, <1>3, <1>5, <2>1
<1>8. ASSUME NEW j \in 1 .. Len(x) PROVE e[1 + j] = x[j]
  <2>1. PICK a : a = 1 + j
    OBVIOUS
  <2>2. a \in 1 .. Len(u) + Len(y) /\ a <= Len(u) /\ a \in 1 .. 1 + Len(x) /\ ~(a <= 1) /\ a - 1 = j
    BY <1>3, <1>6, <2>1
  <2>3. e[a] = u[a] /\ u[a] = x[a - 1]
    BY <1>3, <1>5, <2>2
  <2> QED BY <2>1, <2>2, <2>3
<1>9. ASSUME NEW j \in 1 .. Len(y) PROVE e[1 + Len(x) + j] = y[j]
  <2>1. PICK a : a = 1 + Len(x) + j
    OBVIOUS
  <2>2. a \in 1 .. Len(u) + Len(y) /\ ~(a <= Len(u)) /\ a - Len(u) = j
    BY <1>3, <1>6, <2>1
  <2>3. e[a] = y[a - Len(u)]
    BY <1>5, <2>2
  <2> QED BY <2>1, <2>2, <2>3
<1> QED BY <1>3, <1>5, <1>7, <1>8, <1>9 DEF IsJoined, Spells

LEMMA EncodedOp ==
    ASSUME NEW op \in DeltaOp, IsSmall(op), NEW e, e = EncodeOp(op)
    PROVE  IsEncoded(op, e)
<1>1. op.data \in Seq(Int) /\ Len(op.data) \in Nat /\ op.from \in Nat /\ op.length \in Nat
  BY DEF DeltaOp
<1>2. \A n \in 1 .. MaxBytes : n \in 1 .. 4
  BY RdiffAssumption
<1>3. CASE op.literal
  <2>1. PICK v, n, x : v = Len(op.data) /\ n = BytesNeeded(v) /\ x = WriteBe(v, n)
    OBVIOUS
  <2>2. n \in 1 .. MaxBytes /\ v \in Nat /\ v < Power[n]
    BY <1>1, <2>1, EnoughBytes DEF IsSmall
  <2>3. IsNumber(x, v, n)
    BY <2>1, <2>2, WrittenIsRead
  <2>4. e = <<64 + n>> \o x \o op.data
    BY <1>3, <2>1 DEF EncodeOp
  <2>5. PICK h : h = 64 + n
    OBVIOUS
  <2>6. h \in Int /\ x \in Seq(Int) /\ Len(x) = n
    BY <1>2, <2>2, <2>3, <2>5 DEF IsNumber
  <2>7. IsJoined(e, h, x, op.data)
    BY <1>1, <2>4, <2>5, <2>6, JoinedIs
  <2>8. WrittenLiteral(op, e)
    BY <1>2, <2>1, <2>2, <2>3, <2>5, <2>6, <2>7 DEF IsJoined, WrittenLiteral
  <2>9. e \in Seq(Int) /\ Len(e) = 1 + n + v
    BY <2>1, <2>6, <2>7 DEF IsJoined
  <2>10. Len(e) \in Nat \ {0}
    BY <1>2, <2>2, <2>9
  <2> QED BY <1>3, <2>8, <2>9, <2>10 DEF IsEncoded
<1>4. CASE ~op.literal
  <2>1. PICK a, b, x, y : /\ a = BytesNeeded(op.from) /\ b = BytesNeeded(op.length)
                          /\ x = WriteBe(op.from, a) /\ y = WriteBe(op.length, b)
    OBVIOUS
  <2>2. a \in 1 .. MaxBytes /\ op.from < Power[a]
    BY <1>1, <2>1, EnoughBytes DEF IsSmall
  <2>3. b \in 1 .. MaxBytes /\ op.length < Power[b]
    BY <1>1, <2>1, EnoughBytes DEF IsSmall
  <2>4. IsNumber(x, op.from, a) /\ IsNumber(y, op.length, b)
    BY <1>1, <2>1, <2>2, <2>3, WrittenIsRead
  <2>5. PICK h : h = 69 + (a - 1) * 4 + (b - 1)
    OBVIOUS
  <2>6. e = <<h>> \o x \o y
    BY <1>4, <2>1, <2>5 DEF EncodeOp
  <2>7. h \in Int /\ x \in Seq(Int) /\ Len(x) = a /\ y \in Seq(Int) /\ Len(y) = b
    BY <1>2, <2>2, <2>3, <2>4, <2>5 DEF IsNumber
  <2>8. IsJoined(e, h, x, y)
    BY <2>6, <2>7, JoinedIs
  <2>9. a \in 1 .. 4 /\ b \in 1 .. 4
    BY <1>2, <2>2, <2>3
  <2>10. WrittenCopy(op, e)
    BY <2>4, <2>5, <2>7, <2>8, <2>9 DEF IsJoined, WrittenCopy
  <2>11. e \in Seq(Int) /\ Len(e) = 1 + a + b
    BY <2>7, <2>8 DEF IsJoined
  <2>12. Len(e) \in Nat \ {0}
    BY <2>9, <2>11
  <2> QED BY <1>4, <2>10, <2>11, <2>12 DEF IsEncoded
<1>5. op.literal \in BOOLEAN
  BY DEF DeltaOp
<1> QED BY <1>3, <1>4, <1>5

\* A number is read where it is spelt.
LEMMA NumberInPlace ==
    ASSUME NEW d \in Seq(Int), NEW at \in Nat, NEW n \in 1 .. 4, at + n <= Len(d),
           NEW x, NEW v, IsNumber(x, v, n), Spells(d, at, x, n)
    PROVE  ReadBe(SubSeq(d, at + 1, at + n)) = v
<1>1. PICK i, z, s : i = at + 1 /\ z = at + n /\ s = SubSeq(d, i, z)
  OBVIOUS
<1>2. i \in Nat \ {0} /\ z \in Nat /\ i <= z /\ (z - i) + 1 = n /\ z <= Len(d) /\ Len(d) \in Nat
  BY <1>1
<1>3. s \in Seq(Int) /\ Len(s) = n /\ \A j \in 1 .. n : s[j] = d[(i + j) - 1]
  <2>1. i \in Int /\ z \in Int /\ \A j \in i .. z : d[j] \in Int
    BY <1>2
  <2> QED BY <1>1, <1>2, <2>1, SubSeqProperties
<1>4. \A j \in 1 .. n : s[j] = x[j]
  <2> SUFFICES ASSUME NEW j \in 1 .. n PROVE s[j] = x[j]
    OBVIOUS
  <2>1. (i + j) - 1 = at + j
    BY <1>1
  <2> QED BY <1>3, <2>1 DEF Spells
<1>5. x \in Seq(Int) /\ Len(x) = n
  BY DEF IsNumber
<1>6. s = x
  BY <1>3, <1>4, <1>5, SeqEqual
<1> QED BY <1>1, <1>6 DEF IsNumber

\* What a turn makes of an operation whose bytes are at i, as far as they are
\* there.
Reading(i, o) == [state |-> "reading", i |-> i, out |-> o]
IsThere(d, i, e) == \A j \in 1 .. Len(e) : (i + j) - 1 <= Len(d) => d[(i + j) - 1] = e[j]
IsTurned(q, d, base, i, o, op, e) ==
    IF (i + Len(e)) - 1 <= Len(d) /\ ~Outside(base, op)
    THEN q = Reading(i + Len(e), o \o Piece(base, op))
    ELSE q.state = "corrupt"

\* A part of e that is spelt in e is spelt in d.
LEMMA SpeltThere ==
    ASSUME NEW d \in Seq(Int), NEW e \in Seq(Int), NEW i \in Nat \ {0}, IsThere(d, i, e),
           NEW at \in Nat, NEW n \in Nat, NEW x, at + n <= Len(e), i + at + n - 1 <= Len(d), at >= 1,
           Spells(e, at, x, n)
    PROVE  Spells(d, i + at - 1, x, n)
<1> SUFFICES ASSUME NEW j \in 1 .. n PROVE d[(i + at - 1) + j] = x[j]
  BY DEF Spells
<1>1. PICK a : a = at + j
  OBVIOUS
<1>2. a \in 1 .. Len(e) /\ (i + a) - 1 <= Len(d) /\ (i + at - 1) + j = (i + a) - 1
  BY <1>1
<1>3. d[(i + a) - 1] = e[a] /\ e[a] = x[j]
  BY <1>1, <1>2 DEF IsThere, Spells
<1> QED BY <1>2, <1>3

LEMMA LiteralTurn ==
    ASSUME NEW op \in DeltaOp, op.literal, NEW e \in Seq(Int), WrittenLiteral(op, e),
           NEW d \in Seq(Int), NEW i \in 1 .. Len(d), IsThere(d, i, e), NEW o, NEW base,
           NEW q, q = Apply1(Reading(i, o), d, base)
    PROVE  IsTurned(q, d, base, i, o, op, e)
<1>0. PICK n \in 1 .. 4 : \E x : /\ Len(e) = 1 + n + Len(op.data) /\ e[1] = 64 + n
                                 /\ IsNumber(x, Len(op.data), n) /\ Spells(e, 1, x, n)
                                 /\ Spells(e, 1 + n, op.data, Len(op.data))
  BY DEF WrittenLiteral
<1>1. PICK x : /\ Len(e) = 1 + n + Len(op.data) /\ e[1] = 64 + n
               /\ IsNumber(x, Len(op.data), n) /\ Spells(e, 1, x, n)
               /\ Spells(e, 1 + n, op.data, Len(op.data))
  BY <1>0
<1>2. PICK v : v = Len(op.data)
  OBVIOUS
<1>3. v \in Nat /\ op.data \in Seq(Int) /\ i \in Nat \ {0} /\ n \in Nat /\ Len(d) \in Nat
  BY <1>1, <1>2 DEF DeltaOp
<1>30. PICK le, ld : le = Len(e) /\ ld = Len(d)
  OBVIOUS
<1>31. le = 1 + n + v /\ i <= ld /\ ld \in Nat
  BY <1>1, <1>2, <1>3, <1>30
<1>4. d[i] = 64 + n
  <2>1. 1 \in 1 .. le /\ (i + 1) - 1 = i /\ i <= ld
    BY <1>3, <1>31
  <2> QED BY <1>1, <1>30, <2>1 DEF IsThere
<1>5. PICK tag : tag = d[i]
  OBVIOUS
<1>6. tag \in 65 .. 68 /\ tag # 0 /\ tag - 64 = n
  BY <1>1, <1>4, <1>5
<1>7. PICK r : r = Reading(i, o)
  OBVIOUS
<1>8. r = [state |-> "reading", i |-> i, out |-> o] /\ r.state = "reading" /\ r.i = i
  BY <1>7 DEF Reading
<1>9. q = ReadLiteral(r, d, tag)
  <2>1. ~(r.state # "reading" \/ r.i > Len(d)) /\ d[r.i] = tag
    BY <1>3, <1>5, <1>8
  <2>2. q = LET t == d[r.i]
            IN CASE t = 0        -> [r EXCEPT !.state = "end"]
                 [] t \in 65 .. 68 -> ReadLiteral(r, d, t)
                 [] t \in 69 .. 84 -> ReadCopy(r, d, t, base)
                 [] OTHER          -> [r EXCEPT !.state = "corrupt"]
    BY <1>7, <2>1 DEF Apply1
  <2>3. ~(tag \in 69 .. 84)
    BY <1>6
  <2> QED BY <1>6, <2>1, <2>2, <2>3
<1>10. PICK w : w = ReadBe(SubSeq(d, i + 1, i + n))
  OBVIOUS
<1>11. q = IF i + n > Len(d) THEN [r EXCEPT !.state = "corrupt"]
           ELSE IF i + n + w > Len(d) THEN [r EXCEPT !.state = "corrupt"]
           ELSE [r EXCEPT !.out = @ \o SubSeq(d, i + n + 1, i + n + w), !.i = @ + n + w + 1]
  BY <1>6, <1>8, <1>9, <1>10 DEF ReadLiteral
<1>12. ~Outside(base, op)
  BY DEF Outside
<1>13. Piece(base, op) = op.data
  BY DEF Piece
<1>14. CASE i + n > Len(d)
  <2>1. q = [r EXCEPT !.state = "corrupt"]
    BY <1>11, <1>14
  <2>2. q.state = "corrupt"
    BY <1>8, <2>1
  <2>3. ~((i + le) - 1 <= ld)
    <3>1. i + n > ld
      BY <1>14, <1>30
    <3> QED BY <1>3, <1>31, <3>1
  <2> QED BY <1>30, <2>2, <2>3 DEF IsTurned
<1>15. CASE i + n <= Len(d)
  <2>1. Spells(d, i, x, n)
    <3>1. PICK at : at = 1
      OBVIOUS
    <3>2. at \in Nat /\ at >= 1 /\ at + n <= le /\ i + at + n - 1 <= ld /\ i + at - 1 = i
      <4>1. i + n <= ld
        BY <1>15, <1>30
      <4> QED BY <1>3, <1>31, <3>1, <4>1
    <3>3. Spells(e, at, x, n)
      BY <1>1, <3>1
    <3>4. Spells(d, i + at - 1, x, n)
      BY <1>3, <1>30, <3>2, <3>3, SpeltThere
    <3> QED BY <3>2, <3>4
  <2>2. w = v
    BY <1>1, <1>2, <1>3, <1>10, <1>15, <2>1, NumberInPlace
  <2>3. CASE i + n + v > Len(d)
    <3>1. q = [r EXCEPT !.state = "corrupt"]
      BY <1>3, <1>11, <1>15, <2>2, <2>3
    <3>2. q.state = "corrupt"
      BY <1>8, <3>1
    <3>3. ~((i + le) - 1 <= ld)
      <4>1. i + n + v > ld
        BY <1>30, <2>3
      <4> QED BY <1>3, <1>31, <4>1
    <3> QED BY <1>30, <3>2, <3>3 DEF IsTurned
  <2>4. CASE i + n + v <= Len(d)
    <3>1. PICK at, s : at = i + n /\ s = SubSeq(d, at + 1, at + v)
      OBVIOUS
    <3>2. at \in Nat /\ at + 1 \in Int /\ at + v \in Int /\ at + v <= Len(d)
      BY <1>3, <2>4, <3>1
    <3>3. Spells(d, at, op.data, v)
      <4>1. PICK b : b = 1 + n
        OBVIOUS
      <4>2. b \in Nat /\ b >= 1 /\ b + v <= le /\ i + b + v - 1 <= ld /\ i + b - 1 = at
        <5>1. i + n + v <= ld
          BY <1>30, <2>4
        <5> QED BY <1>3, <1>31, <3>1, <4>1, <5>1
      <4>3. Spells(e, b, op.data, v)
        BY <1>1, <1>2, <4>1
      <4>4. Spells(d, i + b - 1, op.data, v)
        BY <1>3, <1>30, <4>2, <4>3, SpeltThere
      <4> QED BY <4>2, <4>4
    <3>4. s \in Seq(Int) /\ Len(s) = v /\ \A j \in 1 .. v : s[j] = d[(at + j)]
      <4>1. \A j \in at + 1 .. at + v : d[j] \in Int
        BY <1>3, <3>2
      <4>2. /\ s \in Seq(Int)
            /\ Len(s) = IF at + 1 <= at + v THEN ((at + v) - (at + 1)) + 1 ELSE 0
            /\ \A j \in 1 .. ((at + v) - (at + 1)) + 1 : s[j] = d[((at + 1) + j) - 1]
        BY <3>1, <3>2, <4>1, SubSeqProperties
      <4>3. ((at + v) - (at + 1)) + 1 = v /\ (at + 1 <= at + v \/ v = 0)
        BY <1>3, <3>2
      <4>4. \A j \in 1 .. v : ((at + 1) + j) - 1 = at + j
        BY <1>3, <3>2
      <4> QED BY <4>2, <4>3, <4>4
    <3>5. s = op.data
      <4>1. \A j \in 1 .. v : s[j] = op.data[j]
        BY <3>3, <3>4 DEF Spells
      <4> QED BY <1>2, <1>3, <3>4, <4>1, SeqEqual
    <3>6. q = [r EXCEPT !.out = @ \o s, !.i = @ + n + v + 1]
      <4>1. ~(i + n > Len(d)) /\ ~(i + n + w > Len(d))
        BY <1>3, <1>15, <2>2, <2>4
      <4>2. q = [r EXCEPT !.out = @ \o SubSeq(d, i + n + 1, i + n + w), !.i = @ + n + w + 1]
        BY <1>11, <4>1
      <4> QED BY <2>2, <3>1, <4>2
    <3>7. q = [state |-> "reading", i |-> i + n + v + 1, out |-> o \o s]
      BY <1>8, <3>6
    <3>8. i + n + v + 1 = i + le /\ (i + le) - 1 <= ld
      <4>1. i + n + v <= ld
        BY <1>30, <2>4
      <4> QED BY <1>3, <1>31, <4>1
    <3>9. q = Reading(i + le, o \o Piece(base, op))
      BY <1>13, <3>5, <3>7, <3>8 DEF Reading
    <3> QED BY <1>12, <1>30, <3>8, <3>9 DEF IsTurned
  <2> QED BY <1>3, <2>3, <2>4
<1> QED BY <1>3, <1>14, <1>15

LEMMA CopyTurn ==
    ASSUME NEW op \in DeltaOp, ~op.literal, NEW e \in Seq(Int), WrittenCopy(op, e),
           NEW d \in Seq(Int), NEW i \in 1 .. Len(d), IsThere(d, i, e), NEW o,
           NEW base \in Seq(Int),
           NEW q, q = Apply1(Reading(i, o), d, base)
    PROVE  IsTurned(q, d, base, i, o, op, e)
<1>0. PICK a \in 1 .. 4, b \in 1 .. 4 : \E x, y :
         /\ Len(e) = 1 + a + b /\ e[1] = 69 + (a - 1) * 4 + (b - 1)
         /\ IsNumber(x, op.from, a) /\ Spells(e, 1, x, a)
         /\ IsNumber(y, op.length, b) /\ Spells(e, 1 + a, y, b)
  BY DEF WrittenCopy
<1>1. PICK x, y :
         /\ Len(e) = 1 + a + b /\ e[1] = 69 + (a - 1) * 4 + (b - 1)
         /\ IsNumber(x, op.from, a) /\ Spells(e, 1, x, a)
         /\ IsNumber(y, op.length, b) /\ Spells(e, 1 + a, y, b)
  BY <1>0
<1>2. PICK le, ld, lb : le = Len(e) /\ ld = Len(d) /\ lb = Len(base)
  OBVIOUS
<1>3. PICK u, v : u = op.from /\ v = op.length
  OBVIOUS
<1>4. /\ le = 1 + a + b /\ i <= ld /\ ld \in Nat /\ lb \in Nat /\ u \in Nat /\ v \in Nat
      /\ i \in Nat \ {0} /\ a \in Nat /\ b \in Nat
  <2>1. le = 1 + a + b
    BY <1>1, <1>2
  <2>2. u \in Nat /\ v \in Nat
    BY <1>3 DEF DeltaOp
  <2>3. ld \in Nat /\ lb \in Nat
    BY <1>2
  <2>4. i \in 1 .. ld
    BY <1>2
  <2> QED BY <2>1, <2>2, <2>3, <2>4
<1>5. PICK tag : tag = d[i]
  OBVIOUS
<1>6. tag = 69 + (a - 1) * 4 + (b - 1)
  <2>1. 1 \in 1 .. le /\ (i + 1) - 1 = i
    BY <1>4
  <2> QED BY <1>1, <1>2, <1>4, <1>5, <2>1 DEF IsThere
<1>7. tag \in 69 .. 84 /\ (tag - 69) \div 4 + 1 = a /\ ((tag - 69) % 4) + 1 = b
  BY <1>6
<1>8. PICK r : r = Reading(i, o)
  OBVIOUS
<1>9. r = [state |-> "reading", i |-> i, out |-> o] /\ r.state = "reading" /\ r.i = i
  BY <1>8 DEF Reading
<1>10. q = ReadCopy(r, d, tag, base)
  <2>1. ~(r.state # "reading" \/ r.i > Len(d)) /\ d[r.i] = tag
    BY <1>2, <1>4, <1>5, <1>9
  <2>2. q = LET t == d[r.i]
            IN CASE t = 0        -> [r EXCEPT !.state = "end"]
                 [] t \in 65 .. 68 -> ReadLiteral(r, d, t)
                 [] t \in 69 .. 84 -> ReadCopy(r, d, t, base)
                 [] OTHER          -> [r EXCEPT !.state = "corrupt"]
    BY <1>8, <2>1 DEF Apply1
  <2>3. ~(tag \in 65 .. 68) /\ tag # 0
    BY <1>7
  <2> QED BY <1>7, <2>1, <2>2, <2>3
<1>11. PICK from, length, end : /\ from = ReadBe(SubSeq(d, i + 1, i + a))
                                /\ length = ReadBe(SubSeq(d, i + a + 1, i + a + b))
                                /\ end = from + length
  OBVIOUS
<1>12. q = IF i + a + b > ld THEN [r EXCEPT !.state = "corrupt"]
           ELSE IF end > lb THEN [r EXCEPT !.state = "corrupt"]
           ELSE [r EXCEPT !.out = @ \o SubSeq(base, from + 1, end), !.i = @ + a + b + 1]
  BY <1>2, <1>7, <1>9, <1>10, <1>11 DEF ReadCopy
<1>13. Outside(base, op) <=> u + v > lb
  BY <1>2, <1>3 DEF Outside
<1>14. Piece(base, op) = SubSeq(base, u + 1, u + v)
  BY <1>3 DEF Piece
<1>15. CASE i + a + b > ld
  <2>1. q = [r EXCEPT !.state = "corrupt"]
    BY <1>12, <1>15
  <2>2. q.state = "corrupt"
    BY <1>9, <2>1
  <2>3. ~((i + le) - 1 <= ld)
    BY <1>4, <1>15
  <2> QED BY <1>2, <2>2, <2>3 DEF IsTurned
<1>16. CASE i + a + b <= ld
  <2>1. from = u
    <3>1. PICK at : at = 1
      OBVIOUS
    <3>2. at \in Nat /\ at >= 1 /\ at + a <= le /\ i + at + a - 1 <= ld /\ i + at - 1 = i
      BY <1>4, <1>16, <3>1
    <3>3. Spells(e, at, x, a)
      BY <1>1, <3>1
    <3>4. Spells(d, i + at - 1, x, a)
      BY <1>2, <1>4, <3>2, <3>3, SpeltThere
    <3>5. Spells(d, i, x, a) /\ i + a <= Len(d)
      BY <1>2, <1>4, <1>16, <3>2, <3>4
    <3>6. i \in Nat /\ IsNumber(x, u, a)
      BY <1>1, <1>3, <1>4
    <3> QED BY <1>11, <3>5, <3>6, NumberInPlace
  <2>2. length = v
    <3>1. PICK at, z : at = 1 + a /\ z = i + a
      OBVIOUS
    <3>2. at \in Nat /\ at >= 1 /\ at + b <= le /\ i + at + b - 1 <= ld /\ i + at - 1 = z
      BY <1>4, <1>16, <3>1
    <3>3. Spells(e, at, y, b)
      BY <1>1, <3>1
    <3>4. Spells(d, i + at - 1, y, b)
      BY <1>2, <1>4, <3>2, <3>3, SpeltThere
    <3>5. Spells(d, z, y, b) /\ z + b <= Len(d)
      BY <1>2, <1>4, <1>16, <3>1, <3>2, <3>4
    <3>6. z \in Nat /\ IsNumber(y, v, b)
      BY <1>1, <1>3, <1>4, <3>1
    <3>7. length = ReadBe(SubSeq(d, z + 1, z + b))
      BY <1>11, <3>1
    <3> QED BY <3>5, <3>6, <3>7, NumberInPlace
  <2>3. (i + le) - 1 <= ld /\ i + a + b + 1 = i + le /\ ~(i + a + b > ld)
    BY <1>4, <1>16
  <2>4. CASE u + v > lb
    <3>1. end > lb
      BY <1>11, <2>1, <2>2, <2>4
    <3>2. q = [r EXCEPT !.state = "corrupt"]
      BY <1>12, <2>3, <3>1
    <3>3. q.state = "corrupt"
      BY <1>9, <3>2
    <3> QED BY <1>13, <2>4, <3>3 DEF IsTurned
  <2>5. CASE ~(u + v > lb)
    <3>1. ~(end > lb) /\ end = u + v
      BY <1>11, <2>1, <2>2, <2>5
    <3>2. PICK s : s = SubSeq(base, u + 1, u + v)
      OBVIOUS
    <3>3. q = [r EXCEPT !.out = @ \o s, !.i = @ + a + b + 1]
      BY <1>12, <2>1, <2>3, <3>1, <3>2
    <3>4. q = [state |-> "reading", i |-> i + a + b + 1, out |-> o \o s]
      BY <1>9, <3>3
    <3>5. q = Reading(i + le, o \o Piece(base, op))
      BY <1>14, <2>3, <3>2, <3>4 DEF Reading
    <3> QED BY <1>2, <1>13, <2>3, <2>5, <3>5 DEF IsTurned
  <2> QED BY <2>4, <2>5
<1>17. i + a + b > ld \/ i + a + b <= ld
  BY <1>4
<1> QED BY <1>15, <1>16, <1>17

\* The delta of a sequence of operations: its bytes one operation after the
\* other, and a 0.
IsDelta(ops, m, D, full) ==
    /\ full \in Seq(Int) /\ Len(full) = Len(D[m]) + 1 /\ full[1] = Magic /\ full[Len(full)] = 0
    /\ \A j \in 0 .. m : D[j] \in Seq(Int) /\ Len(D[j]) >= j + 1 /\ Len(D[j]) <= Len(D[m])
    /\ \A j \in 0 .. m - 1 :
          /\ Len(D[j + 1]) = Len(D[j]) + Len(EncodeOp(ops[j + 1]))
          /\ \A x \in 1 .. Len(EncodeOp(ops[j + 1])) : full[Len(D[j]) + x] = EncodeOp(ops[j + 1])[x]
IsLaid(ops, D, n) ==
    /\ D[n] \in Seq(Int) /\ Len(D[n]) >= n + 1 /\ D[n][1] = Magic
    /\ \A j \in 0 .. n : D[j] \in Seq(Int) /\ Len(D[j]) >= j + 1 /\ Len(D[j]) <= Len(D[n])
    /\ \A j \in 0 .. n - 1 :
          /\ Len(D[j + 1]) = Len(D[j]) + Len(EncodeOp(ops[j + 1]))
          /\ \A x \in 1 .. Len(EncodeOp(ops[j + 1])) :
                Len(D[j]) + x <= Len(D[n]) /\ D[n][Len(D[j]) + x] = EncodeOp(ops[j + 1])[x]

LEMMA LaidNext ==
    ASSUME NEW ops, NEW D, NEW n \in Nat, IsLaid(ops, D, n),
           NEW e, e = EncodeOp(ops[n + 1]), e \in Seq(Int), Len(e) \in Nat \ {0}, D[n + 1] = D[n] \o e
    PROVE  IsLaid(ops, D, n + 1)
<1>1. PICK old, new : old = D[n] /\ new = D[n + 1]
  OBVIOUS
<1>2. old \in Seq(Int) /\ Len(old) >= n + 1 /\ old[1] = Magic
  BY <1>1 DEF IsLaid
<1>3. PICK lo, ln, le : lo = Len(old) /\ ln = Len(new) /\ le = Len(e)
  OBVIOUS
<1>4. /\ new \in Seq(Int) /\ ln = lo + le
      /\ \A j \in 1 .. lo + le : new[j] = IF j <= lo THEN old[j] ELSE e[j - lo]
  <2>1. new = old \o e
    BY <1>1
  <2>2. /\ new \in Seq(Int) /\ Len(new) = Len(old) + Len(e)
        /\ \A j \in 1 .. Len(old) + Len(e) : new[j] = IF j <= Len(old) THEN old[j] ELSE e[j - Len(old)]
    BY <1>2, <2>1, ConcatProperties
  <2> QED BY <1>3, <2>2
<1>5. lo \in Nat /\ lo >= n + 1 /\ le \in Nat \ {0} /\ ln \in Nat /\ ln >= lo /\ ln >= n + 2
  BY <1>2, <1>3, <1>4
<1>6. new[1] = Magic
  <2>1. 1 \in 1 .. lo + le /\ 1 <= lo
    BY <1>5
  <2> QED BY <1>2, <1>4, <2>1
<1>7. ASSUME NEW j \in 0 .. n + 1 PROVE D[j] \in Seq(Int) /\ Len(D[j]) >= j + 1 /\ Len(D[j]) <= ln
  <2>1. CASE j = n + 1
    <3>1. D[j] = new /\ Len(D[j]) = ln
      BY <1>1, <1>3, <2>1
    <3>2. ln >= j + 1 /\ ln <= ln
      BY <1>5, <2>1
    <3> QED BY <1>4, <3>1, <3>2
  <2>2. CASE j # n + 1
    <3>1. j \in 0 .. n
      BY <2>2
    <3>2. D[j] \in Seq(Int) /\ Len(D[j]) >= j + 1 /\ Len(D[j]) <= lo
      BY <1>1, <1>3, <3>1 DEF IsLaid
    <3> QED BY <1>5, <3>2
  <2> QED BY <2>1, <2>2
<1>8. ASSUME NEW j \in 0 .. n
      PROVE  /\ Len(D[j + 1]) = Len(D[j]) + Len(EncodeOp(ops[j + 1]))
             /\ \A x \in 1 .. Len(EncodeOp(ops[j + 1])) :
                   Len(D[j]) + x <= ln /\ new[Len(D[j]) + x] = EncodeOp(ops[j + 1])[x]
  <2>1. CASE j = n
    <3>1. Len(D[j + 1]) = Len(D[j]) + Len(EncodeOp(ops[j + 1])) /\ EncodeOp(ops[j + 1]) = e /\ Len(D[j]) = lo
      BY <1>1, <1>3, <1>4, <2>1
    <3>2. ASSUME NEW x \in 1 .. le PROVE lo + x <= ln /\ new[lo + x] = e[x]
      <4>1. PICK z : z = lo + x
        OBVIOUS
      <4>2. z \in 1 .. lo + le /\ ~(z <= lo) /\ z - lo = x /\ z <= ln
        BY <1>4, <1>5, <4>1
      <4>3. new[z] = e[z - lo]
        BY <1>4, <4>2
      <4> QED BY <4>1, <4>2, <4>3
    <3> QED BY <1>3, <3>1, <3>2
  <2>2. CASE j # n
    <3>1. j \in 0 .. n - 1
      BY <2>2
    <3>2. PICK f, at : f = EncodeOp(ops[j + 1]) /\ at = Len(D[j])
      OBVIOUS
    <3>3. /\ Len(D[j + 1]) = at + Len(f)
          /\ \A x \in 1 .. Len(f) : at + x <= lo /\ old[at + x] = f[x]
      BY <1>1, <1>3, <3>1, <3>2 DEF IsLaid
    <3>4. at \in Nat
      BY <1>7, <3>2
    <3>5. ASSUME NEW x \in 1 .. Len(f) PROVE at + x <= ln /\ new[at + x] = f[x]
      <4>1. PICK z : z = at + x
        OBVIOUS
      <4>2. z <= lo /\ old[z] = f[x]
        BY <3>3, <4>1
      <4>3. z \in Nat /\ z >= 1
        BY <3>4, <4>1
      <4>4. z \in 1 .. lo + le /\ z <= ln
        BY <1>5, <4>2, <4>3
      <4>5. new[z] = old[z]
        BY <1>4, <4>2, <4>4
      <4> QED BY <4>1, <4>2, <4>4, <4>5
    <3> QED BY <3>2, <3>3, <3>5
  <2> QED BY <2>1, <2>2
<1>9. PICK z : z = n + 1
  OBVIOUS
<1>10. z - 1 = n /\ z + 1 = n + 2
  BY <1>9
<1>11. D[z] = new /\ Len(D[z]) = ln
  BY <1>1, <1>3, <1>9
<1>12. D[z] \in Seq(Int) /\ Len(D[z]) >= z + 1 /\ D[z][1] = Magic
  BY <1>4, <1>5, <1>6, <1>10, <1>11
<1>13. \A j \in 0 .. z : D[j] \in Seq(Int) /\ Len(D[j]) >= j + 1 /\ Len(D[j]) <= Len(D[z])
  BY <1>7, <1>9, <1>11
<1>14. \A j \in 0 .. z - 1 :
          /\ Len(D[j + 1]) = Len(D[j]) + Len(EncodeOp(ops[j + 1]))
          /\ \A x \in 1 .. Len(EncodeOp(ops[j + 1])) :
                Len(D[j]) + x <= Len(D[z]) /\ D[z][Len(D[j]) + x] = EncodeOp(ops[j + 1])[x]
  BY <1>8, <1>10, <1>11
<1>15. IsLaid(ops, D, z)
  BY <1>12, <1>13, <1>14, Zenon DEF IsLaid
<1> QED BY <1>9, <1>15

LEMMA OpsAre ==
    ASSUME NEW ops \in Seq(DeltaOp), \A i \in DOMAIN ops : IsSmall(ops[i]), NEW x \in 1 .. Len(ops)
    PROVE  ops[x] \in DeltaOp /\ IsEncoded(ops[x], EncodeOp(ops[x]))
<1>1. ops[x] \in DeltaOp /\ IsSmall(ops[x])
  OBVIOUS
<1> QED BY <1>1, EncodedOp

LEMMA DeltaLayout ==
    ASSUME NEW ops \in Seq(DeltaOp), \A i \in DOMAIN ops : IsSmall(ops[i]),
           NEW m, m = Len(ops), NEW D, D = DeltaRun(ops, m), NEW full, full = EncodeRdiffDelta(ops)
    PROVE  IsDelta(ops, m, D, full)
<1>1. m \in Nat
  OBVIOUS
<1>2. D[0] = <<Magic>> /\ \A n \in 0 .. m - 1 : D[n + 1] = D[n] \o EncodeOp(ops[n + 1])
  BY <1>1, DeltaSteps
<1> DEFINE G == {n \in 0 .. m : IsLaid(ops, D, n)}
<1>3. 0 \in G
  <2>1. PICK c, z : c = D[0] /\ z = 0
    OBVIOUS
  <2>2. c \in Seq(Int) /\ Len(c) = 1 /\ c[1] = Magic
    BY <1>2, <2>1 DEF Magic
  <2>3. D[z] = c /\ z \in Nat /\ z + 1 = 1 /\ \A j \in 0 .. z : j = z
    BY <2>1
  <2>4. 0 .. z - 1 = {}
    BY <2>1
  <2>5. /\ D[z] \in Seq(Int) /\ Len(D[z]) >= z + 1 /\ D[z][1] = Magic
        /\ \A j \in 0 .. z : D[j] \in Seq(Int) /\ Len(D[j]) >= j + 1 /\ Len(D[j]) <= Len(D[z])
    <3>1. Len(D[z]) >= z + 1
      <4>1. PICK len : len = Len(D[z])
        OBVIOUS
      <4>2. len = 1
        BY <2>2, <2>3, <4>1
      <4>3. len >= z + 1
        BY <2>3, <4>2
      <4> QED BY <4>1, <4>3
    <3>2. D[z] \in Seq(Int) /\ D[z][1] = Magic
      BY <2>2, <2>3
    <3>3. Len(D[z]) <= Len(D[z])
      BY <2>2, <2>3
    <3>4. ASSUME NEW j \in 0 .. z PROVE D[j] \in Seq(Int) /\ Len(D[j]) >= j + 1 /\ Len(D[j]) <= Len(D[z])
      <4>1. j = z
        BY <2>3
      <4> QED BY <3>1, <3>2, <3>3, <4>1
    <3> QED BY <3>1, <3>2, <3>4
  <2>6. IsLaid(ops, D, z)
    BY <2>4, <2>5, Zenon DEF IsLaid
  <2> QED BY <1>1, <2>1, <2>6
<1>4. ASSUME NEW n \in 0 .. m - 1, n \in G PROVE n + 1 \in G
  <2>1. n \in Nat /\ n + 1 \in 0 .. m /\ n + 1 \in 1 .. Len(ops)
    BY <1>1
  <2>2. PICK e : e = EncodeOp(ops[n + 1])
    OBVIOUS
  <2>3. e \in Seq(Int) /\ Len(e) \in Nat \ {0}
    BY <2>1, <2>2, OpsAre DEF IsEncoded
  <2>4. D[n + 1] = D[n] \o e
    BY <1>2, <2>2
  <2>5. IsLaid(ops, D, n + 1)
    BY <1>4, <2>1, <2>2, <2>3, <2>4, LaidNext
  <2> QED BY <2>1, <2>5
<1>5. IsLaid(ops, D, m)
  <2>1. 0 .. m \subseteq G
    <3> HIDE DEF G
    <3> QED BY <1>1, <1>3, <1>4, Induction
  <2> QED BY <1>1, <2>1
<1>6. PICK c : c = D[m]
  OBVIOUS
<1>7. c \in Seq(Int) /\ Len(c) >= m + 1 /\ c[1] = Magic /\ Len(c) \in Nat
  BY <1>5, <1>6 DEF IsLaid
<1>8. full = Append(c, 0)
  <2>1. Encoded(ops) = DeltaRun(ops, m)
    BY Zenon DEF Encoded, DeltaRun, DeltaTo
  <2> QED BY <1>6, <2>1 DEF EncodeRdiffDelta
<1>9. /\ full \in Seq(Int) /\ Len(full) = Len(c) + 1
      /\ \A x \in 1 .. Len(c) : full[x] = c[x]
      /\ full[Len(c) + 1] = 0
  BY <1>7, <1>8, AppendProperties
<1>10. full[1] = Magic /\ full[Len(full)] = 0
  <2>1. 1 \in 1 .. Len(c)
    BY <1>1, <1>7
  <2> QED BY <1>7, <1>9, <2>1
<1>11. ASSUME NEW j \in 0 .. m - 1
       PROVE  /\ Len(D[j + 1]) = Len(D[j]) + Len(EncodeOp(ops[j + 1]))
              /\ \A x \in 1 .. Len(EncodeOp(ops[j + 1])) : full[Len(D[j]) + x] = EncodeOp(ops[j + 1])[x]
  <2>1. PICK f, at : f = EncodeOp(ops[j + 1]) /\ at = Len(D[j])
    OBVIOUS
  <2>2. /\ Len(D[j + 1]) = at + Len(f)
        /\ \A x \in 1 .. Len(f) : at + x <= Len(c) /\ c[at + x] = f[x]
    BY <1>5, <1>6, <2>1 DEF IsLaid
  <2>3. j \in 0 .. m
    BY <1>1
  <2>4. at \in Nat
    <3>1. D[j] \in Seq(Int)
      BY <1>5, <2>3 DEF IsLaid
    <3> QED BY <2>1, <3>1
  <2>5. ASSUME NEW x \in 1 .. Len(f) PROVE full[at + x] = f[x]
    <3>1. PICK z : z = at + x
      OBVIOUS
    <3>2. z <= Len(c) /\ c[z] = f[x]
      BY <2>2, <3>1
    <3>3. z \in Nat /\ z >= 1
      BY <2>4, <3>1
    <3>4. z \in 1 .. Len(c)
      BY <1>7, <3>2, <3>3
    <3> QED BY <1>9, <3>1, <3>2, <3>4
  <2> QED BY <2>1, <2>2, <2>5
<1>12. \A j \in 0 .. m : D[j] \in Seq(Int) /\ Len(D[j]) >= j + 1 /\ Len(D[j]) <= Len(D[m])
  BY <1>5 DEF IsLaid
<1> QED BY <1>6, <1>9, <1>10, <1>11, <1>12 DEF IsDelta

\* Where a reader of the beginning of a delta is after a number of turns.
IsStart(d, full) == d \in Seq(Int) /\ Len(d) <= Len(full) /\ \A x \in 1 .. Len(d) : d[x] = full[x]
Whole(base, ops, j) == \A x \in 1 .. j : ~Outside(base, ops[x])
IsCorrupt(base, ops, D, d, r) ==
    r.state = "corrupt" /\ (Len(d) <= Len(D[Len(ops)]) \/ ~Whole(base, ops, Len(ops)))
IsAtOp(base, ops, D, O, d, r, t, j) ==
    /\ Whole(base, ops, j)
    /\ r = Reading(Len(D[j]) + 1, O[j]) /\ (j = t \/ Len(D[j]) + 1 > Len(d))
IsAtEnd(base, ops, D, O, d, r) ==
    /\ Whole(base, ops, Len(ops))
    /\ r.state = "end" /\ r.out = O[Len(ops)] /\ Len(d) = Len(D[Len(ops)]) + 1
IsAt(base, ops, D, O, d, r, t) ==
    \/ IsCorrupt(base, ops, D, d, r)
    \/ IsAtEnd(base, ops, D, O, d, r)
    \/ \E j \in 0 .. Len(ops) : IsAtOp(base, ops, D, O, d, r, t, j)

LEMMA TurnAtOp ==
    ASSUME NEW ops \in Seq(DeltaOp), \A i \in DOMAIN ops : IsSmall(ops[i]), NEW base \in Seq(Int),
           NEW m, m = Len(ops), NEW D, NEW full, IsDelta(ops, m, D, full),
           NEW O, \A n \in 0 .. m - 1 : O[n + 1] = O[n] \o Piece(base, ops[n + 1]),
           NEW d, IsStart(d, full), NEW t \in Nat, NEW j \in 0 .. m - 1, j = t,
           NEW r, IsAtOp(base, ops, D, O, d, r, t, j), Len(D[j]) + 1 <= Len(d),
           NEW q, q = Apply1(r, d, base)
    PROVE  IsAt(base, ops, D, O, d, q, t + 1)
<1>1. PICK op, e, at, i, o : op = ops[j + 1] /\ e = EncodeOp(op) /\ at = Len(D[j]) /\ i = at + 1 /\ o = O[j]
  OBVIOUS
<1>2. m \in Nat /\ j + 1 \in 1 .. m /\ j \in 0 .. m /\ j + 1 \in 0 .. m /\ j \in Nat
  OBVIOUS
<1>3. op \in DeltaOp /\ IsEncoded(op, e)
  BY <1>1, <1>2, OpsAre
<1>4. PICK le, ld, last : le = Len(e) /\ ld = Len(d) /\ last = Len(D[m])
  OBVIOUS
<1>5. e \in Seq(Int) /\ le \in Nat \ {0}
  BY <1>3, <1>4 DEF IsEncoded
<1>6. d \in Seq(Int) /\ ld \in Nat
  BY <1>4 DEF IsStart
<1>7. at \in Nat /\ last \in Nat
  <2>1. D[j] \in Seq(Int) /\ D[m] \in Seq(Int)
    BY <1>2 DEF IsDelta
  <2> QED BY <1>1, <1>4, <2>1
<1>8. Len(D[j + 1]) = at + le /\ at + le <= last
  <2>1. Len(D[j + 1]) = at + le
    BY <1>1, <1>4 DEF IsDelta
  <2>2. Len(D[j + 1]) <= last
    BY <1>2, <1>4 DEF IsDelta
  <2> QED BY <2>1, <2>2
<1>9. IsThere(d, i, e)
  <2> SUFFICES ASSUME NEW x \in 1 .. le, (i + x) - 1 <= ld PROVE d[(i + x) - 1] = e[x]
    BY <1>4 DEF IsThere
  <2>1. PICK z : z = at + x
    OBVIOUS
  <2>2. (i + x) - 1 = z /\ z \in 1 .. ld
    <3>1. i = at + 1 /\ x \in Nat /\ x >= 1
      BY <1>1, <1>5
    <3>2. (i + x) - 1 = z /\ z \in Nat /\ z >= 1
      BY <1>7, <2>1, <3>1
    <3>3. z <= ld
      BY <3>2
    <3> QED BY <1>6, <3>2, <3>3
  <2>3. full[z] = e[x]
    BY <1>1, <1>4, <2>1 DEF IsDelta
  <2>4. d[z] = full[z]
    BY <1>4, <2>2 DEF IsStart
  <2> QED BY <2>2, <2>3, <2>4
<1>10. r = Reading(i, o) /\ i \in 1 .. Len(d)
  <2>1. r = Reading(i, o)
    BY <1>1 DEF IsAtOp
  <2>2. i \in 1 .. ld
    BY <1>1, <1>4, <1>6, <1>7
  <2> QED BY <1>4, <2>1, <2>2
<1>11. IsTurned(q, d, base, i, o, op, e)
  <2>1. CASE op.literal
    BY <1>3, <1>5, <1>6, <1>9, <1>10, <2>1, LiteralTurn DEF IsEncoded
  <2>2. CASE ~op.literal
    BY <1>3, <1>5, <1>6, <1>9, <1>10, <2>2, CopyTurn DEF IsEncoded
  <2> QED BY <2>1, <2>2
<1>12. CASE (i + le) - 1 <= ld /\ ~Outside(base, op)
  <2>1. q = Reading(i + le, o \o Piece(base, op))
    BY <1>4, <1>11, <1>12 DEF IsTurned
  <2>2. O[j + 1] = o \o Piece(base, op)
    BY <1>1
  <2>3. i + le = Len(D[j + 1]) + 1
    BY <1>1, <1>5, <1>7, <1>8
  <2>4. Whole(base, ops, j + 1)
    <3> SUFFICES ASSUME NEW x \in 1 .. j + 1 PROVE ~Outside(base, ops[x])
      BY DEF Whole
    <3>1. CASE x = j + 1
      BY <1>1, <1>12, <3>1
    <3>2. CASE x # j + 1
      <4>1. x \in 1 .. j
        BY <1>2, <3>2
      <4> QED BY <4>1 DEF IsAtOp, Whole
    <3> QED BY <3>1, <3>2
  <2>5. PICK z : z = j + 1
    OBVIOUS
  <2>6. z = t + 1 /\ z \in 0 .. Len(ops)
    BY <1>2, <2>5
  <2>7. q = Reading(Len(D[z]) + 1, O[z]) /\ Whole(base, ops, z)
    BY <2>1, <2>2, <2>3, <2>4, <2>5
  <2>8. IsAtOp(base, ops, D, O, d, q, t + 1, z)
    BY <2>6, <2>7 DEF IsAtOp
  <2> QED BY <2>6, <2>8 DEF IsAt
<1>13. CASE ~((i + le) - 1 <= ld /\ ~Outside(base, op))
  <2>1. q.state = "corrupt"
    BY <1>4, <1>11, <1>13 DEF IsTurned
  <2>2. ld <= last \/ ~Whole(base, ops, m)
    <3>1. CASE ~((i + le) - 1 <= ld)
      BY <1>1, <1>5, <1>6, <1>7, <1>8, <3>1
    <3>2. CASE Outside(base, op)
      BY <1>1, <1>2, <3>2 DEF Whole
    <3> QED BY <1>13, <3>1, <3>2
  <2> QED BY <1>4, <2>1, <2>2 DEF IsAt, IsCorrupt
<1> QED BY <1>12, <1>13

LEMMA Turn ==
    ASSUME NEW ops \in Seq(DeltaOp), \A i \in DOMAIN ops : IsSmall(ops[i]), NEW base \in Seq(Int),
           NEW m, m = Len(ops), NEW D, NEW full, IsDelta(ops, m, D, full),
           NEW O, \A n \in 0 .. m - 1 : O[n + 1] = O[n] \o Piece(base, ops[n + 1]),
           NEW d, IsStart(d, full), NEW t \in Nat,
           NEW r, IsAt(base, ops, D, O, d, r, t),
           NEW q, q = Apply1(r, d, base)
    PROVE  IsAt(base, ops, D, O, d, q, t + 1)
<1>1. CASE IsCorrupt(base, ops, D, d, r)
  <2>1. q = r
    BY <1>1 DEF IsCorrupt, Apply1
  <2> QED BY <1>1, <2>1 DEF IsAt
<1>2. CASE IsAtEnd(base, ops, D, O, d, r)
  <2>1. q = r
    BY <1>2 DEF IsAtEnd, Apply1
  <2> QED BY <1>2, <2>1 DEF IsAt
<1>3. ASSUME NEW j \in 0 .. m, IsAtOp(base, ops, D, O, d, r, t, j)
      PROVE  IsAt(base, ops, D, O, d, q, t + 1)
  <2>1. PICK i, o : i = Len(D[j]) + 1 /\ o = O[j]
    OBVIOUS
  <2>2. r = [state |-> "reading", i |-> i, out |-> o] /\ r.i = i /\ r.state = "reading"
    BY <1>3, <2>1 DEF IsAtOp, Reading
  <2>3. i \in Nat /\ Len(d) \in Nat /\ m \in Nat
    <3>1. D[j] \in Seq(Int) /\ d \in Seq(Int)
      BY DEF IsDelta, IsStart
    <3> QED BY <2>1, <3>1
  <2>4. CASE i > Len(d)
    <3>1. q = r
      BY <2>2, <2>4 DEF Apply1
    <3>2. IsAtOp(base, ops, D, O, d, q, t + 1, j)
      BY <1>3, <2>1, <2>4, <3>1 DEF IsAtOp
    <3> QED BY <3>2 DEF IsAt
  <2>5. CASE i <= Len(d)
    <3>1. j = t
      BY <1>3, <2>1, <2>3, <2>5 DEF IsAtOp
    <3>2. CASE j = m
      <4>1. PICK l : l = Len(full)
        OBVIOUS
      <4>2. l = i /\ full[l] = 0 /\ Len(d) <= l
        BY <2>1, <3>2, <4>1 DEF IsDelta, IsStart
      <4>3. Len(d) = i
        BY <2>3, <2>5, <4>2
      <4>4. d[i] = 0
        <5>1. i \in 1 .. Len(d)
          BY <2>1, <2>3, <4>3 DEF IsDelta
        <5> QED BY <4>2, <5>1 DEF IsStart
      <4>5. q = [r EXCEPT !.state = "end"]
        <5>1. ~(r.state # "reading" \/ r.i > Len(d)) /\ d[r.i] = 0
          BY <2>2, <2>3, <4>3, <4>4
        <5>2. q = LET tag == d[r.i]
                  IN CASE tag = 0          -> [r EXCEPT !.state = "end"]
                       [] tag \in 65 .. 68 -> ReadLiteral(r, d, tag)
                       [] tag \in 69 .. 84 -> ReadCopy(r, d, tag, base)
                       [] OTHER            -> [r EXCEPT !.state = "corrupt"]
          BY <5>1 DEF Apply1
        <5>3. ~(0 \in 65 .. 68) /\ ~(0 \in 69 .. 84)
          OBVIOUS
        <5> QED BY <5>1, <5>2, <5>3
      <4>6. q.state = "end" /\ q.out = o
        BY <2>2, <4>5
      <4>7. IsAtEnd(base, ops, D, O, d, q)
        BY <1>3, <2>1, <3>2, <4>3, <4>6 DEF IsAtEnd, IsAtOp
      <4> QED BY <4>7 DEF IsAt
    <3>3. CASE j # m
      <4>1. j \in 0 .. m - 1 /\ Len(D[j]) + 1 <= Len(d)
        BY <2>1, <2>3, <2>5, <3>3
      <4> QED BY <1>3, <3>1, <4>1, TurnAtOp
    <3> QED BY <3>2, <3>3
  <2> QED BY <2>3, <2>4, <2>5
<1> QED BY <1>1, <1>2, <1>3 DEF IsAt

\* Where it is when it has read all there is.
LEMMA LastTurn ==
    ASSUME NEW ops \in Seq(DeltaOp), \A i \in DOMAIN ops : IsSmall(ops[i]), NEW base \in Seq(Int),
           NEW m, m = Len(ops), NEW D, NEW full, IsDelta(ops, m, D, full), Len(D[0]) = 1,
           NEW O, O = OutputRun(base, ops, m),
           NEW d, IsStart(d, full), NEW f, f = TurnRun(base, d, Len(d))
    PROVE  /\ IsAt(base, ops, D, O, d, f[Len(d)], Len(d))
<1>1. PICK l : l = Len(d)
  OBVIOUS
<1>2. d \in Seq(Int) /\ l \in Nat /\ m \in Nat
  BY <1>1 DEF IsStart
<1>3. f[0] = [state |-> "reading", i |-> 2, out |-> <<>>] /\ \A n \in 0 .. l - 1 : f[n + 1] = Apply1(f[n], d, base)
  BY <1>1, <1>2, TurnSteps
<1>4. O[0] = <<>> /\ \A n \in 0 .. m - 1 : O[n + 1] = O[n] \o Piece(base, ops[n + 1])
  <2>1. IsOutput(O, base, ops, m)
    BY <1>2, OutputIs
  <2> QED BY <2>1, Zenon DEF IsOutput
<1> DEFINE G == {n \in 0 .. l : IsAt(base, ops, D, O, d, f[n], n)}
<1>5. 0 \in G
  <2>1. PICK z, r : z = 0 /\ r = f[z]
    OBVIOUS
  <2>2. r = [state |-> "reading", i |-> Len(D[z]) + 1, out |-> O[z]]
    <3>1. r = [state |-> "reading", i |-> 2, out |-> <<>>] /\ O[z] = <<>>
      BY <1>3, <1>4, <2>1, Zenon
    <3>2. Len(D[z]) + 1 = 2
      <4>1. PICK len : len = Len(D[z])
        OBVIOUS
      <4>2. len = 1
        BY <2>1, <4>1
      <4> QED BY <4>1, <4>2
    <3> QED BY <3>1, <3>2
  <2>3. Whole(base, ops, z)
    BY <2>1 DEF Whole
  <2>4. IsAtOp(base, ops, D, O, d, r, z, z)
    BY <2>2, <2>3 DEF IsAtOp, Reading
  <2>5. z \in 0 .. Len(ops) /\ z \in 0 .. l
    BY <1>2, <2>1
  <2>6. IsAt(base, ops, D, O, d, r, z)
    BY <2>4, <2>5 DEF IsAt
  <2> QED BY <2>1, <2>5, <2>6
<1>6. ASSUME NEW n \in 0 .. l - 1, n \in G PROVE n + 1 \in G
  <2>1. n \in Nat /\ n + 1 \in 0 .. l
    BY <1>2
  <2>2. f[n + 1] = Apply1(f[n], d, base)
    BY <1>3
  <2>3. IsAt(base, ops, D, O, d, f[n + 1], n + 1)
    BY <1>4, <1>6, <2>1, <2>2, Turn
  <2> QED BY <2>1, <2>3
<1>7. l \in G
  <2>1. 0 .. l \subseteq G
    <3> HIDE DEF G
    <3> QED BY <1>2, <1>5, <1>6, Induction
  <2> QED BY <1>2, <2>1
<1> QED BY <1>1, <1>7

\* What the reader makes of the beginning of a delta.
LEMMA ReadDelta ==
    ASSUME NEW ops \in Seq(DeltaOp), \A i \in DOMAIN ops : IsSmall(ops[i]), NEW base \in Seq(Int),
           NEW m, m = Len(ops), NEW full, full = EncodeRdiffDelta(ops), NEW O, O = Output(base, ops),
           NEW d, IsStart(d, full)
    PROVE  /\ d = full => ApplyRdiffDelta(base, d) = IF Whole(base, ops, m) THEN {O[m]} ELSE {}
           /\ ApplyRdiffDelta(base, d) \subseteq {O[j] : j \in 0 .. m}
<1>1. PICK D : D = DeltaRun(ops, m)
  OBVIOUS
<1>2. m \in Nat /\ IsDelta(ops, m, D, full)
  BY <1>1, DeltaLayout
<1>3. Len(D[0]) = 1
  <2>1. D[0] = <<Magic>>
    BY <1>1, <1>2, DeltaSteps
  <2> QED BY <2>1
<1>4. O = OutputRun(base, ops, m)
  BY Zenon DEF Output, OutputRun, OutputTo
<1>5. PICK l, f, r : l = Len(d) /\ f = TurnRun(base, d, l) /\ r = f[l]
  OBVIOUS
<1>6. IsAt(base, ops, D, O, d, r, l)
  BY <1>2, <1>3, <1>4, <1>5, LastTurn
<1>7. PICK read : read = ApplyRdiffDelta(base, d)
  OBVIOUS
<1>8. read = IF d = <<>> \/ r.state = "corrupt" THEN {} ELSE IF Head(d) # Magic THEN {} ELSE {r.out}
  <2>1. ApplyRdiffDelta(base, d) = IF d = <<>> \/ TurnRun(base, d, Len(d))[Len(d)].state = "corrupt" THEN {}
                                   ELSE IF Head(d) # Magic THEN {} ELSE {TurnRun(base, d, Len(d))[Len(d)].out}
    BY Zenon DEF ApplyRdiffDelta, TurnRun, TurnTo
  <2> QED BY <1>5, <1>7, <2>1
<1>9. d \in Seq(Int) /\ l \in Nat /\ l = Len(d)
  BY <1>5 DEF IsStart
<1>10. l # 0 => d # <<>> /\ Head(d) = Magic
  <2> SUFFICES ASSUME l # 0 PROVE d # <<>> /\ Head(d) = Magic
    OBVIOUS
  <2>1. d # <<>> /\ 1 \in 1 .. l
    BY <1>9
  <2>2. Head(d) = d[1]
    BY <1>9, <2>1
  <2>3. d[1] = full[1] /\ full[1] = Magic
    BY <1>2, <1>9, <2>1 DEF IsStart, IsDelta
  <2> QED BY <2>1, <2>2, <2>3
<1>11. \A j \in 0 .. m : Len(D[j]) \in Nat /\ Len(D[j]) >= j + 1 /\ Len(D[j]) <= Len(D[m])
  <2> SUFFICES ASSUME NEW j \in 0 .. m PROVE Len(D[j]) \in Nat /\ Len(D[j]) >= j + 1 /\ Len(D[j]) <= Len(D[m])
    OBVIOUS
  <2>1. D[j] \in Seq(Int) /\ Len(D[j]) >= j + 1 /\ Len(D[j]) <= Len(D[m])
    BY <1>2 DEF IsDelta
  <2> QED BY <2>1
<1>12. PICK last : last = Len(D[m])
  OBVIOUS
<1>13. last \in Nat /\ Len(full) = last + 1
  BY <1>2, <1>11, <1>12 DEF IsDelta
<1>14. read \subseteq {O[j] : j \in 0 .. m}
  <2>1. CASE IsCorrupt(base, ops, D, d, r)
    BY <1>8, <2>1 DEF IsCorrupt
  <2>2. CASE IsAtEnd(base, ops, D, O, d, r)
    <3>1. r.out = O[m] /\ m \in 0 .. m
      BY <1>2, <2>2 DEF IsAtEnd
    <3> QED BY <1>8, <3>1
  <2>3. ASSUME NEW j \in 0 .. m, IsAtOp(base, ops, D, O, d, r, l, j) PROVE read \subseteq {O[x] : x \in 0 .. m}
    <3>1. r.out = O[j]
      BY <2>3 DEF IsAtOp, Reading
    <3> QED BY <1>8, <3>1
  <2> QED BY <1>6, <2>1, <2>2, <2>3 DEF IsAt
<1>15. ASSUME d = full PROVE read = IF Whole(base, ops, m) THEN {O[m]} ELSE {}
  <2>1. l = last + 1
    BY <1>5, <1>13, <1>15
  <2>2. CASE IsCorrupt(base, ops, D, d, r)
    <3>1. ~(l <= last)
      BY <1>13, <2>1
    <3>2. r.state = "corrupt" /\ ~Whole(base, ops, m)
      BY <1>5, <1>12, <2>2, <3>1 DEF IsCorrupt
    <3> QED BY <1>8, <3>2
  <2>3. CASE IsAtEnd(base, ops, D, O, d, r)
    <3>1. Whole(base, ops, m) /\ r.state = "end" /\ r.out = O[m]
      BY <2>3 DEF IsAtEnd
    <3>2. l # 0
      BY <1>13, <2>1
    <3>3. d # <<>> /\ Head(d) = Magic /\ r.state # "corrupt"
      BY <1>10, <3>1, <3>2
    <3> QED BY <1>8, <3>1, <3>3
  <2>4. ASSUME NEW j \in 0 .. m, IsAtOp(base, ops, D, O, d, r, l, j) PROVE FALSE
    <3>1. PICK at : at = Len(D[j])
      OBVIOUS
    <3>2. at \in Nat /\ at >= j + 1 /\ at <= last
      BY <1>11, <1>12, <3>1
    <3>3. j = l \/ at + 1 > l
      BY <1>5, <2>4, <3>1 DEF IsAtOp
    <3> QED BY <1>2, <1>13, <2>1, <3>2, <3>3
  <2> QED BY <1>6, <2>2, <2>3, <2>4 DEF IsAt
<1> QED BY <1>7, <1>14, <1>15

\* DeltaIsItsOps (Rdiff), for operations whose numbers fit in the bytes there
\* are.
LEMMA DeltasAreTheirOps ==
    ASSUME NEW ops \in Seq(DeltaOp), \A i \in DOMAIN ops : IsSmall(ops[i]), NEW base \in Seq(Int)
    PROVE  DeltaIsItsOps(base, ops)
<1>1. PICK m, full, O : m = Len(ops) /\ full = EncodeRdiffDelta(ops) /\ O = Output(base, ops)
  OBVIOUS
<1>2. m \in Nat /\ DOMAIN ops = 1 .. m
  BY <1>1
<1>3. full \in Seq(Int) /\ Len(full) \in Nat
  <2>1. IsDelta(ops, m, DeltaRun(ops, m), full)
    BY <1>1, DeltaLayout
  <2> QED BY <2>1 DEF IsDelta
<1>4. Whole(base, ops, m) <=> \A i \in DOMAIN ops : ~Outside(base, ops[i])
  BY <1>2 DEF Whole
<1>5. IsStart(full, full)
  BY <1>3 DEF IsStart
<1>6. ApplyRdiffDelta(base, full) = IF Whole(base, ops, m) THEN {O[m]} ELSE {}
  BY <1>1, <1>5, ReadDelta
<1>7. ASSUME NEW n \in 0 .. Len(full)
      PROVE  ApplyRdiffDelta(base, SubSeq(full, 1, n)) \subseteq {O[j] : j \in 0 .. m}
  <2>1. PICK d : d = SubSeq(full, 1, n)
    OBVIOUS
  <2>2. d \in Seq(Int) /\ Len(d) = n /\ \A x \in 1 .. n : d[x] = full[x]
    BY <1>3, <2>1
  <2>3. IsStart(d, full)
    BY <1>3, <2>2 DEF IsStart
  <2>4. ApplyRdiffDelta(base, d) \subseteq {O[j] : j \in 0 .. m}
    BY <1>1, <2>3, ReadDelta
  <2> QED BY <2>1, <2>4
<1> QED BY <1>1, <1>4, <1>6, <1>7 DEF DeltaIsItsOps

\* DifferencesRebuild (Differences), for every set of packages and of deltas.
THEOREM AllDifferencesRebuild == DifferenceSpec => []DifferencesRebuild
<1>1. NoInput => DifferencesRebuild
  BY DEF NoInput, DifferencesRebuild
<1>2. DifferencesRebuild /\ [CompareDebs \/ ApplyDelta \/ Elsewhere({"diff", "delta"})]_inputVars => DifferencesRebuild'
  <2>1. ASSUME CompareDebs PROVE DifferencesRebuild'
    <3>1. PICK old \in Contained, new \in Contained : Take("diff", <<old, new>>)
      BY <2>1 DEF CompareDebs
    <3>2. ReportRebuilds(old, new)
      BY ReportsRebuild
    <3>3. part' = "diff" /\ input' = <<old, new>>
      BY <3>1 DEF Take
    <3> QED BY <3>2, <3>3 DEF DifferencesRebuild
  <2>2. ASSUME ApplyDelta PROVE DifferencesRebuild'
    <3>1. PICK ops \in Deltas : Take("delta", ops)
      BY <2>2 DEF ApplyDelta
    <3>2. ops \in Seq(DeltaOp)
      BY DifferenceAssumption DEF DeltaOp
    <3>3. ASSUME NEW i \in DOMAIN ops PROVE IsSmall(ops[i])
      <4>1. PICK p : p = Power[MaxBytes]
        OBVIOUS
      <4>2. p \in Nat
        BY <4>1, RdiffAssumption, Powers
      <4>3. {Len(ops[i].data), ops[i].from, ops[i].length} \subseteq 0 .. p - 1
        BY <3>1, <4>1, DifferenceAssumption
      <4> QED BY <4>1, <4>2, <4>3 DEF IsSmall
    <3>4. Basis \in Seq(Int)
      BY DifferenceAssumption
    <3>5. DeltaIsItsOps(Basis, ops)
      BY <3>2, <3>3, <3>4, DeltasAreTheirOps
    <3>6. part' = "delta" /\ input' = ops
      BY <3>1 DEF Take
    <3> QED BY <3>5, <3>6 DEF DifferencesRebuild
  <2>3. ASSUME Elsewhere({"diff", "delta"}) PROVE DifferencesRebuild'
    BY <2>3 DEF Elsewhere, DifferencesRebuild
  <2>4. ASSUME DifferencesRebuild, UNCHANGED inputVars PROVE DifferencesRebuild'
    BY <2>4 DEF inputVars, DifferencesRebuild
  <2> QED BY <2>1, <2>2, <2>3, <2>4
<1> QED BY <1>1, <1>2, PTL DEF DifferenceSpec
=============================================================================
