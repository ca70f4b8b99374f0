-------------------------- MODULE TriggerDbProofs ---------------------------
(***************************************************************************)
(* What a save acknowledged comes back, and a pending trigger is pending   *)
(* once and is one its package is interested in, for any packages, names   *)
(* and registrations and any number of saves, failures and restarts; and   *)
(* the archives packages come in are read as they are laid out, of any     *)
(* members and payloads, whole, in parts or cut short.                     *)
(***************************************************************************)
EXTENDS TriggerDb, DebArchive, SequenceTheorems, FiniteSetTheorems, NaturalsInduction, WellFoundedInduction, TLAPS

InMemory == pc \in {"up", "interests", "files"}

\* What a line of a pending file may read as.
Words == Name \cup UNION {Beginnings[n] : n \in Name}

\* A list of names, each once; anything else is only in a file that was cut
\* short, or was loaded from it.
IsList(p, list) ==
    /\ list \in Seq(Words)
    /\ p \notin cutFiles => list \in Seq(Name) /\ IsInjective(list)

TriggerTypes ==
    /\ interests \in [Package -> SUBSET Trigger]
    /\ lines \subseteq Package \X Trigger
    /\ \A p \in DOMAIN pending : p \in Package /\ IsList(p, pending[p])
    /\ \A p \in DOMAIN files : p \in Package /\ IsList(p, files[p])

\* While the program runs it is interested in all that the file says.
LinesAreKnown ==
    InMemory /\ ~cutLines => \A p \in Package, t \in Trigger :
                                <<p, t>> \in lines => t \in interests[p]

\* A name in a whole pending file is in the Interests file: it was written
\* before.
FilesHaveLines ==
    ~cutLines => \A p \in DOMAIN files \ cutFiles : \A i \in DOMAIN files[p] :
        \E t \in Trigger : <<p, t>> \in lines /\ t.name = files[p][i]

PendingIsKnown ==
    ~cutLines => \A p \in DOMAIN pending \ cutFiles : \A i \in DOMAIN pending[p] :
        IsInterested(p, pending[p][i])

\* Half way through the files of a save.
SaveIsUnderWay ==
    pc = "files" =>
        /\ unsaved \subseteq DOMAIN pending
        /\ \A p \in Package : \A t \in interests[p] : <<p, t>> \in lines
        /\ \A p \in DOMAIN pending \ unsaved : p \in DOMAIN files /\ files[p] = pending[p]

SavedIsOnDisk ==
    /\ ~cutLines => \A p \in Package : \A t \in lastSave.interests[p] : <<p, t>> \in lines
    /\ \A p \in DOMAIN lastSave.pending \ (processed \cup cutFiles) :
         \A i \in DOMAIN lastSave.pending[p] :
            p \in DOMAIN files /\ Listed(files[p], lastSave.pending[p][i])

\* SavedIsRestored, of the interests and of the pending triggers.
InterestsRestored ==
    InMemory /\ ~cutLines => \A p \in Package : lastSave.interests[p] \subseteq interests[p]
PendingRestored ==
    InMemory => \A p \in DOMAIN lastSave.pending \ (processed \cup cutFiles) :
                   \A i \in DOMAIN lastSave.pending[p] :
                      Listed(PendingOf(p), lastSave.pending[p][i])

SaveInv == /\ lastSave.interests \in [Package -> SUBSET Trigger]
           /\ SaveIsUnderWay
           /\ SavedIsOnDisk
           /\ InterestsRestored
           /\ PendingRestored
KnownInv == LinesAreKnown /\ FilesHaveLines /\ PendingIsKnown
TriggerInv == TriggerTypes /\ KnownInv /\ SaveInv

-----------------------------------------------------------------------------
(* Lists. *)

LEMMA EmptyIsEmpty == DOMAIN Empty = {}
  BY DEF Empty

LEMMA ListExtended ==
    ASSUME NEW p, NEW list, IsList(p, list), NEW n \in Name, ~Listed(list, n)
    PROVE  IsList(p, Append(list, n))
<1> DEFINE a == Append(list, n)
<1>1. list \in Seq(Words) /\ n \in Words
  BY DEF IsList, Words
<1>2. a \in Seq(Words)
  BY <1>1
<1>3. ASSUME p \notin cutFiles PROVE a \in Seq(Name) /\ IsInjective(a)
  <2>1. list \in Seq(Name) /\ IsInjective(list)
    BY <1>3 DEF IsList
  <2>2. a \in Seq(Name)
    BY <2>1
  <2>3. /\ DOMAIN list = 1 .. Len(list) /\ Len(list) \in Nat
        /\ DOMAIN a = 1 .. Len(list) + 1
        /\ \A i \in 1 .. Len(list) : a[i] = list[i]
        /\ a[Len(list) + 1] = n
    BY <2>1
  <2>4. \A k \in 1 .. Len(list) : list[k] # n
    BY <2>3 DEF Listed
  <2>5. \A k, l \in 1 .. Len(list) : list[k] = list[l] => k = l
    BY <2>1, <2>3 DEF IsInjective
  <2>6. ASSUME NEW i \in DOMAIN a, NEW j \in DOMAIN a, a[i] = a[j] PROVE i = j
    <3> HIDE DEF a
    <3> QED BY <2>3, <2>4, <2>5, <2>6
  <2> QED BY <2>2, <2>6 DEF IsInjective
<1> QED
  BY <1>2, <1>3 DEF IsList

\* The first names of a list, and perhaps the beginning of another.
LEMMA ListCut ==
    ASSUME NEW list \in Seq(Name), NEW k \in 0 .. Len(list) - 1,
           NEW rest \in {<<>>} \cup {<<w>> : w \in Beginnings[list[k + 1]]}
    PROVE  SubSeq(list, 1, k) \o rest \in Seq(Words)
<1> DEFINE s == SubSeq(list, 1, k)
<1>1. s \in Seq(Name) /\ Name \subseteq Words
  BY SubSeqProperties DEF Words
<1>2. rest \in Seq(Words)
  <2>1. CASE rest = <<>>
    BY <2>1
  <2>2. CASE rest # <<>>
    <3>1. list[k + 1] \in Name
      OBVIOUS
    <3>2. PICK w \in Beginnings[list[k + 1]] : rest = <<w>>
      BY <2>2
    <3>3. w \in Words
      BY <3>1, <3>2 DEF Words
    <3> QED BY <3>2, <3>3
  <2> QED BY <2>1, <2>2
<1>3. s \in Seq(Words)
  <2> HIDE DEF s
  <2> QED BY <1>1
<1> HIDE DEF s
<1>4. s \o rest \in Seq(Words)
  BY <1>2, <1>3, ConcatProperties
<1> QED BY <1>4 DEF s

-----------------------------------------------------------------------------
LEMMA TriggerInit == Init => TriggerInv
<1> SUFFICES ASSUME Init PROVE TriggerInv
  OBVIOUS
<1> USE EmptyIsEmpty
<1>1. TriggerTypes
  BY DEF Init, TriggerTypes, NoInterests
<1>2. KnownInv
  BY DEF Init, KnownInv, LinesAreKnown, FilesHaveLines, PendingIsKnown
<1>3. SaveInv
  BY DEF Init, SaveInv, SaveIsUnderWay, SavedIsOnDisk, InterestsRestored,
         PendingRestored, NoInterests
<1> QED
  BY <1>1, <1>2, <1>3 DEF TriggerInv

\* The calls that change the database in memory.
LEMMA InterestKeeps ==
    ASSUME TriggerInv, NEW p \in Package, NEW t \in Trigger, Interest(p, t)
    PROVE  TriggerInv'
<1> USE DEF TriggerInv
<1>1. /\ UNCHANGED <<pending, pc, unsaved, disk, history>> /\ pc = "up"
      /\ interests' = [interests EXCEPT ![p] = @ \cup {t}]
  BY DEF Interest
<1>2. UNCHANGED <<lines, files, cutLines, cutFiles, lastSave, processed>>
  BY <1>1 DEF disk, history
<1>3. /\ interests' \in [Package -> SUBSET Trigger]
      /\ \A q \in Package : interests[q] \subseteq interests'[q]
  BY <1>1 DEF TriggerTypes
<1>4. TriggerTypes'
  BY <1>1, <1>2, <1>3 DEF TriggerTypes, IsList
<1>5. KnownInv'
  <2>1. LinesAreKnown'
    BY <1>1, <1>2, <1>3 DEF KnownInv, LinesAreKnown, InMemory
  <2>2. FilesHaveLines'
    BY <1>2 DEF KnownInv, FilesHaveLines
  <2>3. PendingIsKnown'
    BY <1>1, <1>2, <1>3 DEF KnownInv, PendingIsKnown, TriggerTypes, IsInterested
  <2> QED
    BY <2>1, <2>2, <2>3 DEF KnownInv
<1>6. SaveInv'
  <2>1. InterestsRestored'
    BY <1>1, <1>2, <1>3 DEF SaveInv, InterestsRestored, InMemory
  <2>2. PendingRestored'
    BY <1>1, <1>2 DEF SaveInv, PendingRestored, InMemory, PendingOf
  <2>3. SavedIsOnDisk'
    BY <1>2 DEF SaveInv, SavedIsOnDisk
  <2> QED
    BY <1>1, <1>2, <2>1, <2>2, <2>3 DEF SaveInv, SaveIsUnderWay
<1> QED
  BY <1>4, <1>5, <1>6

LEMMA ActivateKeeps ==
    ASSUME TriggerInv, NEW n \in Name, Activate(n)
    PROVE  TriggerInv'
<1> USE DEF TriggerInv
<1>1. /\ UNCHANGED <<interests, pc, unsaved, disk, history>> /\ pc = "up"
      /\ pending' = [p \in DOMAIN pending \cup Newly(n) |->
                       IF p \in Newly(n) THEN Extended(p, n) ELSE pending[p]]
  BY DEF Activate
<1>2. UNCHANGED <<lines, files, cutLines, cutFiles, lastSave, processed>>
  BY <1>1 DEF disk, history
<1>3. ASSUME NEW p \in Newly(n)
      PROVE  /\ p \in Package /\ IsInterested(p, n) /\ ~Listed(PendingOf(p), n)
             /\ IsList(p, PendingOf(p)) /\ IsList(p, Extended(p, n))
             /\ pending'[p] = Append(PendingOf(p), n)
  <2>1. p \in Package /\ IsInterested(p, n) /\ ~Listed(PendingOf(p), n)
    BY DEF Newly
  <2>2. IsList(p, <<>>)
    BY DEF IsList, IsInjective
  <2>3. IsList(p, PendingOf(p))
    BY <2>2 DEF PendingOf, TriggerTypes
  <2> QED
    BY <1>1, <2>1, <2>3, ListExtended DEF Extended
<1>4. /\ DOMAIN pending' = DOMAIN pending \cup Newly(n)
      /\ \A p \in DOMAIN pending \ Newly(n) : pending'[p] = pending[p]
  BY <1>1
<1>5. TriggerTypes'
  <2>1. \A p \in DOMAIN pending' : p \in Package /\ IsList(p, pending'[p])
    BY <1>3, <1>4 DEF TriggerTypes, Extended
  <2> QED
    BY <1>1, <1>2, <2>1 DEF TriggerTypes, IsList
<1>6. KnownInv'
  <2>1. PendingIsKnown'
    <3> SUFFICES ASSUME ~cutLines, NEW p \in DOMAIN pending' \ cutFiles,
                        NEW i \in DOMAIN pending'[p]
                 PROVE  IsInterested(p, pending'[p][i])
      BY <1>1, <1>2 DEF PendingIsKnown, IsInterested
    <3>1. CASE p \notin Newly(n)
      BY <1>4, <3>1 DEF KnownInv, PendingIsKnown
    <3>2. CASE p \in Newly(n)
      <4>1. PendingOf(p) \in Seq(Words) /\ pending'[p] = Append(PendingOf(p), n)
        BY <1>3, <3>2 DEF IsList
      <4>2. pending'[p][i] = n \/ (i \in DOMAIN PendingOf(p) /\ pending'[p][i] = PendingOf(p)[i])
        BY <4>1
      <4>3. \A j \in DOMAIN PendingOf(p) : IsInterested(p, PendingOf(p)[j])
        BY DEF PendingOf, KnownInv, PendingIsKnown
      <4> QED
        BY <1>3, <3>2, <4>2, <4>3
    <3> QED
      BY <3>1, <3>2
  <2>2. LinesAreKnown'
    BY <1>1, <1>2 DEF KnownInv, LinesAreKnown, InMemory
  <2>3. FilesHaveLines'
    BY <1>2 DEF KnownInv, FilesHaveLines
  <2> QED
    BY <2>1, <2>2, <2>3 DEF KnownInv
<1>7. SaveInv'
  <2>1. ASSUME NEW p, NEW m, Listed(PendingOf(p), m)
        PROVE  p \in DOMAIN pending' /\ Listed(pending'[p], m)
    <3>1. p \in DOMAIN pending
      BY <2>1 DEF PendingOf, Listed
    <3>2. CASE p \notin Newly(n)
      BY <1>4, <2>1, <3>1, <3>2 DEF PendingOf
    <3>3. CASE p \in Newly(n)
      <4>1. PendingOf(p) \in Seq(Words) /\ pending'[p] = Append(PendingOf(p), n)
        BY <1>3, <3>3 DEF IsList
      <4>2. \A i \in DOMAIN PendingOf(p) :
               i \in DOMAIN pending'[p] /\ pending'[p][i] = PendingOf(p)[i]
        BY <4>1
      <4> QED
        BY <1>4, <2>1, <3>1, <4>2 DEF Listed
    <3> QED
      BY <3>2, <3>3
  <2>2. PendingRestored'
    BY <1>1, <1>2, <2>1 DEF SaveInv, PendingRestored, InMemory, PendingOf
  <2>3. SavedIsOnDisk'
    BY <1>2 DEF SaveInv, SavedIsOnDisk
  <2> QED
    BY <1>1, <1>2, <2>2, <2>3 DEF SaveInv, SaveIsUnderWay, InterestsRestored, InMemory
<1> QED
  BY <1>5, <1>6, <1>7

LEMMA ProcessKeeps ==
    ASSUME TriggerInv, NEW p, Process(p)
    PROVE  TriggerInv'
<1> USE DEF TriggerInv
<1>1. /\ UNCHANGED <<interests, pc, unsaved, disk, lastSave>> /\ pc = "up"
      /\ processed' = processed \cup {p}
      /\ DOMAIN pending' = DOMAIN pending \ {p}
      /\ \A q \in DOMAIN pending \ {p} : pending'[q] = pending[q]
  BY DEF Process, Restrict
<1>2. UNCHANGED <<lines, files, cutLines, cutFiles>>
  BY <1>1 DEF disk
<1>3. TriggerTypes'
  BY <1>1, <1>2 DEF TriggerTypes, IsList
<1>4. KnownInv'
  BY <1>1, <1>2 DEF KnownInv, LinesAreKnown, FilesHaveLines, PendingIsKnown,
                    InMemory, IsInterested
<1>5. SaveInv'
  <2>1. PendingRestored'
    BY <1>1, <1>2 DEF SaveInv, PendingRestored, InMemory, PendingOf
  <2>2. SavedIsOnDisk'
    BY <1>1, <1>2 DEF SaveInv, SavedIsOnDisk
  <2> QED
    BY <1>1, <1>2, <2>1, <2>2 DEF SaveInv, SaveIsUnderWay, InterestsRestored, InMemory
<1> QED
  BY <1>3, <1>4, <1>5

\* The steps of save_dir.
LEMMA StartKeeps ==
    ASSUME TriggerInv, StartSave
    PROVE  TriggerInv'
<1> USE DEF TriggerInv
<1>1. /\ UNCHANGED <<interests, pending, unsaved, lines, files, cutLines,
                     cutFiles, lastSave, processed>>
      /\ pc = "up" /\ pc' = "interests"
  BY DEF StartSave
<1>2. TriggerTypes'
  BY <1>1 DEF TriggerTypes, IsList
<1>3. KnownInv'
  BY <1>1 DEF KnownInv, LinesAreKnown, FilesHaveLines, PendingIsKnown, InMemory, IsInterested
<1>4. SaveInv'
  BY <1>1 DEF SaveInv, SaveIsUnderWay, SavedIsOnDisk, InterestsRestored,
              PendingRestored, InMemory, PendingOf
<1> QED
  BY <1>2, <1>3, <1>4

LEMMA WriteInterestsKeeps ==
    ASSUME TriggerInv, WriteInterests
    PROVE  TriggerInv'
<1> USE DEF TriggerInv
<1>1. /\ UNCHANGED <<interests, pending, files, cutLines, cutFiles, history>>
      /\ pc = "interests" /\ pc' = "files" /\ unsaved' = DOMAIN pending
      /\ lines' = UNION {{p} \X interests[p] : p \in Package}
  BY DEF WriteInterests
<1>2. UNCHANGED <<lastSave, processed>>
  BY <1>1 DEF history
<1>3. /\ lines' \subseteq Package \X Trigger
      /\ \A p \in Package, t \in Trigger : <<p, t>> \in lines' <=> t \in interests[p]
  BY <1>1 DEF TriggerTypes
<1>4. TriggerTypes'
  BY <1>1, <1>3 DEF TriggerTypes, IsList
<1>5. \A p \in Package, t \in Trigger : ~cutLines /\ <<p, t>> \in lines => <<p, t>> \in lines'
  BY <1>1, <1>3 DEF KnownInv, LinesAreKnown, InMemory
<1>6. KnownInv'
  <2>1. FilesHaveLines'
    <3> SUFFICES ASSUME ~cutLines, NEW q \in DOMAIN files \ cutFiles,
                        NEW i \in DOMAIN files[q]
                 PROVE  \E t \in Trigger : <<q, t>> \in lines' /\ t.name = files[q][i]
      BY <1>1 DEF FilesHaveLines
    <3>1. PICK t \in Trigger : <<q, t>> \in lines /\ t.name = files[q][i]
      BY DEF KnownInv, FilesHaveLines
    <3>2. q \in Package
      BY DEF TriggerTypes
    <3> QED
      BY <1>5, <3>1, <3>2
  <2> QED
    BY <1>1, <1>3, <2>1 DEF KnownInv, LinesAreKnown, PendingIsKnown, IsInterested
<1>7. SaveInv'
  <2>1. SavedIsOnDisk'
    BY <1>1, <1>2, <1>5 DEF SaveInv, SavedIsOnDisk
  <2>2. SaveIsUnderWay'
    BY <1>1, <1>3 DEF SaveIsUnderWay, TriggerTypes
  <2> QED
    BY <1>1, <1>2, <2>1, <2>2 DEF SaveInv, InterestsRestored, PendingRestored, InMemory, PendingOf
<1> QED
  BY <1>4, <1>6, <1>7

LEMMA WritePendingKeeps ==
    ASSUME TriggerInv, NEW p, WritePending(p)
    PROVE  TriggerInv'
<1> USE DEF TriggerInv
<1>1. /\ UNCHANGED <<interests, pending, pc, lines, cutLines, cutFiles, history>>
      /\ pc = "files" /\ p \in unsaved /\ unsaved' = unsaved \ {p}
      /\ DOMAIN files' = DOMAIN files \cup {p}
      /\ files'[p] = pending[p] /\ \A q \in DOMAIN files \ {p} : files'[q] = files[q]
  BY DEF WritePending
<1>2. UNCHANGED <<lastSave, processed>>
  BY <1>1 DEF history
<1>3. p \in DOMAIN pending /\ p \in Package /\ IsList(p, pending[p])
  BY <1>1 DEF SaveInv, SaveIsUnderWay, TriggerTypes
<1>4. TriggerTypes'
  BY <1>1, <1>3 DEF TriggerTypes, IsList
<1>5. KnownInv'
  <2>1. ~cutLines /\ p \notin cutFiles => \A i \in DOMAIN pending[p] :
           \E t \in Trigger : <<p, t>> \in lines /\ t.name = pending[p][i]
    BY <1>1, <1>3 DEF KnownInv, PendingIsKnown, IsInterested, SaveInv,
                      SaveIsUnderWay, TriggerTypes
  <2>2. FilesHaveLines'
    <3> SUFFICES ASSUME ~cutLines, NEW q \in DOMAIN files' \ cutFiles,
                        NEW i \in DOMAIN files'[q]
                 PROVE  \E t \in Trigger : <<q, t>> \in lines /\ t.name = files'[q][i]
      BY <1>1 DEF FilesHaveLines
    <3>1. CASE q = p
      BY <1>1, <2>1, <3>1
    <3>2. CASE q # p
      BY <1>1, <3>2 DEF KnownInv, FilesHaveLines
    <3> QED
      BY <3>1, <3>2
  <2> QED
    BY <1>1, <2>2 DEF KnownInv, LinesAreKnown, PendingIsKnown, IsInterested, InMemory
<1>6. SaveInv'
  <2>1. SavedIsOnDisk'
    <3>1. \A i \in DOMAIN lastSave.pending[p] :
             p \in DOMAIN lastSave.pending \ (processed \cup cutFiles)
               => Listed(pending[p], lastSave.pending[p][i])
      BY <1>1, <1>3 DEF SaveInv, PendingRestored, InMemory, PendingOf
    <3> QED
      BY <1>1, <1>2, <3>1 DEF SaveInv, SavedIsOnDisk
  <2>2. SaveIsUnderWay'
    BY <1>1 DEF SaveInv, SaveIsUnderWay
  <2> QED
    BY <1>1, <1>2, <2>1, <2>2 DEF SaveInv, InterestsRestored, PendingRestored, InMemory, PendingOf
<1> QED
  BY <1>4, <1>5, <1>6

LEMMA EndKeeps ==
    ASSUME TriggerInv, EndSave
    PROVE  TriggerInv'
<1> USE DEF TriggerInv
<1>1. /\ UNCHANGED <<interests, pending, lines, files, cutLines, cutFiles>>
      /\ pc = "files" /\ unsaved = {} /\ pc' = "up"
      /\ lastSave'.interests = interests /\ lastSave'.pending = pending
  BY DEF EndSave
<1>2. TriggerTypes'
  BY <1>1 DEF TriggerTypes, IsList
<1>3. KnownInv'
  BY <1>1 DEF KnownInv, LinesAreKnown, FilesHaveLines, PendingIsKnown, InMemory, IsInterested
<1>4. SaveInv'
  <2>1. SavedIsOnDisk'
    BY <1>1 DEF SaveInv, SaveIsUnderWay, SavedIsOnDisk, Listed
  <2>2. PendingRestored'
    BY <1>1 DEF PendingRestored, PendingOf, Listed
  <2> QED
    BY <1>1, <2>1, <2>2 DEF SaveInv, SaveIsUnderWay, InterestsRestored, TriggerTypes
<1> QED
  BY <1>2, <1>3, <1>4

\* After an error the memory is as before; a stop leaves none.
LEMMA LeavesKeeps ==
    ASSUME TriggerInv, Leaves \/ Stop, InMemory,
           UNCHANGED <<lastSave, processed>>,
           cutLines => cutLines', ~cutLines' => lines' = lines,
           cutFiles \subseteq cutFiles', lines' \subseteq Package \X Trigger,
           DOMAIN files \subseteq DOMAIN files',
           (\A q \in DOMAIN files : q \in Package /\ IsList(q, files[q]))',
           \A q \in DOMAIN files' \ cutFiles' : q \in DOMAIN files /\ files'[q] = files[q]
    PROVE  TriggerInv'
<1> USE DEF TriggerInv
<1>1. \/ pc' = "up" /\ UNCHANGED <<interests, pending>>
      \/ pc' = "down" /\ interests' = NoInterests /\ pending' = Empty
  BY DEF Leaves, Stop
<1>2. \A q \in DOMAIN pending' : q \in DOMAIN pending /\ UNCHANGED <<interests, pending>>
  BY <1>1, EmptyIsEmpty
<1>3. TriggerTypes'
  <2>1. interests' \in [Package -> SUBSET Trigger]
    BY <1>1 DEF NoInterests, TriggerTypes
  <2>2. (\A q \in DOMAIN pending : q \in Package /\ IsList(q, pending[q]))'
    BY <1>2 DEF TriggerTypes, IsList
  <2> QED
    BY <2>1, <2>2 DEF TriggerTypes
<1>4. KnownInv'
  <2>1. LinesAreKnown'
    BY <1>1 DEF KnownInv, LinesAreKnown, InMemory
  <2>2. FilesHaveLines'
    BY DEF KnownInv, FilesHaveLines
  <2>3. PendingIsKnown'
    BY <1>2 DEF KnownInv, PendingIsKnown, IsInterested
  <2> QED
    BY <2>1, <2>2, <2>3 DEF KnownInv
<1>5. SaveInv'
  <2>1. SavedIsOnDisk'
    <3> SUFFICES ASSUME NEW q \in DOMAIN lastSave.pending \ (processed \cup cutFiles'),
                        NEW i \in DOMAIN lastSave.pending[q]
                 PROVE  q \in DOMAIN files' /\ Listed(files'[q], lastSave.pending[q][i])
      BY DEF SaveInv, SavedIsOnDisk
    <3>1. q \in DOMAIN files /\ Listed(files[q], lastSave.pending[q][i])
      BY DEF SaveInv, SavedIsOnDisk
    <3> QED
      BY <3>1
  <2>2. InterestsRestored' /\ PendingRestored'
    BY <1>1 DEF SaveInv, InterestsRestored, PendingRestored, InMemory, PendingOf
  <2>3. SaveIsUnderWay'
    BY <1>1 DEF SaveIsUnderWay
  <2> QED
    BY <2>1, <2>2, <2>3 DEF SaveInv
<1> QED
  BY <1>3, <1>4, <1>5

LEMMA InterruptKeeps ==
    ASSUME TriggerInv, Interrupt \/ Stop
    PROVE  TriggerInv'
<1>1. /\ Leaves \/ Stop
      /\ InMemory /\ UNCHANGED <<disk, history>>
  BY DEF Interrupt, Stop, InMemory
<1>2. UNCHANGED <<lines, files, cutLines, cutFiles, lastSave, processed>>
  BY <1>1 DEF disk, history
<1>3. /\ lines' \subseteq Package \X Trigger
      /\ (\A q \in DOMAIN files : q \in Package /\ IsList(q, files[q]))'
  BY <1>2 DEF TriggerInv, TriggerTypes, IsList
<1> QED
  BY <1>1, <1>2, <1>3, LeavesKeeps

LEMMA CutInterestsKeeps ==
    ASSUME TriggerInv, CutInterests
    PROVE  TriggerInv'
<1>1. /\ Leaves /\ InMemory /\ cutLines' /\ UNCHANGED <<files, cutFiles, history>>
  BY DEF CutInterests, InMemory
<1>2. UNCHANGED <<lastSave, processed>>
  BY <1>1 DEF history
<1>3. (\A q \in DOMAIN files : q \in Package /\ IsList(q, files[q]))'
  BY <1>1 DEF TriggerInv, TriggerTypes, IsList
<1>4. lines' \subseteq Package \X Trigger
  <2>1. PICK whole \in SUBSET UNION {{p} \X interests[p] : p \in Package} :
          \/ lines' = whole
          \/ \E l \in whole : lines' = (whole \ {l}) \cup
                                {<<l[1], [name |-> l[2].name, awaited |-> FALSE]>>}
    BY DEF CutInterests
  <2>2. whole \subseteq Package \X Trigger
    BY DEF TriggerInv, TriggerTypes
  <2>3. \A l \in Package \X Trigger :
           <<l[1], [name |-> l[2].name, awaited |-> FALSE]>> \in Package \X Trigger
    BY DEF Trigger
  <2> QED
    BY <2>1, <2>2, <2>3
<1> QED
  BY <1>1, <1>2, <1>3, <1>4, LeavesKeeps

LEMMA CutPendingKeeps ==
    ASSUME TriggerInv, NEW p, CutPending(p)
    PROVE  TriggerInv'
<1>1. /\ Leaves /\ InMemory /\ UNCHANGED <<lines, cutLines, history>>
      /\ pc = "files" /\ p \in unsaved \ cutFiles /\ cutFiles' = cutFiles \cup {p}
  BY DEF CutPending, InMemory
<1>2. UNCHANGED <<lastSave, processed>>
  BY <1>1 DEF history
<1>3. p \in DOMAIN pending /\ p \in Package /\ pending[p] \in Seq(Name)
  BY <1>1 DEF TriggerInv, TriggerTypes, IsList, SaveInv, SaveIsUnderWay
<1>4. PICK k \in 0 .. Len(pending[p]) - 1 :
        \E rest \in {<<>>} \cup {<<w>> : w \in Beginnings[pending[p][k + 1]]} :
          files' = [q \in DOMAIN files \cup {p} |->
                      IF q = p THEN SubSeq(pending[p], 1, k) \o rest ELSE files[q]]
  BY DEF CutPending
<1>5. PICK rest \in {<<>>} \cup {<<w>> : w \in Beginnings[pending[p][k + 1]]} :
        files' = [q \in DOMAIN files \cup {p} |->
                    IF q = p THEN SubSeq(pending[p], 1, k) \o rest ELSE files[q]]
  BY <1>4
<1>6. files'[p] \in Seq(Words)
  BY <1>3, <1>5, ListCut
<1>7. DOMAIN files' = DOMAIN files \cup {p} /\ \A q \in DOMAIN files \ {p} : files'[q] = files[q]
  BY <1>5
<1>8. (\A q \in DOMAIN files : q \in Package /\ IsList(q, files[q]))'
  BY <1>1, <1>3, <1>6, <1>7 DEF TriggerInv, TriggerTypes, IsList
<1>9. lines' \subseteq Package \X Trigger
  BY <1>1 DEF TriggerInv, TriggerTypes
<1> QED
  BY <1>1, <1>2, <1>7, <1>8, <1>9, LeavesKeeps

LEMMA LoadKeeps ==
    ASSUME TriggerInv, Load
    PROVE  TriggerInv'
<1> USE DEF TriggerInv
<1>1. /\ UNCHANGED <<disk, history>> /\ pc' = "up"
      /\ interests' = [p \in Package |-> {t \in Trigger : <<p, t>> \in lines}]
      /\ DOMAIN pending' = {p \in DOMAIN files : files[p] # <<>>}
      /\ \A p \in DOMAIN pending' : pending'[p] = files[p]
  BY DEF Load, Restrict
<1>2. UNCHANGED <<lines, files, cutLines, cutFiles, lastSave, processed>>
  BY <1>1 DEF disk, history
<1>3. TriggerTypes'
  BY <1>1, <1>2 DEF TriggerTypes, IsList
<1>4. KnownInv'
  <2>1. LinesAreKnown'
    BY <1>1, <1>2 DEF LinesAreKnown
  <2>2. PendingIsKnown'
    <3> SUFFICES ASSUME ~cutLines, NEW p \in DOMAIN pending' \ cutFiles,
                        NEW i \in DOMAIN pending'[p]
                 PROVE  \E t \in interests'[p] : t.name = pending'[p][i]
      BY <1>2 DEF PendingIsKnown, IsInterested
    <3>1. p \in DOMAIN files \ cutFiles /\ p \in Package /\ pending'[p] = files[p]
      BY <1>1 DEF TriggerTypes
    <3>2. PICK t \in Trigger : <<p, t>> \in lines /\ t.name = files[p][i]
      BY <3>1 DEF KnownInv, FilesHaveLines
    <3> QED
      BY <1>1, <3>1, <3>2
  <2> QED
    BY <1>2, <2>1, <2>2 DEF KnownInv, FilesHaveLines
<1>5. SaveInv'
  <2>1. InterestsRestored'
    BY <1>1, <1>2 DEF SaveInv, SavedIsOnDisk, InterestsRestored
  <2>2. \A p, m : p \in DOMAIN files /\ Listed(files[p], m)
                    => p \in DOMAIN pending' /\ Listed(pending'[p], m)
    BY <1>1 DEF Listed
  <2>3. PendingRestored'
    BY <1>2, <2>2 DEF SaveInv, SavedIsOnDisk, PendingRestored, PendingOf
  <2> QED
    BY <1>1, <1>2, <2>1, <2>3 DEF SaveInv, SavedIsOnDisk, SaveIsUnderWay
<1> QED
  BY <1>3, <1>4, <1>5

LEMMA AsideKeeps ==
    ASSUME TriggerInv, LoadFails \/ UNCHANGED vars
    PROVE  TriggerInv'
<1>1. /\ UNCHANGED <<interests, pending, unsaved, disk, history>>
      /\ pc' = pc \/ pc' = "failed"
  BY DEF LoadFails, vars
<1>2. UNCHANGED <<lines, files, cutLines, cutFiles, lastSave, processed>>
  BY <1>1 DEF disk, history
<1>3. TriggerTypes'
  BY <1>1, <1>2 DEF TriggerInv, TriggerTypes, IsList
<1>4. KnownInv'
  BY <1>1, <1>2 DEF TriggerInv, KnownInv, LinesAreKnown, FilesHaveLines,
                    PendingIsKnown, InMemory, IsInterested
<1>5. SaveInv'
  BY <1>1, <1>2 DEF TriggerInv, SaveInv, SaveIsUnderWay, SavedIsOnDisk,
                    InterestsRestored, PendingRestored, InMemory, PendingOf
<1> QED
  BY <1>3, <1>4, <1>5 DEF TriggerInv

LEMMA TriggerInvariant == Spec => []TriggerInv
<1>1. TriggerInv /\ [Next]_vars => TriggerInv'
  <2> SUFFICES ASSUME TriggerInv, [Next]_vars PROVE TriggerInv'
    OBVIOUS
  <2>1. ASSUME NEW r \in Registrations, Interest(r[1], r[2]) PROVE TriggerInv'
    <3>1. r[1] \in Package /\ r[2] \in Trigger
      BY TriggersAssumption
    <3> QED
      BY <2>1, <3>1, InterestKeeps
  <2>2. ASSUME NEW n \in Name, Activate(n) PROVE TriggerInv'
    BY <2>2, ActivateKeeps
  <2>3. ASSUME NEW p, Process(p) \/ WritePending(p) \/ CutPending(p) PROVE TriggerInv'
    BY <2>3, ProcessKeeps, WritePendingKeeps, CutPendingKeeps
  <2>4. CASE StartSave \/ WriteInterests \/ EndSave
    BY <2>4, StartKeeps, WriteInterestsKeeps, EndKeeps
  <2>5. CASE Interrupt \/ CutInterests \/ Stop
    BY <2>5, InterruptKeeps, CutInterestsKeeps
  <2>6. CASE Load \/ LoadFails \/ UNCHANGED vars
    BY <2>6, LoadKeeps, AsideKeeps
  <2> QED
    BY <2>1, <2>2, <2>3, <2>4, <2>5, <2>6 DEF Next
<1> QED
  BY <1>1, TriggerInit, PTL DEF Spec

-----------------------------------------------------------------------------
\* Through saves that fail at any file or within one, stops, loads and calls
\* in any order: what the last save that returned Ok held, and was not
\* processed since, is there while a program runs (save_dir, load_dir).
THEOREM SavesAreRestored == Spec => []SavedIsRestored
<1>1. TriggerInv => SavedIsRestored
  BY DEF TriggerInv, SaveInv, InterestsRestored, PendingRestored, SavedIsRestored, InMemory
<1> QED
  BY <1>1, TriggerInvariant, PTL

\* A pending trigger is pending once, unless its file was cut short, and is one
\* its package is interested in, unless that or the Interests file was; what is
\* left of a line that was cut may be any name (save_dir, activate, load_dir).
THEOREM PendingAreInteresting == Spec => []PendingHasInterest
<1>1. TriggerInv => PendingHasInterest
  BY DEF TriggerInv, TriggerTypes, IsList, KnownInv, PendingIsKnown, PendingHasInterest
<1> QED
  BY <1>1, TriggerInvariant, PTL

-----------------------------------------------------------------------------
(* DebArchive.                                                               *)

\* Induction over the turns of a loop, from the least element of what is left.
LEMMA Induction ==
    ASSUME NEW last \in Nat, NEW G, 0 \in G,
           \A i \in 0 .. last - 1 : i \in G => i + 1 \in G
    PROVE  0 .. last \subseteq G
<1> DEFINE Below == OpToRel(<, Nat)
           Left   == (0 .. last) \ G
<1>1. IsWellFoundedOn(Below, Nat)
  BY NatLessThanWellFounded
<1>2. \A a, b \in Nat : a < b => <<a, b>> \in Below
  BY DEF OpToRel
<1>3. Left # {} => \E m \in Left : \A i \in Left : ~(<<i, m>> \in Below)
  <2>1. Left \subseteq Nat
    OBVIOUS
  <2> QED BY <1>1, <2>1, WFMin
<1> HIDE DEF Below
<1>4. ASSUME NEW m \in Left, \A i \in Left : ~(<<i, m>> \in Below) PROVE FALSE
  <2>1. m \in Nat /\ m # 0 /\ m - 1 \in 0 .. last - 1 /\ m - 1 \in Nat
    BY <1>4
  <2>2. <<m - 1, m>> \in Below
    BY <1>2, <2>1
  <2>3. m - 1 \in G
    BY <1>4, <2>1, <2>2
  <2> QED BY <1>4, <2>1, <2>3
<1> QED BY <1>3, <1>4

\* The least of a set of positions.
LEMMA LeastExists ==
    ASSUME NEW S \in SUBSET Nat, S # {}
    PROVE  \E i \in S : \A j \in S : i <= j
<1> DEFINE Below == OpToRel(<, Nat)
<1>1. IsWellFoundedOn(Below, Nat)
  BY NatLessThanWellFounded
<1>2. \A a, b \in Nat : a < b => <<a, b>> \in Below
  BY DEF OpToRel
<1>3. \E m \in S : \A i \in S : ~(<<i, m>> \in Below)
  <2> HIDE DEF Below
  <2> QED BY <1>1, WFMin
<1> HIDE DEF Below
<1>4. PICK m \in S : \A i \in S : ~(<<i, m>> \in Below)
  BY <1>3
<1>5. ASSUME NEW i \in S PROVE m <= i
  <2>1. m \in Nat /\ i \in Nat /\ ~(i < m)
    BY <1>2, <1>4
  <2> QED BY <2>1
<1> QED BY <1>4, <1>5

LEMMA FunctionIsSeq ==
    ASSUME NEW S, NEW size \in Nat, NEW f \in [1 .. size -> S]
    PROVE  f \in Seq(S) /\ Len(f) = size /\ DOMAIN f = 1 .. size
OBVIOUS

-----------------------------------------------------------------------------
(* The loops of the readers of archives, turn by turn: the function that a   *)
(* loop is exists, and its values follow from each other.                    *)

WrittenTo(f, ms, m) == [n \in 0 .. m |-> IF n = 0 THEN <<Cell("magic")>> ELSE f[n - 1] \o WriteMember(ms[n])]
WrittenRun(ms, m) == CHOOSE f : f = WrittenTo(f, ms, m)

LEMMA WrittenRuns ==
    ASSUME NEW ms, NEW m \in Nat
    PROVE  WrittenRun(ms, m) = WrittenTo(WrittenRun(ms, m), ms, m)
<1> DEFINE G == {n \in 0 .. m : \E f : f = WrittenTo(f, ms, n)}
<1>1. 0 \in G
  <2>1. [i \in 0 .. 0 |-> <<Cell("magic")>>] = WrittenTo([i \in 0 .. 0 |-> <<Cell("magic")>>], ms, 0)
    BY DEF WrittenTo
  <2> QED BY <2>1
<1>2. ASSUME NEW n \in 0 .. m - 1, n \in G PROVE n + 1 \in G
  <2>1. PICK f : f = WrittenTo(f, ms, n)
    BY <1>2
  <2> DEFINE g == [i \in 0 .. n + 1 |-> IF i = 0 THEN <<Cell("magic")>> ELSE f[i - 1] \o WriteMember(ms[i])]
  <2>2. \A i \in 0 .. n : g[i] = f[i]
    <3>1. \A i \in 0 .. n : g[i] = WrittenTo(f, ms, n)[i]
      BY DEF WrittenTo
    <3> QED BY <2>1, <3>1, Zenon
  <2>3. \A i \in 0 .. n + 1 : i # 0 => i - 1 \in 0 .. n
    OBVIOUS
  <2>4. g = WrittenTo(g, ms, n + 1)
    BY <2>2, <2>3 DEF WrittenTo
  <2> QED BY <2>4
<1>3. m \in G
  <2>1. \A n \in 0 .. m - 1 : n \in G => n + 1 \in G
    BY <1>2
  <2> HIDE DEF G
  <2> QED BY <1>1, <2>1, Induction
<1> QED BY <1>3 DEF WrittenRun

\* Its values.
LEMMA WrittenSteps ==
    ASSUME NEW ms, NEW m \in Nat, NEW f, f = WrittenRun(ms, m)
    PROVE  f[0] = <<Cell("magic")>> /\ \A n \in 0 .. m - 1 : f[n + 1] = f[n] \o WriteMember(ms[n + 1])
<1>1. f = WrittenTo(f, ms, m)
  BY WrittenRuns
<1>2. \A n \in 0 .. m : f[n] = IF n = 0 THEN <<Cell("magic")>> ELSE f[n - 1] \o WriteMember(ms[n])
  <2>1. \A n \in 0 .. m : WrittenTo(f, ms, m)[n] = IF n = 0 THEN <<Cell("magic")>> ELSE f[n - 1] \o WriteMember(ms[n])
    BY DEF WrittenTo
  <2> QED BY <1>1, <2>1, Zenon
<1>3. 0 \in 0 .. m /\ \A n \in 0 .. m - 1 : n + 1 \in 0 .. m /\ n + 1 # 0 /\ (n + 1) - 1 = n
  OBVIOUS
<1>4. ASSUME NEW n \in 0 .. m - 1 PROVE f[n + 1] = f[n] \o WriteMember(ms[n + 1])
  <2>1. f[n + 1] = f[(n + 1) - 1] \o WriteMember(ms[n + 1])
    BY <1>2, <1>3
  <2> QED BY <1>3, <2>1
<1> QED BY <1>2, <1>3, <1>4

ReadTo(f, bytes, takes, m) == [n \in 0 .. m |-> IF n = 0 THEN NewReader(bytes) ELSE NextEntry(f[n - 1], bytes, takes)]
ReadRun(bytes, takes, m) == CHOOSE f : f = ReadTo(f, bytes, takes, m)

LEMMA ReadRuns ==
    ASSUME NEW bytes, NEW takes, NEW m \in Nat
    PROVE  ReadRun(bytes, takes, m) = ReadTo(ReadRun(bytes, takes, m), bytes, takes, m)
<1> DEFINE G == {n \in 0 .. m : \E f : f = ReadTo(f, bytes, takes, n)}
<1>1. 0 \in G
  <2>1. [i \in 0 .. 0 |-> NewReader(bytes)] = ReadTo([i \in 0 .. 0 |-> NewReader(bytes)], bytes, takes, 0)
    BY DEF ReadTo
  <2> QED BY <2>1
<1>2. ASSUME NEW n \in 0 .. m - 1, n \in G PROVE n + 1 \in G
  <2>1. PICK f : f = ReadTo(f, bytes, takes, n)
    BY <1>2
  <2> DEFINE g == [i \in 0 .. n + 1 |-> IF i = 0 THEN NewReader(bytes) ELSE NextEntry(f[i - 1], bytes, takes)]
  <2>2. \A i \in 0 .. n : g[i] = f[i]
    <3>1. \A i \in 0 .. n : g[i] = ReadTo(f, bytes, takes, n)[i]
      BY DEF ReadTo
    <3> QED BY <2>1, <3>1, Zenon
  <2>3. \A i \in 0 .. n + 1 : i # 0 => i - 1 \in 0 .. n
    OBVIOUS
  <2>4. g = ReadTo(g, bytes, takes, n + 1)
    BY <2>2, <2>3 DEF ReadTo
  <2> QED BY <2>4
<1>3. m \in G
  <2>1. \A n \in 0 .. m - 1 : n \in G => n + 1 \in G
    BY <1>2
  <2> HIDE DEF G
  <2> QED BY <1>1, <2>1, Induction
<1> QED BY <1>3 DEF ReadRun

\* Its values.
LEMMA ReadSteps ==
    ASSUME NEW bytes, NEW takes, NEW m \in Nat, NEW f, f = ReadRun(bytes, takes, m)
    PROVE  f[0] = NewReader(bytes) /\ \A n \in 0 .. m - 1 : f[n + 1] = NextEntry(f[n], bytes, takes)
<1>1. f = ReadTo(f, bytes, takes, m)
  BY ReadRuns
<1>2. \A n \in 0 .. m : f[n] = IF n = 0 THEN NewReader(bytes) ELSE NextEntry(f[n - 1], bytes, takes)
  <2>1. \A n \in 0 .. m : ReadTo(f, bytes, takes, m)[n] = IF n = 0 THEN NewReader(bytes) ELSE NextEntry(f[n - 1], bytes, takes)
    BY DEF ReadTo
  <2> QED BY <1>1, <2>1, Zenon
<1>3. 0 \in 0 .. m /\ \A n \in 0 .. m - 1 : n + 1 \in 0 .. m /\ n + 1 # 0 /\ (n + 1) - 1 = n
  OBVIOUS
<1>4. ASSUME NEW n \in 0 .. m - 1 PROVE f[n + 1] = NextEntry(f[n], bytes, takes)
  <2>1. f[n + 1] = NextEntry(f[(n + 1) - 1], bytes, takes)
    BY <1>2, <1>3
  <2> QED BY <1>3, <2>1
<1> QED BY <1>2, <1>3, <1>4

CollectTo(f, es, m) == [n \in 0 .. m |-> IF n = 0 THEN Nothing ELSE Member(f[n - 1], es[n])]
CollectRun(es, m) == CHOOSE f : f = CollectTo(f, es, m)

LEMMA CollectRuns ==
    ASSUME NEW es, NEW m \in Nat
    PROVE  CollectRun(es, m) = CollectTo(CollectRun(es, m), es, m)
<1> DEFINE G == {n \in 0 .. m : \E f : f = CollectTo(f, es, n)}
<1>1. 0 \in G
  <2>1. [i \in 0 .. 0 |-> Nothing] = CollectTo([i \in 0 .. 0 |-> Nothing], es, 0)
    BY DEF CollectTo
  <2> QED BY <2>1
<1>2. ASSUME NEW n \in 0 .. m - 1, n \in G PROVE n + 1 \in G
  <2>1. PICK f : f = CollectTo(f, es, n)
    BY <1>2
  <2> DEFINE g == [i \in 0 .. n + 1 |-> IF i = 0 THEN Nothing ELSE Member(f[i - 1], es[i])]
  <2>2. \A i \in 0 .. n : g[i] = f[i]
    <3>1. \A i \in 0 .. n : g[i] = CollectTo(f, es, n)[i]
      BY DEF CollectTo
    <3> QED BY <2>1, <3>1, Zenon
  <2>3. \A i \in 0 .. n + 1 : i # 0 => i - 1 \in 0 .. n
    OBVIOUS
  <2>4. g = CollectTo(g, es, n + 1)
    BY <2>2, <2>3 DEF CollectTo
  <2> QED BY <2>4
<1>3. m \in G
  <2>1. \A n \in 0 .. m - 1 : n \in G => n + 1 \in G
    BY <1>2
  <2> HIDE DEF G
  <2> QED BY <1>1, <2>1, Induction
<1> QED BY <1>3 DEF CollectRun

\* Its values.
LEMMA CollectSteps ==
    ASSUME NEW es, NEW m \in Nat, NEW f, f = CollectRun(es, m)
    PROVE  f[0] = Nothing /\ \A n \in 0 .. m - 1 : f[n + 1] = Member(f[n], es[n + 1])
<1>1. f = CollectTo(f, es, m)
  BY CollectRuns
<1>2. \A n \in 0 .. m : f[n] = IF n = 0 THEN Nothing ELSE Member(f[n - 1], es[n])
  <2>1. \A n \in 0 .. m : CollectTo(f, es, m)[n] = IF n = 0 THEN Nothing ELSE Member(f[n - 1], es[n])
    BY DEF CollectTo
  <2> QED BY <1>1, <2>1, Zenon
<1>3. 0 \in 0 .. m /\ \A n \in 0 .. m - 1 : n + 1 \in 0 .. m /\ n + 1 # 0 /\ (n + 1) - 1 = n
  OBVIOUS
<1>4. ASSUME NEW n \in 0 .. m - 1 PROVE f[n + 1] = Member(f[n], es[n + 1])
  <2>1. f[n + 1] = Member(f[(n + 1) - 1], es[n + 1])
    BY <1>2, <1>3
  <2> QED BY <1>3, <2>1
<1> QED BY <1>2, <1>3, <1>4

KeepTo(f, tar, m) == [n \in 0 .. m |-> IF n = 0 THEN [p \in {} |-> ""] ELSE Keep(f[n - 1], tar[n])]
KeepRun(tar, m) == CHOOSE f : f = KeepTo(f, tar, m)

LEMMA KeepRuns ==
    ASSUME NEW tar, NEW m \in Nat
    PROVE  KeepRun(tar, m) = KeepTo(KeepRun(tar, m), tar, m)
<1> DEFINE G == {n \in 0 .. m : \E f : f = KeepTo(f, tar, n)}
<1>1. 0 \in G
  <2>1. [i \in 0 .. 0 |-> [p \in {} |-> ""]] = KeepTo([i \in 0 .. 0 |-> [p \in {} |-> ""]], tar, 0)
    BY DEF KeepTo
  <2> QED BY <2>1
<1>2. ASSUME NEW n \in 0 .. m - 1, n \in G PROVE n + 1 \in G
  <2>1. PICK f : f = KeepTo(f, tar, n)
    BY <1>2
  <2> DEFINE g == [i \in 0 .. n + 1 |-> IF i = 0 THEN [p \in {} |-> ""] ELSE Keep(f[i - 1], tar[i])]
  <2>2. \A i \in 0 .. n : g[i] = f[i]
    <3>1. \A i \in 0 .. n : g[i] = KeepTo(f, tar, n)[i]
      BY DEF KeepTo
    <3> QED BY <2>1, <3>1, Zenon
  <2>3. \A i \in 0 .. n + 1 : i # 0 => i - 1 \in 0 .. n
    OBVIOUS
  <2>4. g = KeepTo(g, tar, n + 1)
    BY <2>2, <2>3 DEF KeepTo
  <2> QED BY <2>4
<1>3. m \in G
  <2>1. \A n \in 0 .. m - 1 : n \in G => n + 1 \in G
    BY <1>2
  <2> HIDE DEF G
  <2> QED BY <1>1, <2>1, Induction
<1> QED BY <1>3 DEF KeepRun

\* Its values.
LEMMA KeepSteps ==
    ASSUME NEW tar, NEW m \in Nat, NEW f, f = KeepRun(tar, m)
    PROVE  f[0] = [p \in {} |-> ""] /\ \A n \in 0 .. m - 1 : f[n + 1] = Keep(f[n], tar[n + 1])
<1>1. f = KeepTo(f, tar, m)
  BY KeepRuns
<1>2. \A n \in 0 .. m : f[n] = IF n = 0 THEN [p \in {} |-> ""] ELSE Keep(f[n - 1], tar[n])
  <2>1. \A n \in 0 .. m : KeepTo(f, tar, m)[n] = IF n = 0 THEN [p \in {} |-> ""] ELSE Keep(f[n - 1], tar[n])
    BY DEF KeepTo
  <2> QED BY <1>1, <2>1, Zenon
<1>3. 0 \in 0 .. m /\ \A n \in 0 .. m - 1 : n + 1 \in 0 .. m /\ n + 1 # 0 /\ (n + 1) - 1 = n
  OBVIOUS
<1>4. ASSUME NEW n \in 0 .. m - 1 PROVE f[n + 1] = Keep(f[n], tar[n + 1])
  <2>1. f[n + 1] = Keep(f[(n + 1) - 1], tar[n + 1])
    BY <1>2, <1>3
  <2> QED BY <1>3, <2>1
<1> QED BY <1>2, <1>3, <1>4

OpenTo(f, fs, path, m) == [n \in 0 .. m |-> IF n = 0 THEN path ELSE IF IsLink(fs, f[n - 1]) THEN fs[f[n - 1]].content ELSE f[n - 1]]
OpenRun(fs, path, m) == CHOOSE f : f = OpenTo(f, fs, path, m)

LEMMA OpenRuns ==
    ASSUME NEW fs, NEW path, NEW m \in Nat
    PROVE  OpenRun(fs, path, m) = OpenTo(OpenRun(fs, path, m), fs, path, m)
<1> DEFINE G == {n \in 0 .. m : \E f : f = OpenTo(f, fs, path, n)}
<1>1. 0 \in G
  <2>1. [i \in 0 .. 0 |-> path] = OpenTo([i \in 0 .. 0 |-> path], fs, path, 0)
    BY DEF OpenTo
  <2> QED BY <2>1
<1>2. ASSUME NEW n \in 0 .. m - 1, n \in G PROVE n + 1 \in G
  <2>1. PICK f : f = OpenTo(f, fs, path, n)
    BY <1>2
  <2> DEFINE g == [i \in 0 .. n + 1 |-> IF i = 0 THEN path ELSE IF IsLink(fs, f[i - 1]) THEN fs[f[i - 1]].content ELSE f[i - 1]]
  <2>2. \A i \in 0 .. n : g[i] = f[i]
    <3>1. \A i \in 0 .. n : g[i] = OpenTo(f, fs, path, n)[i]
      BY DEF OpenTo
    <3> QED BY <2>1, <3>1, Zenon
  <2>3. \A i \in 0 .. n + 1 : i # 0 => i - 1 \in 0 .. n
    OBVIOUS
  <2>4. g = OpenTo(g, fs, path, n + 1)
    BY <2>2, <2>3 DEF OpenTo
  <2> QED BY <2>4
<1>3. m \in G
  <2>1. \A n \in 0 .. m - 1 : n \in G => n + 1 \in G
    BY <1>2
  <2> HIDE DEF G
  <2> QED BY <1>1, <2>1, Induction
<1> QED BY <1>3 DEF OpenRun

\* Its values.
LEMMA OpenSteps ==
    ASSUME NEW fs, NEW path, NEW m \in Nat, NEW f, f = OpenRun(fs, path, m)
    PROVE  f[0] = path /\ \A n \in 0 .. m - 1 : f[n + 1] = IF IsLink(fs, f[n]) THEN fs[f[n]].content ELSE f[n]
<1>1. f = OpenTo(f, fs, path, m)
  BY OpenRuns
<1>2. \A n \in 0 .. m : f[n] = IF n = 0 THEN path ELSE IF IsLink(fs, f[n - 1]) THEN fs[f[n - 1]].content ELSE f[n - 1]
  <2>1. \A n \in 0 .. m : OpenTo(f, fs, path, m)[n] = IF n = 0 THEN path ELSE IF IsLink(fs, f[n - 1]) THEN fs[f[n - 1]].content ELSE f[n - 1]
    BY DEF OpenTo
  <2> QED BY <1>1, <2>1, Zenon
<1>3. 0 \in 0 .. m /\ \A n \in 0 .. m - 1 : n + 1 \in 0 .. m /\ n + 1 # 0 /\ (n + 1) - 1 = n
  OBVIOUS
<1>4. ASSUME NEW n \in 0 .. m - 1 PROVE f[n + 1] = IF IsLink(fs, f[n]) THEN fs[f[n]].content ELSE f[n]
  <2>1. f[n + 1] = IF IsLink(fs, f[(n + 1) - 1]) THEN fs[f[(n + 1) - 1]].content ELSE f[(n + 1) - 1]
    BY <1>2, <1>3
  <2> QED BY <1>3, <2>1
<1> QED BY <1>2, <1>3, <1>4

ExtractTo(f, tar, m) == [n \in 0 .. m |-> IF n = 0 THEN [ok |-> TRUE, fs |-> [p \in {} |-> ""]] ELSE ExtractEntry(f[n - 1], tar[n])]
ExtractRun(tar, m) == CHOOSE f : f = ExtractTo(f, tar, m)

LEMMA ExtractRuns ==
    ASSUME NEW tar, NEW m \in Nat
    PROVE  ExtractRun(tar, m) = ExtractTo(ExtractRun(tar, m), tar, m)
<1> DEFINE G == {n \in 0 .. m : \E f : f = ExtractTo(f, tar, n)}
<1>1. 0 \in G
  <2>1. [i \in 0 .. 0 |-> [ok |-> TRUE, fs |-> [p \in {} |-> ""]]] = ExtractTo([i \in 0 .. 0 |-> [ok |-> TRUE, fs |-> [p \in {} |-> ""]]], tar, 0)
    BY DEF ExtractTo
  <2> QED BY <2>1
<1>2. ASSUME NEW n \in 0 .. m - 1, n \in G PROVE n + 1 \in G
  <2>1. PICK f : f = ExtractTo(f, tar, n)
    BY <1>2
  <2> DEFINE g == [i \in 0 .. n + 1 |-> IF i = 0 THEN [ok |-> TRUE, fs |-> [p \in {} |-> ""]] ELSE ExtractEntry(f[i - 1], tar[i])]
  <2>2. \A i \in 0 .. n : g[i] = f[i]
    <3>1. \A i \in 0 .. n : g[i] = ExtractTo(f, tar, n)[i]
      BY DEF ExtractTo
    <3> QED BY <2>1, <3>1, Zenon
  <2>3. \A i \in 0 .. n + 1 : i # 0 => i - 1 \in 0 .. n
    OBVIOUS
  <2>4. g = ExtractTo(g, tar, n + 1)
    BY <2>2, <2>3 DEF ExtractTo
  <2> QED BY <2>4
<1>3. m \in G
  <2>1. \A n \in 0 .. m - 1 : n \in G => n + 1 \in G
    BY <1>2
  <2> HIDE DEF G
  <2> QED BY <1>1, <2>1, Induction
<1> QED BY <1>3 DEF ExtractRun

\* Its values.
LEMMA ExtractSteps ==
    ASSUME NEW tar, NEW m \in Nat, NEW f, f = ExtractRun(tar, m)
    PROVE  f[0] = [ok |-> TRUE, fs |-> [p \in {} |-> ""]] /\ \A n \in 0 .. m - 1 : f[n + 1] = ExtractEntry(f[n], tar[n + 1])
<1>1. f = ExtractTo(f, tar, m)
  BY ExtractRuns
<1>2. \A n \in 0 .. m : f[n] = IF n = 0 THEN [ok |-> TRUE, fs |-> [p \in {} |-> ""]] ELSE ExtractEntry(f[n - 1], tar[n])
  <2>1. \A n \in 0 .. m : ExtractTo(f, tar, m)[n] = IF n = 0 THEN [ok |-> TRUE, fs |-> [p \in {} |-> ""]] ELSE ExtractEntry(f[n - 1], tar[n])
    BY DEF ExtractTo
  <2> QED BY <1>1, <2>1, Zenon
<1>3. 0 \in 0 .. m /\ \A n \in 0 .. m - 1 : n + 1 \in 0 .. m /\ n + 1 # 0 /\ (n + 1) - 1 = n
  OBVIOUS
<1>4. ASSUME NEW n \in 0 .. m - 1 PROVE f[n + 1] = ExtractEntry(f[n], tar[n + 1])
  <2>1. f[n + 1] = ExtractEntry(f[(n + 1) - 1], tar[n + 1])
    BY <1>2, <1>3
  <2> QED BY <1>3, <2>1
<1> QED BY <1>2, <1>3, <1>4

-----------------------------------------------------------------------------
(* The layout: the cells of each member are where the ends of the ones      *)
(* before say.                                                              *)

Bodied(ms) == IsSequence(ms) /\ \A i \in DOMAIN ms : IsSequence(ms[i].body)

BodyCells(m) == {Data(m.body[j]) : j \in 1 .. Len(m.body)}
CellsOf(m)   == {Header(m), Cell("pad")} \cup BodyCells(m)
AllCells(ms) == {Cell("magic")} \cup UNION {CellsOf(ms[i]) : i \in 1 .. Len(ms)}

\* A sequence is one over its own elements.
LEMMA SequenceIsSeq ==
    ASSUME NEW s, IsSequence(s)
    PROVE  Len(s) \in Nat /\ DOMAIN s = 1 .. Len(s) /\ s \in Seq({s[i] : i \in 1 .. Len(s)})
<1>1. Len(s) \in Nat /\ s = [i \in 1 .. Len(s) |-> s[i]]
  BY DEF IsSequence
<1>2. PICK n \in Nat : n = Len(s)
  BY <1>1
<1>3. s = [i \in 1 .. n |-> s[i]]
  BY <1>1, <1>2
<1> DEFINE S == {s[i] : i \in 1 .. n}
<1>4. s \in [1 .. n -> S]
  <2>1. [i \in 1 .. n |-> s[i]] \in [1 .. n -> S]
    OBVIOUS
  <2> QED BY <1>3, <2>1
<1>5. s \in Seq(S) /\ DOMAIN s = 1 .. n
  BY <1>4, FunctionIsSeq
<1> QED BY <1>2, <1>5

LEMMA Parity == ASSUME NEW n \in Nat PROVE n % 2 \in {0, 1}
OBVIOUS

LEMMA ParityOf == ASSUME NEW n \in Nat, NEW e, e = n % 2 PROVE e \in Nat
<1>1. e \in {0, 1}
  BY Parity
<1> QED BY <1>1

LEMMA NextIsLater ==
    ASSUME NEW a \in Nat, NEW b \in Nat, NEW e \in Nat
    PROVE  a <= ((a + 1) + b) + e
OBVIOUS

\* Where the elements of two sequences are in both together.
LEMMA Joined ==
    ASSUME NEW S, NEW s \in Seq(S), NEW t \in Seq(S)
    PROVE  /\ s \o t \in Seq(S) /\ Len(s \o t) = Len(s) + Len(t)
           /\ \A i \in 1 .. Len(s) : (s \o t)[i] = s[i]
           /\ \A i \in 1 .. Len(t) : (s \o t)[Len(s) + i] = t[i]
<1>1. /\ s \o t \in Seq(S) /\ Len(s \o t) = Len(s) + Len(t)
      /\ \A i \in 1 .. Len(s) + Len(t) : (s \o t)[i] = IF i <= Len(s) THEN s[i] ELSE t[i - Len(s)]
  BY ConcatProperties
<1>2. PICK k \in Nat : k = Len(s)
  OBVIOUS
<1>3. PICK l \in Nat : l = Len(t)
  OBVIOUS
<1>4. \A i \in 1 .. k : i \in 1 .. k + l /\ i <= k
  BY <1>2, <1>3
<1>5. \A i \in 1 .. l : k + i \in 1 .. k + l /\ ~(k + i <= k) /\ (k + i) - k = i
  BY <1>2, <1>3
<1>6. \A i \in 1 .. l : (s \o t)[k + i] = t[(k + i) - k]
  BY <1>1, <1>2, <1>3, <1>5
<1> QED BY <1>1, <1>2, <1>3, <1>4, <1>5, <1>6

IsWritten(w, m) ==
    /\ w \in Seq(CellsOf(m)) /\ Len(w) = (1 + Len(m.body)) + (Len(m.body) % 2)
    /\ w[1] = Header(m)
    /\ \A j \in 1 .. Len(m.body) : w[1 + j] = Data(m.body[j])
    /\ Len(m.body) % 2 = 1 => w[2 + Len(m.body)] = Cell("pad")

\* The cells of a member: its header, its body, its pad.
LEMMA MemberIsWritten == ASSUME NEW m, IsSequence(m.body) PROVE IsWritten(WriteMember(m), m)
<1> DEFINE C == CellsOf(m)
           a == <<Header(m)>>
           b == [i \in 1 .. Len(m.body) |-> Data(m.body[i])]
           c == IF Len(m.body) % 2 = 1 THEN <<Cell("pad")>> ELSE <<>>
<1>1. Len(m.body) \in Nat /\ DOMAIN m.body = 1 .. Len(m.body)
  BY SequenceIsSeq
<1>2. PICK n \in Nat : n = Len(m.body)
  BY <1>1
<1>3. PICK p : p = n % 2
  OBVIOUS
<1>4. p \in {0, 1}
  BY <1>2, <1>3, Parity
<1>5. WriteMember(m) = (a \o b) \o c
  <2>1. [i \in DOMAIN m.body |-> Data(m.body[i])] = b
    BY <1>1
  <2> QED BY <2>1, Zenon DEF WriteMember
<1>6. a \in Seq(C) /\ Len(a) = 1 /\ a[1] = Header(m)
  <2>1. Header(m) \in C
    BY DEF CellsOf
  <2> HIDE DEF C
  <2> QED BY <2>1
<1>7. b \in Seq(C) /\ Len(b) = n
  <2>1. b \in [1 .. n -> C]
    BY <1>2 DEF CellsOf, BodyCells
  <2> HIDE DEF b, C
  <2> QED BY <1>2, <2>1, FunctionIsSeq
<1>8. c = IF p = 1 THEN <<Cell("pad")>> ELSE <<>>
  BY <1>2, <1>3, Zenon
<1>9. \A i \in 1 .. n : b[i] = Data(m.body[i])
  BY <1>2
<1>10. Cell("pad") \in C
  BY DEF CellsOf
<1> HIDE DEF a, b, c, C
<1>11. c \in Seq(C) /\ Len(c) = p /\ (p = 1 => c[1] = Cell("pad"))
  <2>1. CASE p = 1
    BY <1>8, <1>10, <2>1
  <2>2. CASE p = 0
    BY <1>8, <2>2
  <2> QED BY <1>4, <2>1, <2>2
<1>12. PICK ab : ab = a \o b
  OBVIOUS
<1>13. /\ ab \in Seq(C) /\ Len(ab) = 1 + n
       /\ \A i \in 1 .. 1 : ab[i] = a[i]
       /\ \A i \in 1 .. n : ab[1 + i] = b[i]
  <2>1. /\ ab \in Seq(C) /\ Len(ab) = Len(a) + Len(b)
        /\ \A i \in 1 .. Len(a) : ab[i] = a[i]
        /\ \A i \in 1 .. Len(b) : ab[Len(a) + i] = b[i]
    <3>1. a \in Seq(C) /\ b \in Seq(C)
      BY <1>6, <1>7
    <3>2. /\ a \o b \in Seq(C) /\ Len(a \o b) = Len(a) + Len(b)
          /\ \A i \in 1 .. Len(a) : (a \o b)[i] = a[i]
          /\ \A i \in 1 .. Len(b) : (a \o b)[Len(a) + i] = b[i]
      BY <3>1, Joined
    <3> QED BY <1>12, <3>2
  <2> QED BY <1>6, <1>7, <2>1
<1>14. PICK w : w = ab \o c
  OBVIOUS
<1>15. /\ w \in Seq(C) /\ Len(w) = (1 + n) + p
       /\ \A i \in 1 .. 1 + n : w[i] = ab[i]
       /\ \A i \in 1 .. p : w[(1 + n) + i] = c[i]
  <2>1. /\ w \in Seq(C) /\ Len(w) = Len(ab) + Len(c)
        /\ \A i \in 1 .. Len(ab) : w[i] = ab[i]
        /\ \A i \in 1 .. Len(c) : w[Len(ab) + i] = c[i]
    <3>1. ab \in Seq(C) /\ c \in Seq(C)
      BY <1>11, <1>13
    <3>2. /\ ab \o c \in Seq(C) /\ Len(ab \o c) = Len(ab) + Len(c)
          /\ \A i \in 1 .. Len(ab) : (ab \o c)[i] = ab[i]
          /\ \A i \in 1 .. Len(c) : (ab \o c)[Len(ab) + i] = c[i]
      BY <3>1, Joined
    <3> QED BY <1>14, <3>2
  <2> QED BY <1>11, <1>13, <2>1
<1>16. w[1] = Header(m)
  <2>1. 1 \in 1 .. 1 /\ 1 \in 1 .. 1 + n
    BY <1>2
  <2> QED BY <1>6, <1>13, <1>15, <2>1
<1>17. ASSUME NEW j \in 1 .. n PROVE w[1 + j] = Data(m.body[j])
  <2>1. 1 + j \in 1 .. 1 + n
    BY <1>2
  <2> QED BY <1>9, <1>13, <1>15, <2>1
<1>18. ASSUME p = 1 PROVE w[2 + n] = Cell("pad")
  <2>1. 1 \in 1 .. p /\ (1 + n) + 1 = 2 + n
    BY <1>2, <1>18
  <2>2. w[(1 + n) + 1] = c[1]
    BY <1>15, <2>1
  <2> QED BY <1>11, <1>18, <2>1, <2>2
<1>19. WriteMember(m) = w
  BY <1>5, <1>12, <1>14
<1> QED BY <1>2, <1>3, <1>15, <1>16, <1>17, <1>18, <1>19 DEF IsWritten, C

\* How the cells of one more member follow those before.
Follows(next, this, m) ==
    /\ Len(next) = ((Len(this) + 1) + Len(m.body)) + (Len(m.body) % 2)
    /\ \A i \in 1 .. Len(this) : next[i] = this[i]
    /\ next[Len(this) + 1] = Header(m)
    /\ \A j \in 1 .. Len(m.body) : next[(Len(this) + 1) + j] = Data(m.body[j])
    /\ Len(m.body) % 2 = 1 => next[Len(next)] = Cell("pad")

\* The cells of a member after those before it.
LEMMA MemberFollows ==
    ASSUME NEW C, NEW this \in Seq(C), NEW m, IsSequence(m.body), CellsOf(m) \subseteq C,
           NEW w, IsWritten(w, m)
    PROVE  this \o w \in Seq(C) /\ Follows(this \o w, this, m)
<1>1. PICK n \in Nat : n = Len(m.body)
  BY SequenceIsSeq
<1>2. n % 2 \in {0, 1}
  BY <1>1, Parity
<1>3. PICK k \in Nat : k = Len(this)
  OBVIOUS
<1>4. w \in Seq(C)
  <2>1. w \in Seq(CellsOf(m))
    BY DEF IsWritten
  <2> QED BY <2>1
<1>5. PICK l \in Nat : l = Len(w)
  BY <1>4
<1>6. l = (1 + n) + (n % 2)
  BY <1>1, <1>5 DEF IsWritten
<1>7. PICK next : next = this \o w
  OBVIOUS
<1>8. /\ next \in Seq(C) /\ Len(next) = k + l
      /\ \A i \in 1 .. k + l : next[i] = IF i <= k THEN this[i] ELSE w[i - k]
  BY <1>3, <1>4, <1>5, <1>7, ConcatProperties
<1>9. Len(next) = ((k + 1) + n) + (n % 2)
  BY <1>2, <1>6, <1>8
<1>10. \A i \in 1 .. k : next[i] = this[i]
  BY <1>8
<1>11. next[k + 1] = Header(m)
  <2>1. k + 1 \in 1 .. k + l /\ ~(k + 1 <= k) /\ (k + 1) - k = 1
    BY <1>2, <1>6
  <2>2. next[k + 1] = w[(k + 1) - k]
    BY <1>8, <2>1
  <2> QED BY <2>1, <2>2 DEF IsWritten
<1>12. ASSUME NEW j \in 1 .. n PROVE next[(k + 1) + j] = Data(m.body[j])
  <2>1. (k + 1) + j \in 1 .. k + l /\ ~((k + 1) + j <= k) /\ ((k + 1) + j) - k = 1 + j
    BY <1>2, <1>6
  <2>2. next[(k + 1) + j] = w[((k + 1) + j) - k]
    BY <1>8, <2>1
  <2>3. w[1 + j] = Data(m.body[j])
    BY <1>1 DEF IsWritten
  <2> QED BY <2>1, <2>2, <2>3
<1>13. ASSUME n % 2 = 1 PROVE next[Len(next)] = Cell("pad")
  <2>1. Len(next) \in 1 .. k + l /\ ~(Len(next) <= k) /\ Len(next) - k = 2 + n
    BY <1>6, <1>8, <1>13
  <2>2. next[Len(next)] = w[Len(next) - k]
    BY <1>8, <2>1
  <2>3. w[2 + n] = Cell("pad")
    BY <1>1, <1>13 DEF IsWritten
  <2> QED BY <2>1, <2>2, <2>3
<1> QED BY <1>1, <1>3, <1>7, <1>8, <1>9, <1>10, <1>11, <1>12, <1>13 DEF Follows

IsPart(s, n, C) == s \in Seq(C) /\ n < Len(s)

\* An archive with the positions after which its members begin.
IsLaid(bytes, ms, ends) ==
    /\ bytes \in Seq(AllCells(ms))
    /\ ends[0] = 1 /\ ends[Len(ms)] = Len(bytes) /\ bytes[1] = Cell("magic")
    /\ \A n \in 0 .. Len(ms) : ends[n] \in Nat /\ n < ends[n] /\ ends[n] <= Len(bytes)
    /\ \A n \in 0 .. Len(ms) - 1 :
          /\ ends[n + 1] = ((ends[n] + 1) + Len(ms[n + 1].body)) + (Len(ms[n + 1].body) % 2)
          /\ bytes[ends[n] + 1] = Header(ms[n + 1])
          /\ \A j \in 1 .. Len(ms[n + 1].body) : bytes[(ends[n] + 1) + j] = Data(ms[n + 1].body[j])
          /\ Len(ms[n + 1].body) % 2 = 1 => bytes[ends[n + 1]] = Cell("pad")

\* Every archive is laid out so.
LEMMA ArchiveIsLaid == ASSUME NEW ms, Bodied(ms) PROVE \E ends : IsLaid(Archive(ms), ms, ends)
<1> DEFINE C == AllCells(ms)
<1>1. PICK N \in Nat : N = Len(ms) /\ DOMAIN ms = 1 .. N
  BY SequenceIsSeq DEF Bodied
<1>2. PICK f : f = WrittenRun(ms, N)
  OBVIOUS
<1>3. f[0] = <<Cell("magic")>> /\ \A n \in 0 .. N - 1 : f[n + 1] = f[n] \o WriteMember(ms[n + 1])
  BY <1>2, WrittenSteps
<1>4. \A n \in 0 .. N - 1 : IsSequence(ms[n + 1].body) /\ CellsOf(ms[n + 1]) \subseteq C
  <2>1. \A n \in 0 .. N - 1 : n + 1 \in 1 .. N
    OBVIOUS
  <2> QED BY <1>1, <2>1 DEF Bodied, AllCells
<1>5. \A n \in 0 .. N - 1 : IsWritten(WriteMember(ms[n + 1]), ms[n + 1])
  BY <1>4, MemberIsWritten
<1>6. Cell("magic") \in C
  BY DEF AllCells
<1> HIDE DEF C
<1> DEFINE G == {n \in 0 .. N : IsPart(f[n], n, C)}
<1>7. 0 \in G
  <2>1. <<Cell("magic")>> \in Seq(C) /\ Len(<<Cell("magic")>>) = 1
    BY <1>6
  <2>2. IsPart(f[0], 0, C)
    BY <1>3, <2>1 DEF IsPart
  <2> QED BY <1>1, <2>2
<1>8. ASSUME NEW n \in 0 .. N - 1, n \in G PROVE n + 1 \in G /\ Follows(f[n + 1], f[n], ms[n + 1])
  <2>1. f[n + 1] \in Seq(C) /\ Follows(f[n + 1], f[n], ms[n + 1])
    <3>1. f[n] \in Seq(C)
      BY <1>8 DEF IsPart
    <3> QED BY <1>3, <1>4, <1>5, <3>1, MemberFollows
  <2>2. PICK b \in Nat : b = Len(ms[n + 1].body)
    BY <1>4, SequenceIsSeq
  <2>3. b % 2 \in {0, 1}
    BY <2>2, Parity
  <2>4. PICK k \in Nat : k = Len(f[n]) /\ n < k
    BY <1>8 DEF IsPart
  <2>5. Len(f[n + 1]) = ((k + 1) + b) + (b % 2)
    BY <2>1, <2>2, <2>4 DEF Follows
  <2>6. IsPart(f[n + 1], n + 1, C)
    <3>1. n + 1 < ((k + 1) + b) + (b % 2)
      <4>1. PICK e : e = b % 2
        OBVIOUS
      <4>2. e \in {0, 1} /\ b \in Nat /\ k \in Nat /\ n < k
        BY <2>2, <2>3, <2>4, <4>1
      <4>3. n + 1 < ((k + 1) + b) + e
        BY <4>2
      <4> QED BY <4>1, <4>3
    <3> QED BY <2>1, <2>5, <3>1 DEF IsPart
  <2>7. n + 1 \in 0 .. N
    OBVIOUS
  <2> QED BY <2>1, <2>6, <2>7
<1>9. 0 .. N \subseteq G
  <2>1. \A n \in 0 .. N - 1 : n \in G => n + 1 \in G
    BY <1>8
  <2> HIDE DEF G
  <2> QED BY <1>7, <2>1, Induction
<1>10. \A n \in 0 .. N : f[n] \in Seq(C) /\ Len(f[n]) \in Nat /\ n < Len(f[n])
  BY <1>9 DEF IsPart
<1>11. \A n \in 0 .. N - 1 : Follows(f[n + 1], f[n], ms[n + 1])
  BY <1>8, <1>9
<1>12. \A n \in 0 .. N - 1 : Len(f[n]) <= Len(f[n + 1]) /\ \A i \in 1 .. Len(f[n]) : f[n + 1][i] = f[n][i]
  <2>1. TAKE n \in 0 .. N - 1
  <2>2. PICK b \in Nat : b = Len(ms[n + 1].body)
    BY <1>4, SequenceIsSeq
  <2>3. PICK e : e = b % 2
    OBVIOUS
  <2>4. PICK k \in Nat : k = Len(f[n])
    BY <1>10
  <2>5. Len(f[n + 1]) = ((k + 1) + b) + e
    BY <1>11, <2>2, <2>3, <2>4 DEF Follows
  <2>6. \A i \in 1 .. Len(f[n]) : f[n + 1][i] = f[n][i]
    BY <1>11 DEF Follows
  <2>7. e \in Nat
    BY <2>2, <2>3, ParityOf
  <2>8. k <= ((k + 1) + b) + e
    BY <2>2, <2>4, <2>7, NextIsLater
  <2> QED BY <2>4, <2>5, <2>6, <2>8
<1>13. ASSUME NEW n \in 0 .. N
       PROVE  Len(f[n]) <= Len(f[N]) /\ \A i \in 1 .. Len(f[n]) : f[N][i] = f[n][i]
  <2> DEFINE H == {j \in 0 .. N - n : Len(f[n]) <= Len(f[n + j]) /\ \A i \in 1 .. Len(f[n]) : f[n + j][i] = f[n][i]}
  <2>1. 0 \in H
    BY <1>10
  <2>2. ASSUME NEW j \in 0 .. (N - n) - 1, j \in H PROVE j + 1 \in H
    <3>1. PICK z : z = n + j
      OBVIOUS
    <3>2. z \in 0 .. N - 1 /\ z \in 0 .. N /\ z + 1 \in 0 .. N /\ n + (j + 1) = z + 1 /\ j + 1 \in 0 .. N - n
      BY <3>1
    <3>3. Len(f[z]) <= Len(f[z + 1]) /\ \A i \in 1 .. Len(f[z]) : f[z + 1][i] = f[z][i]
      BY <1>12, <3>2
    <3>4. Len(f[n]) <= Len(f[z]) /\ \A i \in 1 .. Len(f[n]) : f[z][i] = f[n][i]
      BY <2>2, <3>1
    <3>5. Len(f[n]) \in Nat /\ Len(f[z]) \in Nat /\ Len(f[z + 1]) \in Nat
      BY <1>10, <3>2
    <3>6. Len(f[n]) <= Len(f[z + 1]) /\ \A i \in 1 .. Len(f[n]) : i \in 1 .. Len(f[z])
      BY <3>3, <3>4, <3>5
    <3> QED BY <3>2, <3>3, <3>4, <3>6
  <2>3. 0 .. N - n \subseteq H
    <3>1. \A j \in 0 .. (N - n) - 1 : j \in H => j + 1 \in H
      BY <2>2
    <3> HIDE DEF H
    <3> QED BY <2>1, <3>1, Induction
  <2>4. N - n \in H /\ n + (N - n) = N
    BY <2>3
  <2> QED BY <2>4
<1> DEFINE ends == [n \in 0 .. N |-> Len(f[n])]
           bytes == f[N]
<1>14. Archive(ms) = bytes
  <2>1. Archive(ms) = WrittenRun(ms, Len(ms))[Len(ms)]
    BY DEF Archive, WrittenRun, WrittenTo
  <2> QED BY <1>1, <1>2, <2>1
<1>15. bytes \in Seq(C) /\ ends[0] = 1 /\ ends[N] = Len(bytes) /\ bytes[1] = Cell("magic")
  <2>1. f[0][1] = Cell("magic") /\ Len(f[0]) = 1
    BY <1>3
  <2>2. f[N][1] = f[0][1]
    BY <1>13, <2>1
  <2> QED BY <1>10, <2>1, <2>2
<1>16. \A n \in 0 .. N : ends[n] \in Nat /\ n < ends[n] /\ ends[n] <= Len(bytes)
  BY <1>10, <1>13
<1>17. ASSUME NEW n \in 0 .. N - 1
       PROVE  /\ ends[n + 1] = ((ends[n] + 1) + Len(ms[n + 1].body)) + (Len(ms[n + 1].body) % 2)
              /\ bytes[ends[n] + 1] = Header(ms[n + 1])
              /\ \A j \in 1 .. Len(ms[n + 1].body) : bytes[(ends[n] + 1) + j] = Data(ms[n + 1].body[j])
              /\ Len(ms[n + 1].body) % 2 = 1 => bytes[ends[n + 1]] = Cell("pad")
  <2>1. PICK b \in Nat : b = Len(ms[n + 1].body)
    BY <1>4, SequenceIsSeq
  <2>2. b % 2 \in {0, 1}
    BY <2>1, Parity
  <2>3. n \in 0 .. N /\ n + 1 \in 0 .. N
    OBVIOUS
  <2>4. PICK k \in Nat : k = Len(f[n])
    BY <1>10, <2>3
  <2>5. PICK l \in Nat : l = Len(f[n + 1])
    BY <1>10, <2>3
  <2>6. /\ l = ((k + 1) + b) + (b % 2) /\ f[n + 1][k + 1] = Header(ms[n + 1])
        /\ \A j \in 1 .. b : f[n + 1][(k + 1) + j] = Data(ms[n + 1].body[j])
        /\ b % 2 = 1 => f[n + 1][l] = Cell("pad")
    BY <1>11, <2>1, <2>4, <2>5 DEF Follows
  <2>7. \A i \in 1 .. l : bytes[i] = f[n + 1][i]
    BY <1>13, <2>3, <2>5
  <2>8. k + 1 \in 1 .. l /\ l \in 1 .. l /\ \A j \in 1 .. b : (k + 1) + j \in 1 .. l
    BY <2>2, <2>6
  <2>9. ends[n] = k /\ ends[n + 1] = l
    BY <2>3, <2>4, <2>5
  <2> HIDE DEF ends, bytes
  <2> QED BY <2>1, <2>6, <2>7, <2>8, <2>9
<1> HIDE DEF ends, bytes
<1>18. IsLaid(bytes, ms, ends)
  BY <1>1, <1>15, <1>16, <1>17 DEF IsLaid, C
<1> QED BY <1>14, <1>18

-----------------------------------------------------------------------------
(* The streaming reader on an archive, on what is left of one that was cut,  *)
(* and with any part of each member read.                                    *)

LEMMA OneFurther ==
    ASSUME NEW p \in Nat, NEW b \in Nat, NEW e \in Nat, NEW c, c = (p + b) + e
    PROVE  ((p + 1) + b) + e = c + 1
OBVIOUS

LEMMA LeastIsMin == ASSUME NEW S \in SUBSET Int, NEW n \in S, \A x \in S : n <= x PROVE Min(S) = n
<1> DEFINE P(x) == x \in S /\ \A y \in S : x <= y
<1>1. P(n)
  OBVIOUS
<1>2. Min(S) = CHOOSE x : P(x)
  BY DEF Min
<1>3. P(CHOOSE x : P(x))
  BY <1>1
<1>4. P(Min(S))
  BY <1>2, <1>3
<1>5. Min(S) \in Int /\ n \in Int /\ Min(S) <= n /\ n <= Min(S)
  BY <1>4
<1> QED BY <1>5

Clipped(m, n) == [base |-> m.base, ext |-> m.ext, size |-> Len(m.body), body |-> [j \in 1 .. n |-> m.body[j]]]
Reads(p, es)  == [state |-> "reading", pos |-> p, entries |-> es]

\* A member is here, of which n cells are read when t are asked for.
IsHere(bytes, p, m, t, n) ==
    /\ Len(bytes) \in Nat /\ p \in Nat /\ p <= Len(bytes) /\ t \in Nat /\ n \in Nat
    /\ IsSequence(m.body) /\ bytes[p] = Header(m)
    /\ n <= t /\ n <= Len(m.body) /\ n <= Len(bytes) - p /\ n \in {t, Len(m.body), Len(bytes) - p}
    /\ \A j \in 1 .. n : bytes[p + j] = Data(m.body[j])

NextAt(p, m) == ((p + 1) + Len(m.body)) + (Len(m.body) % 2)
Wanted(takes, es) == takes[Len(es) + 1]

\* One turn of the reader at a header: the entry is of as much as is wanted,
\* and there is, of the member, and the reader is after the member.
LEMMA OneEntry ==
    ASSUME NEW bytes, NEW takes, NEW p, NEW es, NEW m, NEW t, NEW n,
           IsHere(bytes, p, m, t, n), t = Wanted(takes, es)
    PROVE  NextEntry(Reads(p, es), bytes, takes) = Reads(NextAt(p, m), Append(es, Clipped(m, n)))
<1>0. /\ Len(bytes) \in Nat /\ p \in Nat /\ p <= Len(bytes) /\ t \in Nat /\ n \in Nat
      /\ IsSequence(m.body) /\ bytes[p] = Header(m)
      /\ n <= t /\ n <= Len(m.body) /\ n <= Len(bytes) - p /\ n \in {t, Len(m.body), Len(bytes) - p}
      /\ \A j \in 1 .. n : bytes[p + j] = Data(m.body[j])
  BY DEF IsHere
<1> USE <1>0
<1>1. PICK s \in Nat : s = Len(m.body)
  BY SequenceIsSeq
<1>2. PICK l \in Nat : l = Len(bytes)
  OBVIOUS
<1>3. PICK e : e = s % 2
  OBVIOUS
<1>4. e \in Nat
  BY <1>1, <1>3, ParityOf
<1> DEFINE r == Reads(p, es)
<1>5. r.state = "reading" /\ r.pos = p /\ r.entries = es
  BY DEF Reads
<1>6. bytes[p].kind = "header" /\ bytes[p].base = m.base /\ bytes[p].ext = m.ext /\ bytes[p].size = s
  BY <1>1 DEF Header
<1>7. Min({t, s, l - p}) = n
  <2>1. {t, s, l - p} \in SUBSET Int /\ n \in {t, s, l - p} /\ \A x \in {t, s, l - p} : n <= x
    BY <1>1, <1>2
  <2> QED BY <2>1, LeastIsMin
<1>8. Min({takes[Len(r.entries) + 1], bytes[r.pos].size, Len(bytes) - r.pos}) = n
  BY <1>2, <1>5, <1>6, <1>7 DEF Wanted
<1>9. ~(r.pos > Len(bytes)) /\ ~(bytes[r.pos].kind = "torn") /\ ~(bytes[r.pos].kind # "header")
  BY <1>2, <1>5, <1>6
<1> DEFINE b == [j \in 1 .. n |-> bytes[p + j].value]
<1>10. b = [j \in 1 .. n |-> m.body[j]]
  <2>1. ASSUME NEW j \in 1 .. n PROVE bytes[p + j].value = m.body[j]
    <3>1. bytes[p + j] = Data(m.body[j])
      OBVIOUS
    <3>2. Data(m.body[j]).value = m.body[j]
      BY DEF Data
    <3> QED BY <3>1, <3>2
  <2> QED BY <2>1
<1>11. Drop(p + 1, s, n) = ((p + 1) + s) + e
  <2>1. Drop(p + 1, s, n) = (((p + 1) + n) + (s - n)) + e
    BY <1>3 DEF Drop
  <2>2. n <= s /\ s \in Nat /\ e \in Nat
    BY <1>1, <1>4
  <2>3. (((p + 1) + n) + (s - n)) + e = ((p + 1) + s) + e
    BY <2>2
  <2> QED BY <2>1, <2>3
<1>12. NextEntry(r, bytes, takes)
          = [r EXCEPT !.entries = Append(r.entries, [base |-> bytes[r.pos].base, ext |-> bytes[r.pos].ext,
                                                    size |-> bytes[r.pos].size,
                                                    body |-> [j \in 1 .. n |-> bytes[r.pos + j].value]]),
                      !.pos = Drop(r.pos + 1, bytes[r.pos].size, n)]
  <2> HIDE DEF r
  <2> QED BY <1>5, <1>8, <1>9, Zenon DEF NextEntry
<1>13. [base |-> bytes[r.pos].base, ext |-> bytes[r.pos].ext, size |-> bytes[r.pos].size,
        body |-> [j \in 1 .. n |-> bytes[r.pos + j].value]] = Clipped(m, n)
  <2> HIDE DEF b, r
  <2>1. [j \in 1 .. n |-> bytes[r.pos + j].value] = b
    BY <1>5 DEF b
  <2> QED BY <1>1, <1>5, <1>6, <1>10, <2>1 DEF Clipped
<1>14. NextEntry(r, bytes, takes) = [r EXCEPT !.entries = Append(es, Clipped(m, n)), !.pos = ((p + 1) + s) + e]
  <2> HIDE DEF r
  <2> QED BY <1>5, <1>6, <1>11, <1>12, <1>13
<1>15. PICK q, z : q = Append(es, Clipped(m, n)) /\ z = ((p + 1) + s) + e
  OBVIOUS
<1>16. PICK x : x = r
  OBVIOUS
<1>17. PICK v : v = NextEntry(x, bytes, takes)
  OBVIOUS
<1>18. x = [state |-> "reading", pos |-> p, entries |-> es]
  BY <1>16 DEF Reads
<1> HIDE DEF r
<1>19. v = [x EXCEPT !.entries = q, !.pos = z]
  BY <1>14, <1>15, <1>16, <1>17
<1>20. v = [state |-> "reading", pos |-> z, entries |-> q]
  BY <1>18, <1>19
<1>21. v = Reads(z, q)
  BY <1>20 DEF Reads
<1>22. z = NextAt(p, m)
  BY <1>1, <1>3, <1>15 DEF NextAt
<1> QED BY <1>15, <1>16, <1>17, <1>21, <1>22 DEF r

\* Where the reader stops.
LEMMA ReaderStops ==
    ASSUME NEW bytes, Len(bytes) \in Nat, NEW takes, NEW k \in 0 .. Len(bytes) - 1, NEW p \in Nat, NEW es,
           ReadRun(bytes, takes, Len(bytes))[k] = Reads(p, es),
           p > Len(bytes) \/ (p <= Len(bytes) /\ bytes[p].kind = "torn")
    PROVE  /\ ReadArchive(bytes, takes).state = "end"
           /\ ReadArchive(bytes, takes).entries = es
<1>1. PICK l \in Nat : l = Len(bytes)
  OBVIOUS
<1>2. PICK f : f = ReadRun(bytes, takes, l)
  OBVIOUS
<1>3. \A n \in 0 .. l - 1 : f[n + 1] = NextEntry(f[n], bytes, takes)
  BY <1>1, <1>2, ReadSteps
<1> DEFINE r == Reads(p, es)
           e == [state |-> "end", pos |-> p, entries |-> es]
<1>4. f[k] = r
  BY <1>1, <1>2
<1>5. NextEntry(r, bytes, takes) = e
  <2>1. r.state = "reading" /\ r.pos = p
    BY DEF Reads
  <2>2. r.pos > Len(bytes) \/ bytes[r.pos].kind = "torn"
    BY <2>1
  <2>3. NextEntry(r, bytes, takes) = [r EXCEPT !.state = "end"]
    <3> HIDE DEF r
    <3> QED BY <2>1, <2>2 DEF NextEntry
  <2>4. [r EXCEPT !.state = "end"] = e
    BY DEF Reads
  <2> QED BY <2>3, <2>4
<1>6. NextEntry(e, bytes, takes) = e
  <2>1. e.state # "reading"
    OBVIOUS
  <2> HIDE DEF e
  <2> QED BY <2>1 DEF NextEntry
<1> HIDE DEF r, e
<1> DEFINE G == {j \in 0 .. (l - k) - 1 : f[(k + 1) + j] = e}
<1>7. 0 \in G
  <2>1. k \in 0 .. l - 1 /\ (k + 1) + 0 = k + 1 /\ 0 \in 0 .. (l - k) - 1
    BY <1>1
  <2> QED BY <1>3, <1>4, <1>5, <2>1
<1>8. ASSUME NEW j \in 0 .. ((l - k) - 1) - 1, j \in G PROVE j + 1 \in G
  <2>1. PICK z : z = (k + 1) + j
    OBVIOUS
  <2>2. z \in 0 .. l - 1 /\ (k + 1) + (j + 1) = z + 1 /\ j + 1 \in 0 .. (l - k) - 1
    BY <1>1, <2>1
  <2>3. f[z] = e
    BY <1>8, <2>1
  <2>4. f[z + 1] = e
    BY <1>3, <1>6, <2>2, <2>3
  <2> QED BY <2>2, <2>4
<1>9. (l - k) - 1 \in G
  <2>1. \A j \in 0 .. ((l - k) - 1) - 1 : j \in G => j + 1 \in G
    BY <1>8
  <2>2. (l - k) - 1 \in Nat
    BY <1>1
  <2>3. (l - k) - 1 \in 0 .. (l - k) - 1
    BY <2>2
  <2> HIDE DEF G
  <2> QED BY <1>7, <2>1, <2>2, <2>3, Induction
<1>10. f[l] = e
  <2>1. (k + 1) + ((l - k) - 1) = l
    BY <1>1
  <2> QED BY <1>9, <2>1
<1>11. ReadArchive(bytes, takes) = ReadRun(bytes, takes, Len(bytes))[Len(bytes)]
  BY DEF ReadArchive, ReadRun, ReadTo
<1> QED BY <1>1, <1>2, <1>10, <1>11 DEF e

\* A member ends after those before it.
LEMMA EndsGrow ==
    ASSUME NEW ms, Bodied(ms), NEW bytes, NEW ends, IsLaid(bytes, ms, ends), NEW k \in 0 .. Len(ms)
    PROVE  \A j \in 0 .. k : ends[j] <= ends[k]
<1>1. PICK N \in Nat : N = Len(ms)
  BY SequenceIsSeq DEF Bodied
<1>2. \A n \in 0 .. N : ends[n] \in Nat
  BY <1>1 DEF IsLaid
<1>3. \A n \in 0 .. N - 1 : ends[n] <= ends[n + 1]
  <2>1. TAKE n \in 0 .. N - 1
  <2>2. n + 1 \in 1 .. N /\ n + 1 \in 0 .. N /\ n \in 0 .. N
    BY <1>1
  <2>3. IsSequence(ms[n + 1].body)
    BY <1>1, <2>2, SequenceIsSeq DEF Bodied
  <2>4. PICK b \in Nat : b = Len(ms[n + 1].body)
    BY <2>3, SequenceIsSeq
  <2>5. PICK e : e = b % 2
    OBVIOUS
  <2>6. e \in Nat
    BY <2>4, <2>5, ParityOf
  <2>7. ends[n + 1] = ((ends[n] + 1) + b) + e
    BY <1>1, <2>4, <2>5 DEF IsLaid
  <2>8. ends[n] \in Nat
    BY <1>2, <2>2
  <2>9. PICK a \in Nat : a = ends[n]
    BY <2>8
  <2>10. a <= ((a + 1) + b) + e
    BY <2>4, <2>6, <2>9, NextIsLater
  <2> QED BY <2>7, <2>9, <2>10
<1> DEFINE G == {n \in 0 .. k : \A j \in 0 .. n : ends[j] <= ends[n]}
<1>4. 0 \in G
  BY <1>1, <1>2
<1>5. ASSUME NEW n \in 0 .. k - 1, n \in G PROVE n + 1 \in G
  <2>1. n + 1 \in 0 .. k /\ n \in 0 .. N - 1 /\ n + 1 \in 0 .. N /\ n \in 0 .. N
    BY <1>1
  <2>2. ends[n] <= ends[n + 1] /\ ends[n] \in Nat /\ ends[n + 1] \in Nat
    BY <1>2, <1>3, <2>1
  <2>3. ASSUME NEW j \in 0 .. n + 1 PROVE ends[j] <= ends[n + 1]
    <3>1. j = n + 1 \/ j \in 0 .. n
      OBVIOUS
    <3>2. j \in 0 .. N
      BY <2>1
    <3>3. ends[j] \in Nat
      BY <1>2, <3>2
    <3>4. CASE j \in 0 .. n
      <4>1. ends[j] <= ends[n]
        BY <1>5, <3>4
      <4> QED BY <2>2, <3>3, <4>1
    <3> QED BY <2>2, <3>1, <3>4
  <2> QED BY <2>1, <2>3
<1>6. k \in G
  <2>1. \A n \in 0 .. k - 1 : n \in G => n + 1 \in G
    BY <1>5
  <2>2. k \in Nat /\ k \in 0 .. k
    BY <1>1
  <2> HIDE DEF G
  <2> QED BY <1>4, <2>1, <2>2, Induction
<1> QED BY <1>6

\* How much of each member is read.
Shown(ms, w, k) == [i \in 1 .. k |-> Clipped(ms[i], w[i])]
IsShown(ms, w, takes, k) ==
    \A i \in 1 .. k : /\ takes[i] \in Nat /\ w[i] \in Nat
                      /\ w[i] <= takes[i] /\ w[i] <= Len(ms[i].body)
                      /\ w[i] \in {takes[i], Len(ms[i].body)}

\* One more entry.
LEMMA ShownIs ==
    ASSUME NEW ms, NEW w, NEW k \in Nat
    PROVE  /\ Len(Shown(ms, w, k)) = k
           /\ Append(Shown(ms, w, k), Clipped(ms[k + 1], w[k + 1])) = Shown(ms, w, k + 1)
<1> DEFINE S == {Clipped(ms[i], w[i]) : i \in 1 .. k + 1}
           x == Clipped(ms[k + 1], w[k + 1])
           s == Shown(ms, w, k)
<1>1. s \in [1 .. k -> S]
  BY DEF Shown
<1>2. x \in S
  OBVIOUS
<1>3. \A i \in 1 .. k : s[i] = Clipped(ms[i], w[i])
  BY DEF Shown
<1> HIDE DEF S, s, x
<1>4. s \in Seq(S) /\ Len(s) = k /\ DOMAIN s = 1 .. k
  BY <1>1, FunctionIsSeq
<1>5. /\ Append(s, x) \in Seq(S) /\ Len(Append(s, x)) = k + 1
      /\ \A i \in 1 .. k : Append(s, x)[i] = s[i]
      /\ Append(s, x)[k + 1] = x
  BY <1>2, <1>4, AppendProperties
<1>6. PICK y : y = Append(s, x)
  OBVIOUS
<1>7. DOMAIN y = 1 .. k + 1 /\ y = [i \in 1 .. k + 1 |-> y[i]]
  <2>1. y \in Seq(S) /\ Len(y) = k + 1
    BY <1>5, <1>6
  <2>2. y \in [1 .. k + 1 -> S]
    BY <2>1, LenProperties
  <2> QED BY <2>2
<1>8. \A i \in 1 .. k + 1 : y[i] = Clipped(ms[i], w[i])
  <2>1. TAKE i \in 1 .. k + 1
  <2>2. i = k + 1 \/ i \in 1 .. k
    OBVIOUS
  <2> QED BY <1>3, <1>5, <1>6, <2>2 DEF x
<1>9. [i \in 1 .. k + 1 |-> y[i]] = [i \in 1 .. k + 1 |-> Clipped(ms[i], w[i])]
  BY <1>8
<1>10. y = Shown(ms, w, k + 1)
  BY <1>7, <1>9 DEF Shown
<1> QED BY <1>4, <1>6, <1>10 DEF s, x

\* What is the same as an archive up to the end of a member is read as it is.
LEMMA ReadsMembers ==
    ASSUME NEW ms, Bodied(ms), NEW bytes, NEW ends, IsLaid(bytes, ms, ends),
           NEW there, Len(there) \in Nat, there # <<>>, Head(there) = there[1],
           NEW K \in 0 .. Len(ms), ends[K] <= Len(there), \A i \in 1 .. ends[K] : there[i] = bytes[i],
           NEW takes, NEW w, IsShown(ms, w, takes, K)
    PROVE  \A k \in 0 .. K : ReadRun(there, takes, Len(there))[k] = Reads(ends[k] + 1, Shown(ms, w, k))
<1>1. PICK N \in Nat : N = Len(ms)
  BY SequenceIsSeq DEF Bodied
<1>2. PICK l \in Nat : l = Len(there)
  OBVIOUS
<1>3. PICK f : f = ReadRun(there, takes, l)
  OBVIOUS
<1>4. f[0] = NewReader(there) /\ \A n \in 0 .. l - 1 : f[n + 1] = NextEntry(f[n], there, takes)
  BY <1>3, ReadSteps
<1>5. \A n \in 0 .. K : ends[n] \in Nat /\ n < ends[n] /\ ends[n] <= ends[K]
  <2>1. \A n \in 0 .. K : n \in 0 .. N
    BY <1>1
  <2> QED BY <1>1, <2>1, EndsGrow DEF IsLaid
<1>6. K \in 0 .. K /\ ends[K] <= l /\ K < l /\ ends[K] \in Nat /\ 0 \in 0 .. K
  BY <1>1, <1>2, <1>5
<1> DEFINE G == {k \in 0 .. K : f[k] = Reads(ends[k] + 1, Shown(ms, w, k))}
<1>7. 0 \in G
  <2>1. ends[0] = 1 /\ bytes[1] = Cell("magic")
    BY DEF IsLaid
  <2>2. 1 \in 1 .. ends[K]
    BY <1>5, <1>6, <2>1
  <2>3. there[1].kind = "magic"
    BY <2>1, <2>2 DEF Cell
  <2>4. NewReader(there) = [state |-> "reading", pos |-> 2, entries |-> <<>>]
    BY <2>3 DEF NewReader
  <2>5. Shown(ms, w, 0) = <<>>
    BY DEF Shown
  <2>6. ends[0] + 1 = 2
    BY <2>1
  <2>7. f[0] = Reads(ends[0] + 1, Shown(ms, w, 0))
    BY <1>4, <2>4, <2>5, <2>6 DEF Reads
  <2> QED BY <1>6, <2>7
<1>8. ASSUME NEW k \in 0 .. K - 1, k \in G PROVE k + 1 \in G
  <2>1. PICK z : z = k + 1
    OBVIOUS
  <2>2. z \in 0 .. K /\ z \in 1 .. K /\ k \in 0 .. K /\ k \in 0 .. l - 1 /\ k \in 0 .. N - 1 /\ z \in 1 .. N /\ k \in Nat
    BY <1>1, <1>6, <2>1
  <2>3. IsSequence(ms[z].body)
    BY <1>1, <2>2, SequenceIsSeq DEF Bodied
  <2>4. PICK b \in Nat : b = Len(ms[z].body)
    BY <2>3, SequenceIsSeq
  <2>5. PICK e : e = b % 2
    OBVIOUS
  <2>6. e \in Nat
    BY <2>4, <2>5, ParityOf
  <2>7. /\ ends[z] = ((ends[k] + 1) + b) + e
        /\ bytes[ends[k] + 1] = Header(ms[z])
        /\ \A j \in 1 .. b : bytes[(ends[k] + 1) + j] = Data(ms[z].body[j])
    BY <1>1, <2>1, <2>2, <2>4, <2>5 DEF IsLaid
  <2>8. PICK p \in Nat : p = ends[k] + 1
    BY <1>5, <2>2
  <2>9. /\ ends[z] = (p + b) + e /\ ends[z] \in Nat /\ ends[z] <= ends[K]
    BY <1>5, <2>2, <2>7, <2>8
  <2>10. p <= l /\ b <= l - p /\ p \in 1 .. ends[K] /\ \A j \in 1 .. b : p + j \in 1 .. ends[K]
    <3>1. 1 <= p
      BY <1>5, <2>2, <2>8
    <3> QED BY <1>2, <1>6, <2>4, <2>6, <2>9, <3>1
  <2>11. there[p] = Header(ms[z]) /\ \A j \in 1 .. b : there[p + j] = Data(ms[z].body[j])
    BY <2>7, <2>8, <2>10
  <2>12. PICK t \in Nat : t = takes[z] /\ w[z] \in Nat /\ w[z] <= t /\ w[z] <= b /\ w[z] \in {t, b}
    BY <2>2, <2>4 DEF IsShown
  <2>13. PICK n \in Nat : n = w[z]
    BY <2>12
  <2>14. n <= t /\ n <= b /\ n <= l - p /\ n \in {t, b, l - p} /\ \A j \in 1 .. n : there[p + j] = Data(ms[z].body[j])
    <3>1. \A j \in 1 .. n : j \in 1 .. b
      BY <2>4, <2>12, <2>13
    <3>2. \A j \in 1 .. n : there[p + j] = Data(ms[z].body[j])
      BY <2>11, <3>1
    <3>3. n \in Nat /\ b \in Nat /\ l - p \in Int /\ n <= b /\ b <= l - p
      BY <1>2, <2>4, <2>8, <2>10, <2>12, <2>13
    <3>4. n <= l - p
      BY <3>3
    <3> QED BY <2>12, <2>13, <3>2, <3>3, <3>4
  <2>15. PICK es : es = Shown(ms, w, k)
    OBVIOUS
  <2>16. Len(es) + 1 = z
    BY <2>1, <2>2, <2>15, ShownIs
  <2>17. NextEntry(Reads(p, es), there, takes) = Reads(((p + 1) + b) + e, Append(es, Clipped(ms[z], n)))
    <3>0. l = Len(there) /\ b = Len(ms[z].body)
      BY <1>2, <2>4
    <3>1. /\ Len(there) \in Nat /\ p \in Nat /\ p <= Len(there) /\ t \in Nat /\ n \in Nat
          /\ t = takes[Len(es) + 1]
      BY <2>8, <2>10, <2>12, <2>13, <2>16, <3>0
    <3>2. /\ n <= t /\ n <= Len(ms[z].body) /\ n <= Len(there) - p /\ n \in {t, Len(ms[z].body), Len(there) - p}
          /\ \A j \in 1 .. n : there[p + j] = Data(ms[z].body[j])
      BY <2>14, <3>0
    <3>3. there[p] = Header(ms[z])
      BY <2>11
    <3>5. IsHere(there, p, ms[z], t, n)
      BY <2>3, <3>1, <3>2, <3>3 DEF IsHere
    <3>6. t = Wanted(takes, es)
      BY <3>1 DEF Wanted
    <3>4. NextEntry(Reads(p, es), there, takes) = Reads(NextAt(p, ms[z]), Append(es, Clipped(ms[z], n)))
      BY <3>5, <3>6, OneEntry
    <3>7. NextAt(p, ms[z]) = ((p + 1) + b) + e
      BY <2>4, <2>5 DEF NextAt
    <3> QED BY <3>4, <3>7
  <2>18. Append(es, Clipped(ms[z], n)) = Shown(ms, w, z)
    BY <2>1, <2>2, <2>13, <2>15, ShownIs
  <2>19. ((p + 1) + b) + e = ends[z] + 1
    <3>1. p \in Nat /\ b \in Nat /\ e \in Nat /\ ends[z] \in Nat /\ ends[z] = (p + b) + e
      BY <2>4, <2>6, <2>8, <2>9
    <3> QED BY <3>1, OneFurther
  <2>20. f[k] = Reads(p, es)
    BY <1>8, <2>8, <2>15
  <2>21. f[k + 1] = NextEntry(f[k], there, takes)
    BY <1>4, <2>2
  <2>22. f[z] = Reads(ends[z] + 1, Shown(ms, w, z))
    BY <2>1, <2>17, <2>18, <2>19, <2>20, <2>21
  <2> QED BY <2>1, <2>2, <2>22
<1>9. 0 .. K \subseteq G
  <2>1. \A n \in 0 .. K - 1 : n \in G => n + 1 \in G
    BY <1>8
  <2>2. K \in Nat
    BY <1>1
  <2> HIDE DEF G
  <2> QED BY <1>7, <2>1, <2>2, Induction
<1> QED BY <1>2, <1>3, <1>9

Sizes(ms) == [i \in 1 .. Len(ms) |-> Len(ms[i].body)]

\* The entries of an archive read with `takes' of each.
Amounts(ms, takes) == [i \in 1 .. Len(ms) |-> IF takes[i] <= Len(ms[i].body) THEN takes[i] ELSE Len(ms[i].body)]

LEMMA MembersBodied ==
    ASSUME NEW ms, Bodied(ms), NEW i \in 1 .. Len(ms)
    PROVE  IsSequence(ms[i].body) /\ Len(ms[i].body) \in Nat
<1>1. DOMAIN ms = 1 .. Len(ms)
  BY SequenceIsSeq DEF Bodied
<1>2. IsSequence(ms[i].body)
  BY <1>1 DEF Bodied
<1> QED BY <1>2, SequenceIsSeq

LEMMA BytesLaid ==
    ASSUME NEW ms, Bodied(ms), NEW bytes, NEW ends, IsLaid(bytes, ms, ends)
    PROVE  /\ Len(bytes) \in Nat /\ Len(ms) \in Nat /\ Len(ms) < Len(bytes) /\ bytes # <<>> /\ Head(bytes) = bytes[1]
           /\ ends[Len(ms)] = Len(bytes) /\ ends[0] = 1
<1>1. Len(ms) \in Nat
  BY SequenceIsSeq DEF Bodied
<1>2. bytes \in Seq(AllCells(ms)) /\ ends[Len(ms)] = Len(bytes) /\ ends[0] = 1
  BY DEF IsLaid
<1>3. Len(ms) \in 0 .. Len(ms)
  BY <1>1
<1>4. Len(ms) < Len(bytes)
  BY <1>2, <1>3 DEF IsLaid
<1> QED BY <1>1, <1>2, <1>4

\* All of an archive.
LEMMA ReadsAll ==
    ASSUME NEW ms, Bodied(ms), NEW takes, \A i \in 1 .. Len(ms) : takes[i] \in Nat
    PROVE  /\ ReadArchive(Archive(ms), takes).state = "end"
           /\ ReadArchive(Archive(ms), takes).entries = Shown(ms, Amounts(ms, takes), Len(ms))
<1>1. PICK ends : IsLaid(Archive(ms), ms, ends)
  BY ArchiveIsLaid
<1>2. PICK b : b = Archive(ms)
  OBVIOUS
<1>3. PICK N : N = Len(ms)
  OBVIOUS
<1>4. PICK l : l = Len(b)
  OBVIOUS
<1>5. l \in Nat /\ N \in Nat /\ N < l /\ b # <<>> /\ Head(b) = b[1] /\ ends[N] = l
  BY <1>1, <1>2, <1>3, <1>4, BytesLaid
<1>6. IsShown(ms, Amounts(ms, takes), takes, N)
  <2> SUFFICES ASSUME NEW i \in 1 .. N
               PROVE  /\ takes[i] \in Nat /\ Amounts(ms, takes)[i] \in Nat
                      /\ Amounts(ms, takes)[i] <= takes[i] /\ Amounts(ms, takes)[i] <= Len(ms[i].body)
                      /\ Amounts(ms, takes)[i] \in {takes[i], Len(ms[i].body)}
    BY DEF IsShown
  <2>1. PICK t \in Nat : t = takes[i]
    BY <1>3
  <2>2. PICK s \in Nat : s = Len(ms[i].body)
    BY <1>3, MembersBodied
  <2>3. Amounts(ms, takes)[i] = IF t <= s THEN t ELSE s
    BY <1>3, <2>1, <2>2 DEF Amounts
  <2> QED BY <2>1, <2>2, <2>3
<1>7. N \in 0 .. N /\ ends[N] <= l /\ \A i \in 1 .. ends[N] : b[i] = b[i]
  BY <1>5
<1>8. ReadRun(b, takes, l)[N] = Reads(ends[N] + 1, Shown(ms, Amounts(ms, takes), N))
  BY <1>1, <1>2, <1>3, <1>4, <1>5, <1>6, <1>7, ReadsMembers
<1>9. PICK p : p = ends[N] + 1
  OBVIOUS
<1>10. N \in 0 .. l - 1 /\ p \in Nat /\ p > l
  BY <1>5, <1>9
<1> QED BY <1>2, <1>3, <1>4, <1>5, <1>8, <1>9, <1>10, ReaderStops

\* The member in which a position of the archive is.
LEMMA Located ==
    ASSUME NEW ms, Bodied(ms), NEW bytes, NEW ends, IsLaid(bytes, ms, ends), NEW n \in 1 .. Len(bytes)
    PROVE  \E K \in 0 .. Len(ms) : ends[K] <= n /\ (K < Len(ms) => n < ends[K + 1])
<1>1. PICK N \in Nat : N = Len(ms)
  BY BytesLaid
<1>2. \A k \in 0 .. N : ends[k] \in Nat
  BY <1>1 DEF IsLaid
<1> DEFINE G == {k \in 0 .. N : \E K \in 0 .. k : ends[K] <= n /\ (K < k => n < ends[K + 1])}
<1>3. 0 \in G
  <2>1. ends[0] = 1 /\ n >= 1 /\ 0 \in 0 .. 0 /\ 0 \in 0 .. N
    BY <1>1, BytesLaid
  <2> QED BY <2>1
<1>4. ASSUME NEW k \in 0 .. N - 1, k \in G PROVE k + 1 \in G
  <2>1. PICK K \in 0 .. k : ends[K] <= n /\ (K < k => n < ends[K + 1])
    BY <1>4
  <2>2. k + 1 \in 0 .. N /\ K \in 0 .. k + 1 /\ k + 1 \in 0 .. k + 1
    BY <1>1, <2>1
  <2>3. n \in Nat /\ ends[k + 1] \in Nat
    BY <1>2, <2>2, BytesLaid
  <2>4. CASE ends[k + 1] <= n
    BY <2>2, <2>4
  <2>5. CASE ~(ends[k + 1] <= n)
    <3>1. n < ends[k + 1]
      BY <2>3, <2>5
    <3>2. K < k + 1 => n < ends[K + 1]
      <4>1. K < k \/ K = k
        BY <2>1
      <4> QED BY <2>1, <3>1, <4>1
    <3> QED BY <2>1, <2>2, <3>2
  <2> QED BY <2>4, <2>5
<1>5. N \in G
  <2>1. \A k \in 0 .. N - 1 : k \in G => k + 1 \in G
    BY <1>4
  <2>2. N \in 0 .. N
    BY <1>1
  <2> HIDE DEF G
  <2> QED BY <1>1, <1>3, <2>1, <2>2, Induction
<1> QED BY <1>1, <1>5

LEMMA OneMoreCell ==
    ASSUME NEW p \in Nat, NEW b \in Nat
    PROVE  (p + 1) + (b + 1) = ((p + 1) + b) + 1
OBVIOUS

LEMMA StepInside ==
    ASSUME NEW m \in Nat, NEW p \in Nat, NEW b \in Nat, NEW e \in Nat, p < m, m < ((p + 1) + b) + e
    PROVE  m - p \in 1 .. b + e /\ m + 1 = (p + 1) + (m - p)
OBVIOUS

LEMMA SmallerOf == ASSUME NEW a \in Nat, NEW b \in Nat PROVE \E n \in Nat : n <= a /\ n <= b /\ n \in {a, b}
<1>1. CASE a <= b
  BY <1>1
<1>2. CASE ~(a <= b)
  BY <1>2
<1> QED BY <1>1, <1>2

LEMMA BodyInside ==
    ASSUME NEW l \in Nat, NEW p \in 1 .. l, NEW n \in Nat, NEW b \in Nat, n <= b, n <= l - p
    PROVE  \A j \in 1 .. n : j \in 1 .. b /\ p + j \in 1 .. l
OBVIOUS

LEMMA PastTheEnd ==
    ASSUME NEW l \in Nat, NEW p \in Nat, NEW b \in Nat, NEW e \in Nat, l < (p + b) + e,
           NEW y, y = ((p + 1) + b) + e
    PROVE  y \in Nat /\ y > l
OBVIOUS

\* What a header is the first cell of.
LEMMA HeadersAt ==
    ASSUME NEW ms, Bodied(ms), NEW bytes, NEW ends, IsLaid(bytes, ms, ends),
           NEW n \in 1 .. Len(bytes), bytes[n].kind = "header"
    PROVE  \E K \in 0 .. Len(ms) - 1 : n = ends[K] + 1
<1>1. PICK N \in Nat : N = Len(ms)
  BY BytesLaid
<1>2. PICK l \in Nat : l = Len(bytes)
  BY BytesLaid
<1>3. n # 1
  <2>1. bytes[1] = Cell("magic")
    BY DEF IsLaid
  <2> QED BY <2>1 DEF Cell
<1>4. PICK m \in 1 .. l : n = m + 1 /\ m < l
  <2>1. n - 1 \in 1 .. l /\ n = (n - 1) + 1 /\ n - 1 < l
    BY <1>2, <1>3
  <2> QED BY <2>1
<1>5. PICK K \in 0 .. N : ends[K] <= m /\ (K < N => m < ends[K + 1])
  BY <1>1, <1>2, <1>4, Located
<1>6. K \in 0 .. N - 1 /\ ends[K] \in Nat
  <2>1. ends[N] = l
    BY <1>1, <1>2, BytesLaid
  <2>2. K # N
    BY <1>2, <1>4, <1>5, <2>1
  <2>3. ends[K] \in Nat
    BY <1>1, <1>5 DEF IsLaid
  <2> QED BY <1>1, <1>5, <2>2, <2>3
<1>7. PICK z : z = K + 1
  OBVIOUS
<1>8. z \in 1 .. N /\ K < N
  BY <1>1, <1>6, <1>7
<1>9. PICK b \in Nat : b = Len(ms[z].body)
  BY <1>1, <1>8, MembersBodied
<1>10. PICK e : e = b % 2
  OBVIOUS
<1>11. e \in {0, 1}
  BY <1>9, <1>10, Parity
<1>12. /\ ends[z] = ((ends[K] + 1) + b) + e
       /\ \A j \in 1 .. b : bytes[(ends[K] + 1) + j] = Data(ms[z].body[j])
       /\ e = 1 => bytes[ends[z]] = Cell("pad")
  BY <1>1, <1>6, <1>7, <1>9, <1>10 DEF IsLaid
<1>13. PICK p \in Nat : p = ends[K]
  BY <1>6
<1>14. ASSUME m # p PROVE FALSE
  <2>1. p < m /\ m < ((p + 1) + b) + e /\ m \in Nat
    BY <1>2, <1>4, <1>5, <1>7, <1>8, <1>12, <1>13, <1>14
  <2>2. PICK j \in 1 .. b + e : n = (p + 1) + j
    <3>0. e \in Nat
      BY <1>9, <1>10, ParityOf
    <3>1. m - p \in 1 .. b + e /\ m + 1 = (p + 1) + (m - p)
      BY <1>9, <1>13, <2>1, <3>0, StepInside
    <3> QED BY <1>4, <3>1
  <2>3. CASE j \in 1 .. b
    <3>1. bytes[n] = Data(ms[z].body[j])
      BY <1>12, <1>13, <2>2, <2>3
    <3> QED BY <3>1 DEF Data
  <2>4. CASE e = 1 /\ j = b + 1
    <3>1. n = ends[z]
      <4>1. ends[z] = ((p + 1) + b) + 1 /\ n = (p + 1) + (b + 1)
        BY <1>12, <1>13, <2>2, <2>4
      <4> QED BY <1>9, <1>13, <4>1, OneMoreCell
    <3>2. bytes[n] = Cell("pad")
      BY <1>12, <2>4, <3>1
    <3> QED BY <3>2 DEF Cell
  <2>5. j \in 1 .. b \/ (e = 1 /\ j = b + 1)
    BY <1>9, <1>11, <2>2
  <2> QED BY <2>3, <2>4, <2>5
<1>15. n = ends[K] + 1
  BY <1>4, <1>13, <1>14
<1> QED BY <1>1, <1>6, <1>15

\* The entries of K whole members, and perhaps a part of the next one.
IsCutShort(es, ms) ==
    \E K \in 0 .. Len(ms) :
        \/ es = Shown(ms, Sizes(ms), K)
        \/ K < Len(ms) /\ \E b \in 0 .. Len(ms[K + 1].body) :
               es = Append(Shown(ms, Sizes(ms), K), Clipped(ms[K + 1], b))

\* A cut has the first q cells of an archive, and nothing else but a torn one.
IsCutAt(there, bytes, q) ==
    /\ Len(there) \in Nat /\ there # <<>> /\ Head(there) = there[1]
    /\ q \in 1 .. Len(bytes) /\ q <= Len(there)
    /\ \A i \in 1 .. q : there[i] = bytes[i]

\* Who asks for all there is gets all of a member.
LEMMA WholeIs ==
    ASSUME NEW there, NEW n \in Nat, n = Len(there), NEW i \in 1 .. n
    PROVE  Whole(there)[i] = n
BY DEF Whole

\* The members before the cut.
LEMMA CutShowsWhole ==
    ASSUME NEW ms, Bodied(ms), NEW bytes, NEW ends, IsLaid(bytes, ms, ends),
           NEW there, NEW q, IsCutAt(there, bytes, q), NEW K \in 0 .. Len(ms), ends[K] <= q
    PROVE  /\ ReadRun(there, Whole(there), Len(there))[K] = Reads(ends[K] + 1, Shown(ms, Sizes(ms), K))
           /\ K < ends[K]
<1>1. PICK N \in Nat : N = Len(ms)
  BY BytesLaid
<1>2. PICK l \in Nat : l = Len(there)
  BY DEF IsCutAt
<1>3. q \in Nat /\ q <= l /\ ends[K] \in Nat /\ K < ends[K] /\ K \in 0 .. N
  <2>1. q \in Nat /\ q <= l
    BY <1>2, BytesLaid DEF IsCutAt
  <2> QED BY <1>1, <2>1 DEF IsLaid
<1>4. ends[K] <= l /\ \A i \in 1 .. ends[K] : there[i] = bytes[i]
  <2>1. ends[K] <= l /\ \A i \in 1 .. ends[K] : i \in 1 .. q
    BY <1>2, <1>3
  <2> QED BY <2>1 DEF IsCutAt
<1>5. IsShown(ms, Sizes(ms), Whole(there), K)
  <2> SUFFICES ASSUME NEW i \in 1 .. K
               PROVE  /\ Whole(there)[i] \in Nat /\ Sizes(ms)[i] \in Nat
                      /\ Sizes(ms)[i] <= Whole(there)[i] /\ Sizes(ms)[i] <= Len(ms[i].body)
                      /\ Sizes(ms)[i] \in {Whole(there)[i], Len(ms[i].body)}
    BY DEF IsShown
  <2>1. PICK h : h = i - 1
    OBVIOUS
  <2>2. h \in 0 .. N - 1 /\ h \in 0 .. N /\ i \in 1 .. N /\ i \in 0 .. N /\ i \in 1 .. l /\ i \in 0 .. K /\ h + 1 = i
    BY <1>1, <1>2, <1>3, <1>4, <2>1
  <2>3. Whole(there)[i] = l
    BY <1>2, <2>2, WholeIs
  <2>4. PICK s \in Nat : s = Len(ms[i].body)
    BY <1>1, <2>2, MembersBodied
  <2>5. PICK e : e = s % 2
    OBVIOUS
  <2>6. e \in Nat
    BY <2>4, <2>5, ParityOf
  <2>7. ends[i] = ((ends[h] + 1) + s) + e /\ ends[h] \in Nat /\ ends[i] \in Nat
    BY <1>1, <2>2, <2>4, <2>5 DEF IsLaid
  <2>8. ends[i] <= ends[K]
    BY <1>1, <2>2, EndsGrow
  <2>9. s <= l
    BY <1>2, <1>3, <1>4, <2>4, <2>6, <2>7, <2>8
  <2>10. Sizes(ms)[i] = s
    BY <1>1, <2>2, <2>4 DEF Sizes
  <2> QED BY <1>2, <2>3, <2>4, <2>9, <2>10
<1>6. there # <<>> /\ Head(there) = there[1]
  BY DEF IsCutAt
<1>7. \A k \in 0 .. K : ReadRun(there, Whole(there), l)[k] = Reads(ends[k] + 1, Shown(ms, Sizes(ms), k))
  BY <1>1, <1>2, <1>3, <1>4, <1>5, <1>6, ReadsMembers
<1>8. K \in 0 .. K
  BY <1>3
<1> QED BY <1>2, <1>3, <1>7, <1>8

\* A cut at the end of a member or in its header.
LEMMA CutBetween ==
    ASSUME NEW ms, Bodied(ms), NEW bytes, NEW ends, IsLaid(bytes, ms, ends),
           NEW there, NEW K \in 0 .. Len(ms), IsCutAt(there, bytes, ends[K]),
           \/ Len(there) = ends[K]
           \/ Len(there) = ends[K] + 1 /\ there[ends[K] + 1].kind = "torn"
    PROVE  IsCutShort(ReadArchive(there, Whole(there)).entries, ms)
<1>1. PICK l \in Nat : l = Len(there)
  BY DEF IsCutAt
<1>2. PICK q \in Nat : q = ends[K]
  BY DEF IsLaid
<1>3. PICK p : p = q + 1
  OBVIOUS
<1>4. PICK es : es = Shown(ms, Sizes(ms), K)
  OBVIOUS
<1>5. ends[K] <= q
  BY <1>2
<1>6. ReadRun(there, Whole(there), l)[K] = Reads(p, es) /\ K < q
  BY <1>1, <1>2, <1>3, <1>4, <1>5, CutShowsWhole
<1>7. K \in Nat
  BY BytesLaid
<1>8. K \in 0 .. l - 1 /\ p \in Nat /\ (p > l \/ (p <= l /\ there[p].kind = "torn"))
  <2>1. l = q \/ (l = p /\ there[p].kind = "torn")
    BY <1>1, <1>2, <1>3
  <2> QED BY <1>1, <1>2, <1>3, <1>6, <1>7, <2>1
<1>9. ReadArchive(there, Whole(there)).entries = es
  BY <1>1, <1>6, <1>8, ReaderStops
<1> QED BY <1>4, <1>9 DEF IsCutShort

\* A cut inside of the body of a member, or before its pad.
LEMMA CutInside ==
    ASSUME NEW ms, Bodied(ms), NEW bytes, NEW ends, IsLaid(bytes, ms, ends),
           NEW there, NEW K \in 0 .. Len(ms) - 1, IsCutAt(there, bytes, Len(there)),
           ends[K] < Len(there), Len(there) < ends[K + 1]
    PROVE  IsCutShort(ReadArchive(there, Whole(there)).entries, ms)
<1>1. PICK l \in Nat : l = Len(there)
  BY DEF IsCutAt
<1>2. PICK N \in Nat : N = Len(ms)
  BY BytesLaid
<1>3. PICK z : z = K + 1
  OBVIOUS
<1>4. z \in 1 .. N /\ z \in 0 .. N /\ K \in 0 .. N /\ K < N /\ K \in Nat /\ K \in 0 .. Len(ms)
  BY <1>2, <1>3
<1>5. PICK q \in Nat : q = ends[K]
  BY <1>2, <1>4 DEF IsLaid
<1>6. PICK b \in Nat : b = Len(ms[z].body) /\ IsSequence(ms[z].body)
  BY <1>2, <1>4, MembersBodied
<1>7. PICK e : e = b % 2
  OBVIOUS
<1>8. e \in Nat
  BY <1>6, <1>7, ParityOf
<1>9. /\ ends[z] = ((q + 1) + b) + e /\ bytes[q + 1] = Header(ms[z])
      /\ \A j \in 1 .. b : bytes[(q + 1) + j] = Data(ms[z].body[j])
  BY <1>2, <1>3, <1>4, <1>5, <1>6, <1>7 DEF IsLaid
<1>10. PICK p \in Nat : p = q + 1
  BY <1>5
<1>11. q < l /\ p <= l /\ l < (p + b) + e
  BY <1>1, <1>3, <1>5, <1>9, <1>10
<1>12. PICK n \in Nat : n <= b /\ n <= l - p /\ n \in {b, l - p}
  <2>1. l - p \in Nat
    BY <1>1, <1>10, <1>11
  <2>2. PICK a \in Nat : a = l - p
    BY <2>1
  <2>3. \E n \in Nat : n <= b /\ n <= a /\ n \in {b, a}
    BY <1>6, SmallerOf
  <2> QED BY <2>2, <2>3
<1>13. PICK es : es = Shown(ms, Sizes(ms), K)
  OBVIOUS
<1>14. ReadRun(there, Whole(there), l)[K] = Reads(p, es) /\ K < q
  <2>1. ends[K] <= l
    BY <1>1, <1>5, <1>11
  <2> QED BY <1>1, <1>4, <1>5, <1>10, <1>13, <2>1, CutShowsWhole
<1>15. \A i \in 1 .. l : there[i] = bytes[i]
  BY <1>1 DEF IsCutAt
<1>16. IsHere(there, p, ms[z], l, n)
  <2>0. p \in 1 .. l
    BY <1>1, <1>5, <1>10, <1>11
  <2>1. p \in 1 .. l /\ \A j \in 1 .. n : j \in 1 .. b /\ p + j \in 1 .. l
    BY <1>1, <1>6, <1>12, <2>0, BodyInside
  <2>2. there[p] = Header(ms[z]) /\ \A j \in 1 .. n : there[p + j] = Data(ms[z].body[j])
    BY <1>9, <1>10, <1>15, <2>1
  <2>3. n <= l
    BY <1>1, <1>10, <1>12
  <2>4. n \in {l, b, l - p}
    BY <1>12
  <2> QED BY <1>1, <1>6, <1>10, <1>11, <1>12, <2>2, <2>3, <2>4 DEF IsHere
<1>17. l = Wanted(Whole(there), es)
  <2>1. Len(es) = K
    BY <1>4, <1>13, ShownIs
  <2>2. z \in 1 .. l
    BY <1>1, <1>3, <1>4, <1>5, <1>11, <1>14
  <2>3. Whole(there)[z] = l
    BY <1>1, <2>2, WholeIs
  <2> QED BY <1>3, <2>1, <2>3 DEF Wanted
<1>18. PICK x : x = Append(es, Clipped(ms[z], n))
  OBVIOUS
<1>19. PICK y : y = NextAt(p, ms[z])
  OBVIOUS
<1>20. NextEntry(Reads(p, es), there, Whole(there)) = Reads(y, x)
  BY <1>16, <1>17, <1>18, <1>19, OneEntry
<1>21. y \in Nat /\ y > l
  <2>1. y = ((p + 1) + b) + e
    BY <1>6, <1>7, <1>19 DEF NextAt
  <2> QED BY <1>1, <1>6, <1>8, <1>10, <1>11, <2>1, PastTheEnd
<1>22. K \in 0 .. l - 1 /\ z \in 0 .. l - 1
  BY <1>1, <1>3, <1>4, <1>5, <1>11, <1>14
<1>23. ReadRun(there, Whole(there), l)[z] = Reads(y, x)
  <2>1. PICK f : f = ReadRun(there, Whole(there), l)
    OBVIOUS
  <2>2. \A i \in 0 .. l - 1 : f[i + 1] = NextEntry(f[i], there, Whole(there))
    BY <1>1, <2>1, ReadSteps
  <2>3. f[K + 1] = NextEntry(f[K], there, Whole(there))
    BY <1>22, <2>2
  <2> QED BY <1>3, <1>14, <1>20, <2>1, <2>3
<1>24. ReadArchive(there, Whole(there)).entries = x
  BY <1>1, <1>21, <1>22, <1>23, ReaderStops
<1>25. n \in 0 .. Len(ms[K + 1].body) /\ x = Append(Shown(ms, Sizes(ms), K), Clipped(ms[K + 1], n))
  BY <1>3, <1>6, <1>12, <1>13, <1>18
<1> QED BY <1>2, <1>4, <1>24, <1>25 DEF IsCutShort

\* Whatever is left of an archive is read as the members before the cut, and
\* perhaps a part of the next one.
LEMMA ReadsCut ==
    ASSUME NEW ms, Bodied(ms), NEW there \in Cuts(Archive(ms)), there # <<>>
    PROVE  IsCutShort(ReadArchive(there, Whole(there)).entries, ms)
<1>1. PICK ends : IsLaid(Archive(ms), ms, ends)
  BY ArchiveIsLaid
<1>2. PICK bytes : bytes = Archive(ms)
  OBVIOUS
<1>3. IsLaid(bytes, ms, ends)
  BY <1>1, <1>2
<1>4. PICK S : S = AllCells(ms)
  OBVIOUS
<1>5. bytes \in Seq(S)
  BY <1>3, <1>4 DEF IsLaid
<1>6. PICK l \in Nat : l = Len(bytes)
  BY <1>5
<1>7. PICK N \in Nat : N = Len(ms)
  BY <1>3, BytesLaid
<1>8. \A i \in 1 .. l : bytes[i] \in S
  BY <1>5, <1>6
<1>9. ASSUME NEW n \in 0 .. l, there = SubSeq(bytes, 1, n)
      PROVE  IsCutShort(ReadArchive(there, Whole(there)).entries, ms)
  <2>1. there = [i \in 1 .. n |-> bytes[i]]
    BY <1>5, <1>6, <1>9
  <2>2. \A i \in 1 .. n : bytes[i] \in S
    BY <1>8
  <2>3. there \in [1 .. n -> S]
    BY <2>1, <2>2
  <2>4. there \in Seq(S) /\ Len(there) = n
    BY <2>3, FunctionIsSeq
  <2>5. n \in 1 .. l
    <3>1. n # 0
      BY <2>1, <2>4
    <3> QED BY <3>1
  <2>6. Head(there) = there[1]
    BY <2>4
  <2>7. IsCutAt(there, bytes, n)
    BY <1>6, <2>1, <2>4, <2>5, <2>6 DEF IsCutAt
  <2>8. PICK K \in 0 .. N : ends[K] <= n /\ (K < N => n < ends[K + 1])
    BY <1>3, <1>6, <1>7, <2>5, Located
  <2>9. ends[K] \in Nat /\ ends[N] = l
    BY <1>3, <1>6, <1>7, <2>8 DEF IsLaid
  <2>10. CASE ends[K] = n
    BY <1>3, <1>7, <2>4, <2>7, <2>8, <2>10, CutBetween
  <2>11. CASE ends[K] # n
    <3>1. K # N
      BY <1>6, <2>5, <2>8, <2>9, <2>11
    <3>2. K \in 0 .. N - 1 /\ K < N
      BY <1>7, <2>8, <3>1
    <3>3. ends[K] < n
      BY <2>5, <2>8, <2>9, <2>11
    <3> QED BY <1>3, <1>7, <2>4, <2>7, <2>8, <3>2, <3>3, CutInside
  <2> QED BY <2>10, <2>11
<1>10. ASSUME NEW n \in 1 .. l, bytes[n].kind = "header", there = Append(SubSeq(bytes, 1, n - 1), Cell("torn"))
       PROVE  IsCutShort(ReadArchive(there, Whole(there)).entries, ms)
  <2>1. PICK K \in 0 .. N - 1 : n = ends[K] + 1
    BY <1>3, <1>6, <1>7, <1>10, HeadersAt
  <2>2. PICK q \in Nat : q = ends[K] /\ 1 <= q
    <3>1. K \in 0 .. Len(ms)
      BY <1>7, <2>1
    <3>2. ends[K] \in Nat /\ K < ends[K]
      BY <1>3, <3>1 DEF IsLaid
    <3> QED BY <2>1, <3>2
  <2>3. n - 1 = q /\ q \in 1 .. l /\ q <= l
    BY <1>6, <2>1, <2>2
  <2>4. PICK s : s = SubSeq(bytes, 1, q)
    OBVIOUS
  <2> DEFINE T == S \cup {Cell("torn")}
  <2>5. s \in Seq(T) /\ Len(s) = q /\ \A i \in 1 .. q : s[i] = bytes[i]
    <3>1. s = [i \in 1 .. q |-> bytes[i]]
      BY <1>5, <1>6, <2>2, <2>3, <2>4
    <3>2. \A i \in 1 .. q : bytes[i] \in T
      BY <1>6, <1>8, <2>3
    <3>3. s \in [1 .. q -> T]
      BY <3>1, <3>2
    <3> HIDE DEF T
    <3> QED BY <2>2, <3>1, <3>3, FunctionIsSeq
  <2>6. Cell("torn") \in T
    OBVIOUS
  <2> HIDE DEF T
  <2>7. there = Append(s, Cell("torn"))
    BY <1>10, <2>3, <2>4
  <2>8. /\ there \in Seq(T) /\ Len(there) = q + 1
        /\ \A i \in 1 .. q : there[i] = s[i]
        /\ there[q + 1] = Cell("torn")
    BY <2>2, <2>5, <2>6, <2>7, AppendProperties
  <2>9. there[q + 1].kind = "torn"
    BY <2>8 DEF Cell
  <2>10. Head(there) = there[1]
    BY <2>2, <2>8
  <2>11. IsCutAt(there, bytes, q)
    BY <1>6, <2>2, <2>3, <2>5, <2>8, <2>10 DEF IsCutAt
  <2>12. K \in 0 .. Len(ms)
    BY <1>7, <2>1
  <2> QED BY <1>3, <2>2, <2>8, <2>9, <2>11, <2>12, CutBetween
<1>11. \/ \E n \in 0 .. l : there = SubSeq(bytes, 1, n)
       \/ \E n \in 1 .. l : bytes[n].kind = "header" /\ there = Append(SubSeq(bytes, 1, n - 1), Cell("torn"))
  <2>1. DOMAIN bytes = 1 .. l
    BY <1>5, <1>6
  <2> QED BY <1>2, <1>6, <2>1 DEF Cuts
<1> QED BY <1>9, <1>10, <1>11

-----------------------------------------------------------------------------
(* What is collected of the entries: the last control member and the last    *)
(* data member, if none is refused.                                          *)

IsResult(r) == \E a, b, c, d : r = [ok |-> a, metadata |-> b, control |-> c, data |-> d]

\* What one member changes, if it is not refused.
LEMMA MemberFacts ==
    ASSUME NEW r, IsResult(r), NEW e, NEW q, q = Member(r, e)
    PROVE  /\ IsResult(q) /\ (q.ok => r.ok /\ ~Refused(e))
           /\ r.ok /\ ~Refused(e) =>
                 /\ q.ok = r.ok
                 /\ q.metadata = IF e.base = "control.tar" THEN ControlOf(e) ELSE r.metadata
                 /\ q.data = IF e.base = "data.tar" THEN {e} ELSE r.data
<1>1. PICK a, b, c, d : r = [ok |-> a, metadata |-> b, control |-> c, data |-> d]
  BY DEF IsResult
<1>2. CASE ~r.ok \/ Refused(e)
  <2>1. q = Bad
    BY <1>2 DEF Member
  <2>2. q = [ok |-> FALSE, metadata |-> {}, control |-> {}, data |-> {}]
    BY <2>1 DEF Bad
  <2>3. IsResult(q)
    BY <2>2 DEF IsResult
  <2>4. ~q.ok
    BY <2>2
  <2> QED BY <1>2, <2>3, <2>4
<1>3. CASE r.ok /\ ~Refused(e)
  <2>1. CASE e.base = "control.tar"
    <3>1. PICK m : m = ControlOf(e)
      OBVIOUS
    <3>2. q = [r EXCEPT !.metadata = m, !.control = {e}]
      BY <1>3, <2>1, <3>1 DEF Member
    <3>3. q = [ok |-> a, metadata |-> m, control |-> {e}, data |-> d]
      BY <1>1, <3>2
    <3>4. IsResult(q)
      BY <3>3 DEF IsResult
    <3>5. q.ok = a /\ q.metadata = m /\ q.data = d /\ r.ok = a /\ r.data = d
      BY <1>1, <3>3
    <3>6. e.base # "data.tar"
      BY <2>1
    <3> QED BY <1>3, <2>1, <3>1, <3>4, <3>5, <3>6
  <2>2. CASE e.base = "data.tar"
    <3>1. e.base # "control.tar"
      BY <2>2
    <3>2. q = [r EXCEPT !.data = {e}]
      BY <1>3, <2>2, <3>1 DEF Member
    <3>3. q = [ok |-> a, metadata |-> b, control |-> c, data |-> {e}]
      BY <1>1, <3>2
    <3>4. IsResult(q)
      BY <3>3 DEF IsResult
    <3>5. q.ok = a /\ q.metadata = b /\ q.data = {e} /\ r.ok = a /\ r.metadata = b
      BY <1>1, <3>3
    <3> QED BY <1>3, <2>2, <3>1, <3>4, <3>5
  <2>3. CASE e.base # "control.tar" /\ e.base # "data.tar"
    <3>1. q = r
      BY <1>3, <2>3 DEF Member
    <3>2. q.ok = r.ok /\ q.metadata = r.metadata /\ q.data = r.data /\ IsResult(q)
      BY <3>1
    <3> QED BY <1>3, <2>3, <3>2
  <2> QED BY <2>1, <2>2, <2>3
<1> QED BY <1>2, <1>3

LastIs(es, n, base, i) == i \in 1 .. n /\ es[i].base = base /\ \A j \in i + 1 .. n : es[j].base # base
NoneIs(es, n, base) == \A i \in 1 .. n : es[i].base # base
IsCollected(es, r, n) ==
    /\ IsResult(r)
    /\ r.ok <=> \A i \in 1 .. n : ~Refused(es[i])
    /\ r.ok => /\ \/ r.metadata = {} /\ NoneIs(es, n, "control.tar")
                  \/ \E i : LastIs(es, n, "control.tar", i) /\ r.metadata = ControlOf(es[i])
               /\ \/ r.data = {} /\ NoneIs(es, n, "data.tar")
                  \/ \E i : LastIs(es, n, "data.tar", i) /\ r.data = {es[i]}

\* The last member of a name, with one more.
LEMMA LastGoesOn ==
    ASSUME NEW n \in Nat, NEW es, NEW base
    PROVE  /\ es[n + 1].base = base => LastIs(es, n + 1, base, n + 1)
           /\ es[n + 1].base # base =>
                 /\ NoneIs(es, n, base) => NoneIs(es, n + 1, base)
                 /\ \A i : LastIs(es, n, base, i) => LastIs(es, n + 1, base, i)
<1>1. n + 1 \in 1 .. n + 1 /\ (n + 1) + 1 .. n + 1 = {} /\ \A i \in 1 .. n + 1 : i = n + 1 \/ i \in 1 .. n
  OBVIOUS
<1>2. ASSUME es[n + 1].base # base, NoneIs(es, n, base) PROVE NoneIs(es, n + 1, base)
  BY <1>1, <1>2 DEF NoneIs
<1>3. ASSUME es[n + 1].base # base, NEW i, LastIs(es, n, base, i) PROVE LastIs(es, n + 1, base, i)
  <2>1. i \in 1 .. n + 1 /\ \A j \in i + 1 .. n + 1 : j = n + 1 \/ j \in i + 1 .. n
    BY <1>3 DEF LastIs
  <2> QED BY <1>3, <2>1 DEF LastIs
<1>4. ASSUME es[n + 1].base = base PROVE LastIs(es, n + 1, base, n + 1)
  BY <1>1, <1>4 DEF LastIs
<1> QED BY <1>2, <1>3, <1>4

\* Collect goes by the last of each.
LEMMA Collected ==
    ASSUME NEW es, Len(es) \in Nat
    PROVE  IsCollected(es, Collect(es), Len(es))
<1>1. PICK N \in Nat : N = Len(es)
  OBVIOUS
<1>2. PICK f : f = CollectRun(es, N)
  OBVIOUS
<1>3. f[0] = Nothing /\ \A n \in 0 .. N - 1 : f[n + 1] = Member(f[n], es[n + 1])
  BY <1>2, CollectSteps
<1> DEFINE G == {n \in 0 .. N : IsCollected(es, f[n], n)}
<1>4. 0 \in G
  <2>3. PICK r : r = f[0]
    OBVIOUS
  <2>4. IsResult(r) /\ r.ok /\ r.metadata = {} /\ r.data = {}
    <3>1. r = [ok |-> TRUE, metadata |-> {}, control |-> {}, data |-> {}]
      BY <1>3, <2>3 DEF Nothing
    <3>2. IsResult(r)
      BY <3>1 DEF IsResult
    <3>3. r.ok /\ r.metadata = {} /\ r.data = {}
      BY <3>1
    <3> QED BY <3>2, <3>3
  <2>5. NoneIs(es, 0, "control.tar") /\ NoneIs(es, 0, "data.tar") /\ \A i \in 1 .. 0 : ~Refused(es[i])
    BY DEF NoneIs
  <2>6. IsCollected(es, f[0], 0)
    BY <2>3, <2>4, <2>5 DEF IsCollected
  <2> QED BY <1>1, <2>6
<1>5. ASSUME NEW n \in 0 .. N - 1, n \in G PROVE n + 1 \in G
  <2>1. PICK z : z = n + 1
    OBVIOUS
  <2>2. n \in Nat /\ z \in 0 .. N /\ z \in 1 .. z /\ \A i \in 1 .. z : i = z \/ i \in 1 .. n
    BY <1>1, <2>1
  <2>3. \A i \in 1 .. n : i \in 1 .. z
    BY <2>1, <2>2
  <2>4. PICK r : r = f[n]
    OBVIOUS
  <2>5. PICK q : q = f[z]
    OBVIOUS
  <2>6. PICK e : e = es[z]
    OBVIOUS
  <2>7. q = Member(r, e)
    BY <1>3, <2>1, <2>4, <2>5, <2>6
  <2>8. IsCollected(es, r, n)
    BY <1>5, <2>4
  <2>9. IsResult(r)
    BY <2>8 DEF IsCollected
  <2>10. /\ IsResult(q) /\ (q.ok => r.ok /\ ~Refused(e))
         /\ r.ok /\ ~Refused(e) =>
               /\ q.ok = r.ok
               /\ q.metadata = IF e.base = "control.tar" THEN ControlOf(e) ELSE r.metadata
               /\ q.data = IF e.base = "data.tar" THEN {e} ELSE r.data
    BY <2>7, <2>9, MemberFacts
  <2>11. q.ok <=> \A i \in 1 .. z : ~Refused(es[i])
    <3>1. r.ok <=> \A i \in 1 .. n : ~Refused(es[i])
      BY <2>8 DEF IsCollected
    <3>2. (\A i \in 1 .. z : ~Refused(es[i])) <=> ~Refused(e) /\ \A i \in 1 .. n : ~Refused(es[i])
      BY <2>2, <2>3, <2>6
    <3> QED BY <2>10, <3>1, <3>2
  <2>12. ASSUME q.ok
         PROVE  \/ q.metadata = {} /\ NoneIs(es, z, "control.tar")
                \/ \E i : LastIs(es, z, "control.tar", i) /\ q.metadata = ControlOf(es[i])
    <3>1. /\ r.ok
          /\ q.metadata = IF e.base = "control.tar" THEN ControlOf(e) ELSE r.metadata
      BY <2>10, <2>12
    <3>2. \/ r.metadata = {} /\ NoneIs(es, n, "control.tar")
          \/ \E i : LastIs(es, n, "control.tar", i) /\ r.metadata = ControlOf(es[i])
      BY <2>8, <3>1 DEF IsCollected
    <3>3. e.base = "control.tar" => LastIs(es, z, "control.tar", z)
      BY <2>1, <2>2, <2>6, LastGoesOn
    <3>4. e.base # "control.tar" =>
             /\ NoneIs(es, n, "control.tar") => NoneIs(es, z, "control.tar")
             /\ \A i : LastIs(es, n, "control.tar", i) => LastIs(es, z, "control.tar", i)
      BY <2>1, <2>2, <2>6, LastGoesOn
    <3> QED BY <2>6, <3>1, <3>2, <3>3, <3>4
  <2>13. ASSUME q.ok
         PROVE  \/ q.data = {} /\ NoneIs(es, z, "data.tar")
                \/ \E i : LastIs(es, z, "data.tar", i) /\ q.data = {es[i]}
    <3>1. /\ r.ok
          /\ q.data = IF e.base = "data.tar" THEN {e} ELSE r.data
      BY <2>10, <2>13
    <3>2. \/ r.data = {} /\ NoneIs(es, n, "data.tar")
          \/ \E i : LastIs(es, n, "data.tar", i) /\ r.data = {es[i]}
      BY <2>8, <3>1 DEF IsCollected
    <3>3. e.base = "data.tar" => LastIs(es, z, "data.tar", z)
      BY <2>1, <2>2, <2>6, LastGoesOn
    <3>4. e.base # "data.tar" =>
             /\ NoneIs(es, n, "data.tar") => NoneIs(es, z, "data.tar")
             /\ \A i : LastIs(es, n, "data.tar", i) => LastIs(es, z, "data.tar", i)
      BY <2>1, <2>2, <2>6, LastGoesOn
    <3> QED BY <2>6, <3>1, <3>2, <3>3, <3>4
  <2>14. IsCollected(es, q, z)
    BY <2>10, <2>11, <2>12, <2>13 DEF IsCollected
  <2> QED BY <2>1, <2>2, <2>5, <2>14
<1>6. N \in G
  <2>1. \A n \in 0 .. N - 1 : n \in G => n + 1 \in G
    BY <1>5
  <2>2. N \in 0 .. N
    BY <1>1
  <2> HIDE DEF G
  <2> QED BY <1>1, <1>4, <2>1, <2>2, Induction
<1>7. Collect(es) = CollectRun(es, Len(es))[Len(es)]
  BY DEF Collect, CollectRun, CollectTo
<1> QED BY <1>1, <1>2, <1>6, <1>7

\* What parse accepts.
LEMMA ParseIs ==
    ASSUME NEW bytes, Parse(bytes).ok, NEW es, es = ReadArchive(bytes, Whole(bytes)).entries,
           NEW r, r = Collect(es)
    PROVE  Parse(bytes) = r /\ r.ok /\ r.metadata # {} /\ \A d \in r.data : Decompresses(d)
<1>1. ~Bad.ok
  BY DEF Bad
<1>2. PICK s : s = ReadArchive(bytes, Whole(bytes)).state
  OBVIOUS
<1>3. Parse(bytes) = IF s = "failed" \/ r.metadata = {} \/ \E d \in r.data : ~Decompresses(d) THEN Bad ELSE r
  BY <1>2 DEF Parse
<1> QED BY <1>1, <1>3

-----------------------------------------------------------------------------
(* A whole archive, and what is left of one.                                 *)

\* A whole archive is read to its end.
LEMMA WholeRead ==
    ASSUME NEW ms, Bodied(ms), NEW bytes, bytes = Archive(ms)
    PROVE  /\ ReadArchive(bytes, Whole(bytes)).state = "end"
           /\ ReadArchive(bytes, Whole(bytes)).entries = Shown(ms, Sizes(ms), Len(ms))
<1>1. PICK ends : IsLaid(bytes, ms, ends)
  BY ArchiveIsLaid
<1>2. PICK N : N = Len(ms)
  OBVIOUS
<1>3. PICK l : l = Len(bytes)
  OBVIOUS
<1>4. l \in Nat /\ N \in Nat /\ N < l /\ bytes # <<>> /\ Head(bytes) = bytes[1] /\ ends[N] = l
  BY <1>1, <1>2, <1>3, BytesLaid
<1>5. IsCutAt(bytes, bytes, l)
  <2>1. l \in 1 .. l /\ l <= l
    BY <1>4
  <2> QED BY <1>3, <1>4, <2>1 DEF IsCutAt
<1>6. PICK p \in Nat : p = ends[N] + 1
  BY <1>4
<1>7. ReadRun(bytes, Whole(bytes), l)[N] = Reads(p, Shown(ms, Sizes(ms), N))
  <2>1. N \in 0 .. N /\ ends[N] <= l
    BY <1>4
  <2> QED BY <1>1, <1>2, <1>3, <1>5, <1>6, <2>1, CutShowsWhole
<1>8. N \in 0 .. l - 1 /\ p > l
  BY <1>4, <1>6
<1> QED BY <1>2, <1>3, <1>4, <1>6, <1>7, <1>8, ReaderStops

LEMMA ClippedIs ==
    ASSUME NEW m, NEW b \in Nat
    PROVE  /\ Clipped(m, b).base = m.base /\ Clipped(m, b).ext = m.ext
           /\ Clipped(m, b).size = Len(m.body) /\ Len(Clipped(m, b).body) = b
<1>1. PICK s : s = [j \in 1 .. b |-> m.body[j]]
  OBVIOUS
<1>2. s \in [1 .. b -> {m.body[j] : j \in 1 .. b}]
  BY <1>1
<1>3. Len(s) = b
  BY <1>2, FunctionIsSeq
<1>4. PICK z : z = Len(m.body)
  OBVIOUS
<1>5. Clipped(m, b) = [base |-> m.base, ext |-> m.ext, size |-> z, body |-> s]
  BY <1>1, <1>4 DEF Clipped
<1> QED BY <1>3, <1>4, <1>5

\* Each entry is of the member at its place.
AreClipped(es, ms) ==
    /\ Len(es) \in 0 .. Len(ms)
    /\ \A i \in 1 .. Len(es) : \E b \in Nat : b <= Len(ms[i].body) /\ es[i] = Clipped(ms[i], b)

LEMMA SizesClipped ==
    ASSUME NEW ms, Bodied(ms), NEW K \in 0 .. Len(ms)
    PROVE  /\ Len(Shown(ms, Sizes(ms), K)) = K
           /\ \A i \in 1 .. K : Shown(ms, Sizes(ms), K)[i] = Clipped(ms[i], Len(ms[i].body))
<1>1. PICK N \in Nat : N = Len(ms)
  BY SequenceIsSeq DEF Bodied
<1>2. K \in Nat /\ \A i \in 1 .. K : i \in 1 .. N
  BY <1>1
<1>3. \A i \in 1 .. K : Sizes(ms)[i] = Len(ms[i].body)
  BY <1>1, <1>2 DEF Sizes
<1>4. \A i \in 1 .. K : Shown(ms, Sizes(ms), K)[i] = Clipped(ms[i], Sizes(ms)[i])
  BY DEF Shown
<1> QED BY <1>2, <1>3, <1>4, ShownIs

\* A cut archive shows a part of the members, and of the last one a part.
LEMMA CutEntries == ASSUME NEW ms, Bodied(ms), NEW es, IsCutShort(es, ms) PROVE AreClipped(es, ms)
<1>1. PICK N \in Nat : N = Len(ms)
  BY SequenceIsSeq DEF Bodied
<1>2. PICK K \in 0 .. N : \/ es = Shown(ms, Sizes(ms), K)
                          \/ K < N /\ \E b \in 0 .. Len(ms[K + 1].body) :
                                 es = Append(Shown(ms, Sizes(ms), K), Clipped(ms[K + 1], b))
  BY <1>1 DEF IsCutShort
<1>3. PICK s : s = Shown(ms, Sizes(ms), K)
  OBVIOUS
<1>4. Len(s) = K /\ \A i \in 1 .. K : s[i] = Clipped(ms[i], Len(ms[i].body))
  BY <1>1, <1>2, <1>3, SizesClipped
<1>5. \A i \in 1 .. K : Len(ms[i].body) \in Nat /\ Len(ms[i].body) <= Len(ms[i].body)
  <2>1. \A i \in 1 .. K : i \in 1 .. N
    BY <1>1, <1>2
  <2>2. \A i \in 1 .. K : Len(ms[i].body) \in Nat
    BY <1>1, <2>1, MembersBodied
  <2> QED BY <2>2
<1>6. CASE es = s
  BY <1>1, <1>2, <1>4, <1>5, <1>6 DEF AreClipped
<1>7. CASE es # s
  <2>1. PICK z : z = K + 1
    OBVIOUS
  <2>2. z \in 1 .. N /\ z \in 0 .. N /\ K \in Nat
    BY <1>1, <1>2, <1>3, <1>7, <2>1
  <2>3. PICK a \in Nat : a = Len(ms[z].body)
    BY <1>1, <2>2, MembersBodied
  <2>4. PICK b \in 0 .. a : es = Append(s, Clipped(ms[z], b))
    BY <1>2, <1>3, <1>7, <2>1, <2>3
  <2> DEFINE S == {s[i] : i \in 1 .. K} \cup {Clipped(ms[z], b)}
  <2>5. s \in Seq(S)
    <3>1. s = [i \in 1 .. K |-> s[i]]
      BY <1>3 DEF Shown
    <3>2. [i \in 1 .. K |-> s[i]] \in [1 .. K -> S]
      OBVIOUS
    <3>3. s \in [1 .. K -> S]
      BY <3>1, <3>2
    <3> HIDE DEF S
    <3> QED BY <2>2, <3>3, FunctionIsSeq
  <2>6. Clipped(ms[z], b) \in S
    OBVIOUS
  <2> HIDE DEF S
  <2>7. /\ Len(es) = K + 1 /\ \A i \in 1 .. K : es[i] = s[i]
        /\ es[K + 1] = Clipped(ms[z], b)
    BY <1>4, <2>4, <2>5, <2>6, AppendProperties
  <2>8. \A i \in 1 .. z : i = z \/ i \in 1 .. K
    BY <2>1, <2>2
  <2>9. b \in Nat /\ b <= Len(ms[z].body)
    BY <2>3, <2>4
  <2>10. ASSUME NEW i \in 1 .. z PROVE \E c \in Nat : c <= Len(ms[i].body) /\ es[i] = Clipped(ms[i], c)
    BY <1>4, <1>5, <2>1, <2>7, <2>8, <2>9
  <2>11. Len(es) = z
    BY <2>1, <2>7
  <2> QED BY <1>1, <2>2, <2>10, <2>11 DEF AreClipped
<1> QED BY <1>6, <1>7

\* An entry that could be decompressed is of all of its member.
LEMMA DecompressedIsWhole ==
    ASSUME NEW m, m.ext # "", NEW b \in Nat, Decompresses(Clipped(m, b))
    PROVE  b = Len(m.body)
<1>1. PICK e : e = Clipped(m, b)
  OBVIOUS
<1>2. e.ext # "" /\ e.size = Len(m.body) /\ Len(e.body) = b
  BY <1>1, ClippedIs
<1>3. Len(e.body) = e.size
  BY <1>1, <1>2 DEF Decompresses
<1> QED BY <1>2, <1>3

LEMMA OneOf ==
    ASSUME NEW n \in Nat, NEW S \in SUBSET (1 .. n), Cardinality(S) = 1
    PROVE  \E c \in 1 .. n : S = {c}
<1>1. IsFiniteSet(1 .. n)
  BY FS_Interval
<1>2. IsFiniteSet(S)
  BY <1>1, FS_Subset
<1> QED BY <1>2, FS_Singleton

\* CutIsNoticed (DebArchive), for every archive and every cut.
LEMMA CutNoticed == ASSUME NEW ms, Bodied(ms) PROVE CutIsNoticed(ms)
<1>1. PICK N \in Nat : N = Len(ms) /\ DOMAIN ms = 1 .. N
  BY SequenceIsSeq DEF Bodied
<1>2. PICK bytes : bytes = Archive(ms)
  OBVIOUS
<1> DEFINE controls == {i \in 1 .. N : ms[i].base = "control.tar"}
           datas == {i \in 1 .. N : ms[i].base = "data.tar"}
<1>3. SUFFICES ASSUME \A i \in 1 .. N : ms[i].base # "debian-binary" => ms[i].ext # "",
                      Cardinality(controls) = 1, Cardinality(datas) = 1, Parse(bytes).ok,
                      NEW there \in Cuts(bytes), Parse(there).ok
               PROVE  /\ Parse(there).metadata = Parse(bytes).metadata
                      /\ Entries(Parse(there)) \in {{}, Entries(Parse(bytes))}
  BY <1>1, <1>2 DEF CutIsNoticed
<1>4. PICK c \in 1 .. N : controls = {c}
  <2>1. controls \in SUBSET (1 .. N)
    OBVIOUS
  <2> HIDE DEF controls
  <2> QED BY <1>1, <1>3, <2>1, OneOf
<1>5. PICK d \in 1 .. N : datas = {d}
  <2>1. datas \in SUBSET (1 .. N)
    OBVIOUS
  <2> HIDE DEF datas
  <2> QED BY <1>1, <1>3, <2>1, OneOf
<1>6. \A i \in 1 .. N : (ms[i].base = "control.tar" <=> i = c) /\ (ms[i].base = "data.tar" <=> i = d)
  BY <1>4, <1>5
<1>7. ms[c].ext # "" /\ ms[d].ext # ""
  BY <1>3, <1>6
<1> HIDE DEF controls, datas
<1>8. PICK W : W = Shown(ms, Sizes(ms), N)
  OBVIOUS
<1>9. Len(W) = N /\ \A i \in 1 .. N : W[i] = Clipped(ms[i], Len(ms[i].body))
  <2>1. N \in 0 .. N
    BY <1>1
  <2> QED BY <1>1, <1>8, <2>1, SizesClipped
<1>10. PICK R : R = Collect(W)
  OBVIOUS
<1>11. Parse(bytes) = R /\ R.ok /\ R.metadata # {}
  <2>1. W = ReadArchive(bytes, Whole(bytes)).entries
    BY <1>1, <1>2, <1>8, WholeRead
  <2> QED BY <1>3, <1>10, <2>1, ParseIs
<1>12. PICK es : es = ReadArchive(there, Whole(there)).entries
  OBVIOUS
<1>13. PICK r : r = Collect(es)
  OBVIOUS
<1>14. Parse(there) = r /\ r.ok /\ r.metadata # {} /\ \A x \in r.data : Decompresses(x)
  BY <1>3, <1>12, <1>13, ParseIs
<1>15. there # <<>>
  <2>1. ASSUME there = <<>> PROVE FALSE
    <3>1. ReadArchive(there, Whole(there)).entries = <<>>
      <4>1. ReadArchive(there, Whole(there)) = ReadRun(there, Whole(there), Len(there))[Len(there)]
        BY DEF ReadArchive, ReadRun, ReadTo
      <4>2. Len(there) = 0
        BY <2>1
      <4>3. ReadRun(there, Whole(there), 0)[0] = NewReader(there)
        <5>1. PICK f : f = ReadRun(there, Whole(there), 0)
          OBVIOUS
        <5> QED BY <5>1, ReadSteps
      <4>4. NewReader(there).entries = <<>>
        BY DEF NewReader
      <4> QED BY <4>1, <4>2, <4>3, <4>4
    <3>2. Len(es) = 0
      BY <1>12, <3>1
    <3>3. IsCollected(es, r, 0)
      BY <1>13, <3>2, Collected
    <3>4. r.metadata = {}
      BY <1>14, <3>3 DEF IsCollected, LastIs
    <3> QED BY <1>14, <3>4
  <2> QED BY <2>1
<1>16. AreClipped(es, ms)
  <2>1. IsCutShort(es, ms)
    BY <1>2, <1>12, <1>15, ReadsCut
  <2> QED BY <2>1, CutEntries
<1>17. PICK L \in 0 .. N : L = Len(es)
  BY <1>1, <1>16 DEF AreClipped
<1>18. ASSUME NEW i \in 1 .. L
       PROVE  /\ i \in 1 .. N /\ es[i].base = ms[i].base /\ W[i].base = ms[i].base
              /\ ms[i].ext # "" /\ Decompresses(es[i]) => es[i] = W[i]
  <2>1. i \in 1 .. N
    BY <1>1, <1>17
  <2>2. PICK b \in Nat : b <= Len(ms[i].body) /\ es[i] = Clipped(ms[i], b)
    BY <1>16, <1>17 DEF AreClipped
  <2>3. es[i].base = ms[i].base
    BY <2>2, ClippedIs
  <2>4. PICK a \in Nat : a = Len(ms[i].body)
    BY <1>1, <2>1, MembersBodied
  <2>5. W[i] = Clipped(ms[i], a)
    BY <1>9, <2>1, <2>4
  <2>6. W[i].base = ms[i].base
    BY <2>5, ClippedIs
  <2>7. ASSUME ms[i].ext # "", Decompresses(es[i]) PROVE es[i] = W[i]
    <3>1. b = a
      BY <2>2, <2>4, <2>7, DecompressedIsWhole
    <3> QED BY <2>2, <2>5, <3>1
  <2> QED BY <2>1, <2>3, <2>6, <2>7
<1>19. \A i \in 1 .. N : W[i].base = ms[i].base
  <2>1. ASSUME NEW i \in 1 .. N PROVE W[i].base = ms[i].base
    <3>1. PICK a \in Nat : a = Len(ms[i].body)
      BY <1>1, MembersBodied
    <3>2. W[i] = Clipped(ms[i], a)
      BY <1>9, <3>1
    <3> QED BY <3>2, ClippedIs
  <2> QED BY <2>1
<1>20. IsCollected(W, R, N) /\ IsCollected(es, r, L)
  <2>1. Len(W) \in Nat /\ Len(es) \in Nat
    BY <1>1, <1>9, <1>17
  <2>2. IsCollected(W, R, N)
    BY <1>9, <1>10, <2>1, Collected
  <2>3. IsCollected(es, r, L)
    BY <1>13, <1>17, <2>1, Collected
  <2> QED BY <2>2, <2>3
<1>21. R.metadata = ControlOf(W[c])
  <2>1. PICK i : LastIs(W, N, "control.tar", i) /\ R.metadata = ControlOf(W[i])
    BY <1>11, <1>20 DEF IsCollected
  <2>2. i = c
    BY <1>6, <1>19, <2>1 DEF LastIs
  <2> QED BY <2>1, <2>2
<1>22. R.data = {W[d]}
  <2>1. ~NoneIs(W, N, "data.tar")
    BY <1>6, <1>19 DEF NoneIs
  <2>2. PICK i : LastIs(W, N, "data.tar", i) /\ R.data = {W[i]}
    BY <1>11, <1>20, <2>1 DEF IsCollected
  <2>3. i = d
    BY <1>6, <1>19, <2>2 DEF LastIs
  <2> QED BY <2>2, <2>3
<1>23. r.metadata = R.metadata
  <2>1. PICK i : LastIs(es, L, "control.tar", i) /\ r.metadata = ControlOf(es[i])
    BY <1>14, <1>20 DEF IsCollected
  <2>2. i \in 1 .. L /\ es[i].base = "control.tar"
    BY <2>1 DEF LastIs
  <2>3. i = c
    BY <1>6, <1>18, <2>2
  <2>4. ~Refused(es[i])
    BY <1>14, <1>20, <2>2 DEF IsCollected
  <2>5. Decompresses(es[i])
    BY <2>2, <2>4 DEF Refused
  <2>6. es[i] = W[i]
    BY <1>7, <1>18, <2>2, <2>3, <2>5
  <2> QED BY <1>21, <2>1, <2>3, <2>6
<1>24. r.data = {} \/ r.data = R.data
  <2>1. CASE r.data # {}
    <3>1. PICK i : LastIs(es, L, "data.tar", i) /\ r.data = {es[i]}
      BY <1>14, <1>20, <2>1 DEF IsCollected
    <3>2. i \in 1 .. L /\ es[i].base = "data.tar"
      BY <3>1 DEF LastIs
    <3>3. i = d
      BY <1>6, <1>18, <3>2
    <3>4. Decompresses(es[i])
      BY <1>14, <3>1
    <3>5. es[i] = W[i]
      BY <1>7, <1>18, <3>2, <3>3, <3>4
    <3> QED BY <1>22, <3>1, <3>3, <3>5
  <2> QED BY <2>1
<1>25. Entries(r) \in {{}, Entries(R)}
  <2>1. CASE r.data = {}
    <3>1. Entries(r) = {}
      BY <2>1 DEF Entries
    <3> QED BY <3>1
  <2>2. CASE r.data = R.data
    <3>1. Entries(r) = Entries(R)
      BY <2>2 DEF Entries
    <3> QED BY <3>1
  <2> QED BY <1>24, <2>1, <2>2
<1> QED BY <1>11, <1>14, <1>23, <1>25

\* MetadataAgrees (DebArchive), for every archive.
LEMMA MetadataFound == ASSUME NEW ms, Bodied(ms) PROVE MetadataAgrees(ms)
<1>1. PICK N \in Nat : N = Len(ms) /\ DOMAIN ms = 1 .. N
  BY SequenceIsSeq DEF Bodied
<1>2. PICK bytes : bytes = Archive(ms)
  OBVIOUS
<1>3. SUFFICES ASSUME Parse(bytes).ok,
                      \A i, j \in 1 .. N : i < j /\ ms[i].base = "data.tar" => ms[j].base # "control.tar"
               PROVE  ParseMetadata(bytes) = Parse(bytes).metadata
  BY <1>1, <1>2 DEF MetadataAgrees
<1>4. PICK W : W = Shown(ms, Sizes(ms), N)
  OBVIOUS
<1>5. Len(W) = N /\ \A i \in 1 .. N : W[i] = Clipped(ms[i], Len(ms[i].body))
  <2>1. N \in 0 .. N
    BY <1>1
  <2> QED BY <1>1, <1>4, <2>1, SizesClipped
<1>6. ReadArchive(bytes, Whole(bytes)).state = "end" /\ ReadArchive(bytes, Whole(bytes)).entries = W
  BY <1>1, <1>2, <1>4, WholeRead
<1>7. PICK R : R = Collect(W)
  OBVIOUS
<1>8. Parse(bytes) = R /\ R.ok /\ R.metadata # {}
  BY <1>3, <1>6, <1>7, ParseIs
<1>9. IsCollected(W, R, N)
  <2>1. Len(W) \in Nat
    BY <1>1, <1>5
  <2> QED BY <1>5, <1>7, <2>1, Collected
<1>10. PICK i : LastIs(W, N, "control.tar", i) /\ R.metadata = ControlOf(W[i])
  BY <1>8, <1>9 DEF IsCollected
<1>11. PICK P : P = ToData(W)
  OBVIOUS
<1>12. ParseMetadata(bytes) = Collect(P).metadata
  BY <1>6, <1>11 DEF ParseMetadata
<1>13. \A j \in 1 .. N : W[j].base = ms[j].base
  <2>1. ASSUME NEW j \in 1 .. N PROVE W[j].base = ms[j].base
    <3>1. PICK a \in Nat : a = Len(ms[j].body)
      BY <1>1, MembersBodied
    <3>2. W[j] = Clipped(ms[j], a)
      BY <1>5, <3>1
    <3> QED BY <3>2, ClippedIs
  <2> QED BY <2>1
<1>14. i \in 1 .. N /\ W[i].base = "control.tar" /\ \A j \in i + 1 .. N : W[j].base # "control.tar"
  BY <1>10 DEF LastIs
<1> DEFINE at == {j \in DOMAIN W : W[j].base = "data.tar"}
           S == {W[j] : j \in 1 .. N}
<1>15. DOMAIN W = 1 .. N /\ W \in Seq(S)
  <2>1. W = [j \in 1 .. N |-> W[j]]
    BY <1>4 DEF Shown
  <2>2. [j \in 1 .. N |-> W[j]] \in [1 .. N -> S]
    OBVIOUS
  <2>3. W \in [1 .. N -> S]
    BY <2>1, <2>2
  <2> HIDE DEF S
  <2> QED BY <1>1, <2>3, FunctionIsSeq
<1>16. CASE at = {}
  <2>1. P = W
    BY <1>11, <1>16 DEF ToData
  <2> QED BY <1>7, <1>8, <1>12, <2>1
<1>17. CASE at # {}
  <2>1. at \in SUBSET Nat /\ at \in SUBSET Int
    BY <1>15
  <2>2. PICK d \in at : \A j \in at : d <= j
    <3> HIDE DEF at
    <3> QED BY <1>17, <2>1, LeastExists
  <2>3. Min(at) = d
    <3> HIDE DEF at
    <3> QED BY <2>1, <2>2, LeastIsMin
  <2>4. P = SubSeq(W, 1, Min(at) - 1)
    BY <1>11, <1>17 DEF ToData
  <2>5. d \in 1 .. N /\ W[d].base = "data.tar"
    BY <1>15, <2>2
  <2> HIDE DEF at, S
  <2>6. PICK h \in 0 .. N : h = d - 1
    BY <1>1, <2>5
  <2>7. P = [j \in 1 .. h |-> W[j]]
    BY <1>1, <1>5, <1>15, <2>3, <2>4, <2>5, <2>6
  <2>8. h \in Nat /\ \A j \in 1 .. h : j \in 1 .. N
    BY <1>1, <2>6
  <2>9. Len(P) = h /\ \A j \in 1 .. h : P[j] = W[j]
    <3>1. P \in [1 .. h -> {W[j] : j \in 1 .. h}]
      BY <2>7
    <3> QED BY <2>7, <2>8, <3>1, FunctionIsSeq
  <2>10. PICK r : r = Collect(P)
    OBVIOUS
  <2>11. IsCollected(P, r, h)
    <3>1. Len(P) \in Nat
      BY <2>8, <2>9
    <3> QED BY <2>9, <2>10, <3>1, Collected
  <2>12. r.ok
    <3>1. \A j \in 1 .. N : ~Refused(W[j])
      BY <1>8, <1>9 DEF IsCollected
    <3>2. \A j \in 1 .. h : ~Refused(P[j])
      BY <2>8, <2>9, <3>1
    <3> QED BY <2>11, <3>2 DEF IsCollected
  <2>13. i \in 1 .. h
    <3>1. ms[d].base = "data.tar" /\ ms[i].base = "control.tar"
      BY <1>13, <1>14, <2>5
    <3>2. ~(d < i) /\ d # i
      BY <1>3, <1>14, <2>5, <3>1
    <3> QED BY <1>1, <1>14, <2>5, <2>6, <3>2
  <2>14. P[i].base = "control.tar"
    BY <1>14, <2>9, <2>13
  <2>15. PICK k : LastIs(P, h, "control.tar", k) /\ r.metadata = ControlOf(P[k])
    <3>1. ~NoneIs(P, h, "control.tar")
      BY <2>13, <2>14 DEF NoneIs
    <3> QED BY <2>11, <2>12, <3>1 DEF IsCollected
  <2>16. k \in 1 .. h /\ P[k].base = "control.tar" /\ \A j \in k + 1 .. h : P[j].base # "control.tar"
    BY <2>15 DEF LastIs
  <2>17. ~(k < i)
    <3>1. k < i => i \in k + 1 .. h
      BY <2>8, <2>13, <2>16
    <3> QED BY <2>14, <2>16, <3>1
  <2>18. ~(i < k)
    <3>1. i < k => k \in i + 1 .. N
      BY <1>1, <1>14, <2>8, <2>13, <2>16
    <3>2. W[k].base = "control.tar"
      BY <2>9, <2>16
    <3> QED BY <1>14, <3>1, <3>2
  <2>19. k = i
    BY <2>13, <2>16, <2>17, <2>18
  <2>20. P[k] = W[i]
    BY <2>9, <2>13, <2>19
  <2> QED BY <1>8, <1>10, <1>12, <2>10, <2>15, <2>20
<1> QED BY <1>16, <1>17

-----------------------------------------------------------------------------
(* A part of each member.                                                    *)

\* MembersAligned (DebArchive), for every archive and every amount.
LEMMA Aligned ==
    ASSUME NEW ms, Bodied(ms), NEW takes, \A i \in 1 .. Len(ms) : takes[i] \in Nat
    PROVE  MembersAligned(ms, takes)
<1>1. PICK N \in Nat : N = Len(ms) /\ DOMAIN ms = 1 .. N
  BY SequenceIsSeq DEF Bodied
<1>2. PICK w : w = Amounts(ms, takes)
  OBVIOUS
<1>3. PICK r : r = ReadArchive(Archive(ms), takes)
  OBVIOUS
<1>4. PICK es : es = Shown(ms, w, N)
  OBVIOUS
<1>5. r.state = "end" /\ r.entries = es
  BY <1>1, <1>2, <1>3, <1>4, ReadsAll
<1>6. Len(es) = N /\ \A i \in 1 .. N : es[i] = Clipped(ms[i], w[i])
  <2>1. Len(es) = N
    BY <1>4, ShownIs
  <2> QED BY <1>4, <2>1 DEF Shown
<1>7. ASSUME NEW i \in 1 .. N
      PROVE  /\ es[i].base = ms[i].base
             /\ es[i].body = SubSeq(ms[i].body, 1, Len(es[i].body))
             /\ Len(es[i].body) = Min({takes[i], Len(ms[i].body)})
  <2>1. PICK body : body = ms[i].body
    OBVIOUS
  <2>2. IsSequence(body)
    BY <1>1, <2>1, MembersBodied
  <2>3. PICK s \in Nat : s = Len(body)
    BY <2>2, SequenceIsSeq
  <2>4. body \in Seq({body[j] : j \in 1 .. s})
    BY <2>2, <2>3, SequenceIsSeq
  <2>5. PICK t \in Nat : t = takes[i]
    BY <1>1
  <2>6. w[i] = IF t <= s THEN t ELSE s
    BY <1>1, <1>2, <2>1, <2>3, <2>5 DEF Amounts
  <2>7. PICK n \in Nat : n = w[i]
    BY <2>3, <2>5, <2>6
  <2>8. n <= s /\ n <= t /\ n \in {t, s}
    BY <2>3, <2>5, <2>6, <2>7
  <2>9. es[i].base = ms[i].base /\ Len(es[i].body) = n
    BY <1>6, <2>7, ClippedIs
  <2>10. es[i].body = [j \in 1 .. n |-> body[j]]
    <3>1. PICK z : z = Len(ms[i].body)
      OBVIOUS
    <3>2. es[i] = [base |-> ms[i].base, ext |-> ms[i].ext, size |-> z, body |-> [j \in 1 .. n |-> body[j]]]
      BY <1>6, <2>1, <2>7, <3>1 DEF Clipped
    <3> QED BY <3>2
  <2>11. SubSeq(body, 1, n) = [j \in 1 .. n |-> body[j]]
    BY <2>3, <2>4, <2>7, <2>8
  <2>12. Min({t, s}) = n
    <3>1. {t, s} \in SUBSET Int /\ n \in {t, s} /\ \A x \in {t, s} : n <= x
      BY <2>3, <2>5, <2>8
    <3> QED BY <3>1, LeastIsMin
  <2> QED BY <2>1, <2>3, <2>5, <2>9, <2>10, <2>11, <2>12
<1> QED BY <1>1, <1>3, <1>5, <1>6, <1>7 DEF MembersAligned

-----------------------------------------------------------------------------
(* The payload.                                                              *)

\* A path that is not a link is opened itself.
LEMMA OpenedInPlace ==
    ASSUME NEW fs, IsFiniteSet(DOMAIN fs), NEW path, ~IsLink(fs, path)
    PROVE  Opened(fs, path) = path
<1>1. PICK m \in Nat : m = Cardinality(DOMAIN fs)
  BY FS_CardinalityType
<1>2. PICK f : f = OpenRun(fs, path, m)
  OBVIOUS
<1>3. f[0] = path /\ \A n \in 0 .. m - 1 : f[n + 1] = IF IsLink(fs, f[n]) THEN fs[f[n]].content ELSE f[n]
  BY <1>2, OpenSteps
<1> DEFINE G == {n \in 0 .. m : f[n] = path}
<1>4. 0 \in G
  BY <1>1, <1>3
<1>5. ASSUME NEW n \in 0 .. m - 1, n \in G PROVE n + 1 \in G
  BY <1>1, <1>3, <1>5
<1>6. m \in G
  <2>1. \A n \in 0 .. m - 1 : n \in G => n + 1 \in G
    BY <1>5
  <2>2. m \in 0 .. m
    BY <1>1
  <2> HIDE DEF G
  <2> QED BY <1>1, <1>4, <2>1, <2>2, Induction
<1>7. Opened(fs, path) = f[m]
  BY <1>1, <1>2 DEF Opened, OpenRun, OpenTo
<1> QED BY <1>6, <1>7

\* What is extracted of the first n entries, and what they have in memory.
FilesOf(fs) == {p \in DOMAIN fs : fs[p].type = "file"}
IsExtracted(tar, fs, contents, n) ==
    /\ IsFiniteSet(DOMAIN fs)
    /\ \A p \in DOMAIN fs : \E i \in 1 .. n : tar[i].path = p /\ tar[i].type = fs[p].type
    /\ contents = [p \in FilesOf(fs) |-> fs[p].content]

LEMMA StillExtracted ==
    ASSUME NEW tar, NEW fs, NEW contents, NEW n \in Nat, IsExtracted(tar, fs, contents, n)
    PROVE  IsExtracted(tar, fs, contents, n + 1)
<1>1. \A i \in 1 .. n : i \in 1 .. n + 1
  OBVIOUS
<1> QED BY <1>1 DEF IsExtracted

\* One entry extracted, and the same one read into memory.
LEMMA EntryExtracted ==
    ASSUME NEW tar, NEW fs, NEW contents, NEW n \in Nat, IsExtracted(tar, fs, contents, n),
           NEW e, e = tar[n + 1],
           \A i, j \in 1 .. n + 1 : tar[i].type = "link" /\ tar[j].type # "link" => tar[i].path # tar[j].path
    PROVE  \E g : /\ ExtractEntry([ok |-> TRUE, fs |-> fs], e) = [ok |-> TRUE, fs |-> g]
                  /\ IsExtracted(tar, g, Keep(contents, e), n + 1)
<1>1. n + 1 \in 1 .. n + 1 /\ \A i \in 1 .. n : i \in 1 .. n + 1
  OBVIOUS
<1>2. PICK r : r = [ok |-> TRUE, fs |-> fs]
  OBVIOUS
<1>3. r.ok /\ r.fs = fs
  BY <1>2
<1>4. CASE e.type \notin {"file", "link"}
  <2>1. ExtractEntry(r, e) = r
    BY <1>4 DEF ExtractEntry
  <2>2. Keep(contents, e) = contents
    BY <1>4 DEF Keep
  <2> QED BY <1>2, <2>1, <2>2, StillExtracted
<1> DEFINE g == Put(fs, e.path, e)
<1>5. /\ DOMAIN g = DOMAIN fs \cup {e.path}
      /\ g[e.path].type = e.type /\ g[e.path].content = e.content
      /\ \A p \in DOMAIN fs : p # e.path => g[p] = fs[p]
  <2>1. g = Put(fs, e.path, e)
    OBVIOUS
  <2> HIDE DEF g
  <2> QED BY <2>1 DEF Put
<1>6. IsFiniteSet(DOMAIN g)
  <2>1. IsFiniteSet(DOMAIN fs)
    BY DEF IsExtracted
  <2> HIDE DEF g
  <2> QED BY <1>5, <2>1, FS_AddElement
<1>7. \A p \in DOMAIN g : \E i \in 1 .. n + 1 : tar[i].path = p /\ tar[i].type = g[p].type
  <2> HIDE DEF g
  <2>1. \A p \in DOMAIN fs : \E i \in 1 .. n + 1 : tar[i].path = p /\ tar[i].type = fs[p].type
    BY <1>1 DEF IsExtracted
  <2>2. TAKE p \in DOMAIN g
  <2>3. CASE p = e.path
    BY <1>1, <1>5, <2>3
  <2>4. CASE p # e.path
    BY <1>5, <2>1, <2>2, <2>4
  <2> QED BY <2>3, <2>4
<1>8. contents = [p \in FilesOf(fs) |-> fs[p].content]
  BY DEF IsExtracted
<1>9. CASE e.type = "link"
  <2>1. ExtractEntry(r, e) = [r EXCEPT !.fs = g]
    <3>1. ExtractEntry(r, e) = [r EXCEPT !.fs = Put(@, e.path, e)]
      BY <1>3, <1>9 DEF ExtractEntry
    <3> QED BY <1>3, <3>1
  <2>2. ExtractEntry(r, e) = [ok |-> TRUE, fs |-> g]
    <3> HIDE DEF g
    <3>1. PICK x : x = [r EXCEPT !.fs = g]
      OBVIOUS
    <3>2. x = [ok |-> TRUE, fs |-> g]
      BY <1>2, <3>1
    <3> QED BY <2>1, <3>1, <3>2
  <2>3. e.path \notin FilesOf(fs)
    <3>1. ASSUME e.path \in FilesOf(fs) PROVE FALSE
      <4>1. PICK j \in 1 .. n : tar[j].path = e.path /\ tar[j].type = "file"
        BY <3>1 DEF IsExtracted, FilesOf
      <4> QED BY <1>1, <1>9, <4>1
    <3> QED BY <3>1
  <2>4. FilesOf(g) = FilesOf(fs) /\ \A p \in FilesOf(fs) : g[p] = fs[p]
    <3> HIDE DEF g
    <3>1. \A p \in FilesOf(fs) : p # e.path /\ p \in DOMAIN fs
      BY <2>3 DEF FilesOf
    <3>2. \A p \in FilesOf(g) : p # e.path /\ p \in DOMAIN fs
      BY <1>5, <1>9 DEF FilesOf
    <3> QED BY <1>5, <3>1, <3>2 DEF FilesOf
  <2>5. Keep(contents, e) = contents
    BY <1>9 DEF Keep
  <2>6. contents = [p \in FilesOf(g) |-> g[p].content]
    <3> HIDE DEF g
    <3> QED BY <1>8, <2>4
  <2>7. IsExtracted(tar, g, Keep(contents, e), n + 1)
    BY <1>6, <1>7, <2>5, <2>6 DEF IsExtracted
  <2> QED BY <1>2, <2>2, <2>7
<1>10. CASE e.type = "file"
  <2>1. ~IsLink(fs, e.path)
    <3>1. ASSUME IsLink(fs, e.path) PROVE FALSE
      <4>1. PICK j \in 1 .. n : tar[j].path = e.path /\ tar[j].type = "link"
        BY <3>1 DEF IsExtracted, IsLink
      <4> QED BY <1>1, <1>10, <4>1
    <3> QED BY <3>1
  <2>2. Opened(fs, e.path) = e.path
    BY <2>1, OpenedInPlace DEF IsExtracted
  <2>3. ExtractEntry(r, e) = [r EXCEPT !.fs = g]
    <3>1. ExtractEntry(r, e) = [r EXCEPT !.fs = Put(@, e.path, e)]
      BY <1>3, <1>10, <2>1, <2>2 DEF ExtractEntry
    <3> QED BY <1>3, <3>1
  <2>4. ExtractEntry(r, e) = [ok |-> TRUE, fs |-> g]
    <3> HIDE DEF g
    <3>1. PICK x : x = [r EXCEPT !.fs = g]
      OBVIOUS
    <3>2. x = [ok |-> TRUE, fs |-> g]
      BY <1>2, <3>1
    <3> QED BY <2>3, <3>1, <3>2
  <2>5. FilesOf(g) = FilesOf(fs) \cup {e.path}
    <3> HIDE DEF g
    <3>1. \A p \in FilesOf(g) : p = e.path \/ p \in FilesOf(fs)
      BY <1>5 DEF FilesOf
    <3>2. \A p \in FilesOf(fs) : p \in FilesOf(g)
      BY <1>5, <1>10 DEF FilesOf
    <3>3. e.path \in FilesOf(g)
      BY <1>5, <1>10 DEF FilesOf
    <3> QED BY <3>1, <3>2, <3>3
  <2>6. Keep(contents, e) = [p \in FilesOf(g) |-> g[p].content]
    <3> HIDE DEF g
    <3>1. DOMAIN contents = FilesOf(fs) /\ \A p \in FilesOf(fs) : contents[p] = fs[p].content
      BY <1>8
    <3>2. Keep(contents, e) = [p \in FilesOf(g) |-> IF p = e.path THEN e.content ELSE contents[p]]
      BY <1>10, <2>5, <3>1 DEF Keep
    <3>3. \A p \in FilesOf(g) : (IF p = e.path THEN e.content ELSE contents[p]) = g[p].content
      <4>1. TAKE p \in FilesOf(g)
      <4>2. CASE p = e.path
        BY <1>5, <4>2
      <4>3. CASE p # e.path
        <5>1. p \in FilesOf(fs) /\ p \in DOMAIN fs
          BY <2>5, <4>1, <4>3 DEF FilesOf
        <5>2. g[p] = fs[p]
          BY <1>5, <4>3, <5>1
        <5> QED BY <3>1, <4>3, <5>1, <5>2
      <4> QED BY <4>2, <4>3
    <3> QED BY <3>2, <3>3
  <2>7. IsExtracted(tar, g, Keep(contents, e), n + 1)
    BY <1>6, <1>7, <2>6 DEF IsExtracted
  <2> QED BY <1>2, <2>4, <2>7
<1> QED BY <1>4, <1>9, <1>10

AreExtracted(tar, r, contents, n) ==
    \E fs : r = [ok |-> TRUE, fs |-> fs] /\ IsExtracted(tar, fs, contents, n)

\* ExtractedIsRead (DebArchive), for every payload.
LEMMA TarExtracted == ASSUME NEW tar, IsSequence(tar) PROVE ExtractedIsRead(tar)
<1>1. PICK N \in Nat : N = Len(tar) /\ DOMAIN tar = 1 .. N
  BY SequenceIsSeq
<1>2. PICK f : f = ExtractRun(tar, N)
  OBVIOUS
<1>3. PICK h : h = KeepRun(tar, N)
  OBVIOUS
<1>4. f[0] = [ok |-> TRUE, fs |-> [p \in {} |-> ""]] /\ \A n \in 0 .. N - 1 : f[n + 1] = ExtractEntry(f[n], tar[n + 1])
  BY <1>2, ExtractSteps
<1>5. h[0] = [p \in {} |-> ""] /\ \A n \in 0 .. N - 1 : h[n + 1] = Keep(h[n], tar[n + 1])
  BY <1>3, KeepSteps
<1>6. Extract(tar) = f[N] /\ DataContents(tar) = h[N]
  BY <1>1, <1>2, <1>3 DEF Extract, ExtractRun, ExtractTo, DataContents, KeepRun, KeepTo
<1> DEFINE links == {i \in DOMAIN tar : tar[i].type = "link"}
           linked == {tar[i].path : i \in links} \cap {tar[i].path : i \in DOMAIN tar \ links}
<1>7. ASSUME linked = {} PROVE \E fs : f[N] = [ok |-> TRUE, fs |-> fs] /\ h[N] = [p \in FilesOf(fs) |-> fs[p].content]
  <2>1. \A i, j \in 1 .. N : tar[i].type = "link" /\ tar[j].type # "link" => tar[i].path # tar[j].path
    BY <1>1, <1>7
  <2> HIDE DEF linked, links
  <2> DEFINE G == {n \in 0 .. N : AreExtracted(tar, f[n], h[n], n)}
  <2>2. 0 \in G
    <3>1. PICK fs : fs = [p \in {} |-> ""]
      OBVIOUS
    <3>2. DOMAIN fs = {} /\ IsFiniteSet({})
      BY <3>1, FS_EmptySet
    <3>3. FilesOf(fs) = {}
      BY <3>2 DEF FilesOf
    <3>4. h[0] = [p \in FilesOf(fs) |-> fs[p].content]
      BY <1>5, <3>1, <3>3
    <3>5. IsExtracted(tar, fs, h[0], 0)
      BY <3>2, <3>4 DEF IsExtracted
    <3>6. f[0] = [ok |-> TRUE, fs |-> fs]
      BY <1>4, <3>1
    <3>7. AreExtracted(tar, f[0], h[0], 0)
      BY <3>5, <3>6 DEF AreExtracted
    <3> QED BY <1>1, <3>7
  <2>3. ASSUME NEW n \in 0 .. N - 1, n \in G PROVE n + 1 \in G
    <3>1. n \in Nat /\ n + 1 \in 0 .. N /\ \A i \in 1 .. n + 1 : i \in 1 .. N
      BY <1>1
    <3>2. PICK fs : f[n] = [ok |-> TRUE, fs |-> fs] /\ IsExtracted(tar, fs, h[n], n)
      BY <2>3 DEF AreExtracted
    <3>3. PICK e : e = tar[n + 1]
      OBVIOUS
    <3>4. \A i, j \in 1 .. n + 1 : tar[i].type = "link" /\ tar[j].type # "link" => tar[i].path # tar[j].path
      BY <2>1, <3>1
    <3>5. PICK g : /\ ExtractEntry([ok |-> TRUE, fs |-> fs], e) = [ok |-> TRUE, fs |-> g]
                   /\ IsExtracted(tar, g, Keep(h[n], e), n + 1)
      BY <3>1, <3>2, <3>3, <3>4, EntryExtracted
    <3>6. f[n + 1] = [ok |-> TRUE, fs |-> g] /\ h[n + 1] = Keep(h[n], e)
      BY <1>4, <1>5, <3>2, <3>3, <3>5
    <3>7. AreExtracted(tar, f[n + 1], h[n + 1], n + 1)
      BY <3>5, <3>6 DEF AreExtracted
    <3> QED BY <3>1, <3>7
  <2>4. N \in G
    <3>1. \A n \in 0 .. N - 1 : n \in G => n + 1 \in G
      BY <2>3
    <3>2. N \in 0 .. N
      BY <1>1
    <3> HIDE DEF G
    <3> QED BY <1>1, <2>2, <3>1, <3>2, Induction
  <2> QED BY <2>4 DEF AreExtracted, IsExtracted
<1> HIDE DEF linked, links
<1>8. ASSUME linked = {}
      PROVE  /\ Extract(tar).ok
             /\ [p \in {q \in DOMAIN Extract(tar).fs : Extract(tar).fs[q].type = "file"} |-> Extract(tar).fs[p].content]
                = DataContents(tar)
  <2>1. PICK fs : f[N] = [ok |-> TRUE, fs |-> fs] /\ h[N] = [p \in FilesOf(fs) |-> fs[p].content]
    BY <1>7, <1>8
  <2>2. PICK r : r = Extract(tar)
    OBVIOUS
  <2>3. r.ok /\ r.fs = fs
    BY <1>6, <2>1, <2>2
  <2> QED BY <1>6, <2>1, <2>2, <2>3 DEF FilesOf
<1> QED BY <1>8 DEF ExtractedIsRead, linked, links

-----------------------------------------------------------------------------
\* ArchiveIsRead (DebArchive), for all archives, all amounts read of their
\* members and all payloads: the reader stays aligned, a cut archive never
\* passes for a part of the whole one, both readers of the metadata agree,
\* and what is extracted is what is read into memory
\* (crates/tpt-l-deb-format/src/lib.rs 110-583).
THEOREM ArchivesAreRead == ArchiveSpec => []ArchiveIsRead
<1>1. NoInput => ArchiveIsRead
  BY DEF NoInput, ArchiveIsRead
<1>2. ArchiveIsRead /\ [ParseArchive \/ ReadPart \/ ExtractTar \/ Elsewhere({"archive", "ar", "tar"})]_inputVars
      => ArchiveIsRead'
  <2>1. ASSUME ParseArchive PROVE ArchiveIsRead'
    <3>1. PICK ms \in Archives : Take("archive", ms)
      BY <2>1 DEF ParseArchive
    <3>2. Bodied(ms)
      BY ArchiveAssumption DEF Bodied
    <3>3. CutIsNoticed(ms) /\ MetadataAgrees(ms)
      BY <3>2, CutNoticed, MetadataFound
    <3>4. part' = "archive" /\ input' = ms
      BY <3>1 DEF Take
    <3> QED BY <3>3, <3>4 DEF ArchiveIsRead
  <2>2. ASSUME ReadPart PROVE ArchiveIsRead'
    <3>1. PICK ms \in Streams, takes \in Parts : Take("ar", <<ms, takes>>)
      BY <2>2 DEF ReadPart
    <3>2. Bodied(ms) /\ DOMAIN ms \subseteq DOMAIN takes /\ \A i \in DOMAIN takes : takes[i] \in Nat
      BY ArchiveAssumption DEF Bodied
    <3>3. DOMAIN ms = 1 .. Len(ms)
      BY <3>2, SequenceIsSeq DEF Bodied
    <3>4. MembersAligned(ms, takes)
      BY <3>2, <3>3, Aligned
    <3>5. part' = "ar" /\ input'[1] = ms /\ input'[2] = takes
      BY <3>1 DEF Take
    <3> QED BY <3>4, <3>5 DEF ArchiveIsRead
  <2>3. ASSUME ExtractTar PROVE ArchiveIsRead'
    <3>1. PICK tar \in Tars : Take("tar", tar)
      BY <2>3 DEF ExtractTar
    <3>2. ExtractedIsRead(tar)
      BY ArchiveAssumption, TarExtracted
    <3>3. part' = "tar" /\ input' = tar
      BY <3>1 DEF Take
    <3> QED BY <3>2, <3>3 DEF ArchiveIsRead
  <2>4. ASSUME Elsewhere({"archive", "ar", "tar"}) PROVE ArchiveIsRead'
    BY <2>4 DEF Elsewhere, ArchiveIsRead
  <2>5. ASSUME ArchiveIsRead, UNCHANGED inputVars PROVE ArchiveIsRead'
    BY <2>5 DEF inputVars, ArchiveIsRead
  <2> QED BY <2>1, <2>2, <2>3, <2>4, <2>5
<1> QED BY <1>1, <1>2, PTL DEF ArchiveSpec
=============================================================================
