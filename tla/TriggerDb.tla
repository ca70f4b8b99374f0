------------------------------ MODULE TriggerDb ------------------------------
(***************************************************************************)
(* The trigger database (crates/tpt-l-dpkg-triggers/src/lib.rs) of one     *)
(* program after another: each makes calls in any order, saves to a        *)
(* directory file by file, may fail or stop at any file, in the middle of  *)
(* one too, and the next one loads what is there.                          *)
(*                                                                         *)
(* The interests of a package are a set, since only membership is asked    *)
(* for; its pending triggers are a sequence, which process returns.        *)
(***************************************************************************)
EXTENDS Integers, Sequences, FiniteSetsExt, Functions

CONSTANTS Package, Name,
          Registrations, \* the pairs of package and trigger registered
          MaxSaves,      \* bound on the calls of save_dir
          Beginnings     \* name -> what its line, cut short, may read as

Trigger == [name : Name, awaited : BOOLEAN]

\* The beginning of a name may be another name.
ASSUME TriggersAssumption ==
    /\ DOMAIN Beginnings = Name /\ Registrations \subseteq Package \X Trigger
    /\ MaxSaves \in Nat

VARIABLES interests, \* package -> the triggers it is interested in
          pending,   \* package -> names pending, for packages with any
          pc,        \* "up", inside save_dir "interests" and "files",
                     \* stopped "down", load_dir failed "failed"
          unsaved,   \* the packages save_dir has still to write
          dir,       \* the directory: "absent" or "present"
          lines,     \* the Interests file, a set of lines; {} without one
          malformed, \* a line of it cannot be read
          files,     \* package -> names in its pending file
          cutLines,  \* history: a write of the Interests file was cut short
          cutFiles,  \* history: the packages whose pending file was
          lastSave,  \* history: the database of the last save that returned Ok
          processed, \* history: the packages processed since
          saves      \* calls of save_dir so far

disk    == <<dir, lines, malformed, files, cutLines, cutFiles>>
history == <<lastSave, processed, saves>>
vars == <<interests, pending, pc, unsaved, disk, history>>

Empty == [p \in {} |-> <<>>]

NoInterests == [p \in Package |-> {}]

Init ==
    /\ interests = NoInterests /\ pending = Empty
    /\ pc = "up" /\ unsaved = {}
    /\ dir = "absent" /\ lines = {} /\ malformed = FALSE /\ files = Empty
    /\ cutLines = FALSE /\ cutFiles = {}
    /\ lastSave = [interests |-> NoInterests, pending |-> Empty]
    /\ processed = {} /\ saves = 0

Listed(list, n) == \E i \in DOMAIN list : list[i] = n
PendingOf(p)    == IF p \in DOMAIN pending THEN pending[p] ELSE <<>>
IsInterested(p, n) == \E t \in interests[p] : t.name = n

-----------------------------------------------------------------------------
(* The calls that change the database in memory. *)

Interest(p, trigger) ==
    /\ pc = "up"
    /\ ~IsInterested(p, trigger.name)
    /\ interests' = [interests EXCEPT ![p] = @ \cup {trigger}]
    /\ UNCHANGED <<pending, pc, unsaved, disk, history>>

\* The packages that activate makes pending for the name.
Newly(n) == {p \in Package : IsInterested(p, n) /\ ~Listed(PendingOf(p), n)}

\* Fault: a list that is there is replaced.
ExtendedFresh(p, n) == <<n>>
Extended(p, n) == Append(PendingOf(p), n)

Activate(n) ==
    /\ pc = "up"
    /\ Newly(n) # {}
    /\ pending' = [p \in DOMAIN pending \cup Newly(n) |->
                     IF p \in Newly(n) THEN Extended(p, n) ELSE pending[p]]
    /\ UNCHANGED <<interests, pc, unsaved, disk, history>>

Process(p) ==
    /\ pc = "up"
    /\ p \in DOMAIN pending
    /\ pending' = Restrict(pending, DOMAIN pending \ {p})
    /\ processed' = processed \cup {p}
    /\ UNCHANGED <<interests, pc, unsaved, disk, lastSave, saves>>

-----------------------------------------------------------------------------
(* save_dir: the Interests file, then one file per pending package, in the *)
(* order of a hash map.  A call that has nothing left to write returns Ok. *)

StartSave ==
    /\ pc = "up"
    /\ saves < MaxSaves /\ saves' = saves + 1
    /\ pc' = "interests"
    /\ dir' = "present"
    /\ UNCHANGED <<interests, pending, unsaved, lines, malformed, files,
                   cutLines, cutFiles, lastSave, processed>>

\* Fault: an Interests file with lines is kept as it is.
WriteInterestsOnce ==
    /\ pc = "interests"
    /\ pc' = "files"
    /\ lines' = IF lines = {} THEN UNION {{p} \X interests[p] : p \in Package}
                             ELSE lines
    /\ malformed' = FALSE
    /\ unsaved' = DOMAIN pending
    /\ UNCHANGED <<interests, pending, dir, files, cutLines, cutFiles, history>>

WriteInterests ==
    /\ pc = "interests"
    /\ pc' = "files"
    /\ lines' = UNION {{p} \X interests[p] : p \in Package}
    /\ malformed' = FALSE
    /\ unsaved' = DOMAIN pending
    /\ UNCHANGED <<interests, pending, dir, files, cutLines, cutFiles, history>>

WritePending(p) ==
    /\ pc = "files" /\ p \in unsaved
    /\ files' = [q \in DOMAIN files \cup {p} |->
                   IF q = p THEN pending[p] ELSE files[q]]
    /\ unsaved' = unsaved \ {p}
    /\ UNCHANGED <<interests, pending, pc, dir, lines, malformed, cutLines,
                   cutFiles, history>>

EndSave ==
    /\ pc = "files" /\ unsaved = {}
    /\ pc' = "up"
    /\ lastSave' = [interests |-> interests, pending |-> pending]
    /\ processed' = {}
    /\ UNCHANGED <<interests, pending, unsaved, dir, lines, malformed, files,
                   cutLines, cutFiles, saves>>

-----------------------------------------------------------------------------
(* A call fails or the program stops.  std::fs::write truncates the file    *)
(* and then fills it, so that either may leave the first part of one.       *)
(* Bound: each file is cut short once at most.                              *)

\* After an error of save_dir the program goes on; a stop loses the memory.
Leaves == \/ pc' = "up" /\ UNCHANGED <<interests, pending>>
          \/ pc' = "down" /\ interests' = NoInterests /\ pending' = Empty

\* Between two files.  (An error of create_dir_all changes nothing.)
Interrupt ==
    /\ pc \in {"interests", "files"}
    /\ Leaves
    /\ unsaved' = {}
    /\ UNCHANGED <<disk, history>>

\* In the Interests file: some of its lines, the awaited of one of them maybe
\* cut short and then not "true", or a line of fewer than three words.
CutInterests ==
    /\ pc = "interests" /\ ~cutLines
    /\ Leaves
    /\ \E whole \in SUBSET UNION {{p} \X interests[p] : p \in Package} :
         \/ lines' = whole
         \/ \E l \in whole : lines' = (whole \ {l}) \cup
                               {<<l[1], [name |-> l[2].name, awaited |-> FALSE]>>}
    /\ malformed' \in BOOLEAN
    /\ cutLines' = TRUE /\ unsaved' = {}
    /\ UNCHANGED <<dir, files, cutFiles, history>>

\* In a pending file: its first names, the last of them maybe cut short.
CutPending(p) ==
    /\ pc = "files" /\ p \in unsaved \ cutFiles
    /\ Leaves
    /\ \E k \in 0 .. Len(pending[p]) - 1 :
         \E rest \in {<<>>} \cup {<<w>> : w \in Beginnings[pending[p][k + 1]]} :
           files' = [q \in DOMAIN files \cup {p} |->
                       IF q = p THEN SubSeq(pending[p], 1, k) \o rest
                                ELSE files[q]]
    /\ cutFiles' = cutFiles \cup {p} /\ unsaved' = {}
    /\ UNCHANGED <<dir, lines, malformed, cutLines, history>>

Stop ==
    /\ pc = "up"
    /\ pc' = "down"
    /\ interests' = NoInterests /\ pending' = Empty
    /\ UNCHANGED <<unsaved, disk, history>>

-----------------------------------------------------------------------------
(* load_dir. *)

\* A line whose name was registered before is dropped by interest; which of
\* two is the first cannot matter, since a file names each once.
Load ==
    /\ pc = "down"
    /\ dir = "present" /\ ~malformed
    /\ pc' = "up"
    /\ interests' = [p \in Package |-> {t \in Trigger : <<p, t>> \in lines}]
    /\ pending' = Restrict(files, {p \in DOMAIN files : files[p] # <<>>})
    /\ UNCHANGED <<unsaved, disk, history>>

\* read_dir of a directory nobody made, or a line of the wrong length.
LoadFails ==
    /\ pc = "down"
    /\ dir = "absent" \/ malformed
    /\ pc' = "failed"
    /\ UNCHANGED <<interests, pending, unsaved, disk, history>>

Next ==
    \/ \E r \in Registrations : Interest(r[1], r[2])
    \/ \E n \in Name : Activate(n)
    \/ \E p \in Package : Process(p) \/ WritePending(p) \/ CutPending(p)
    \/ StartSave \/ WriteInterests \/ EndSave
    \/ Interrupt \/ CutInterests \/ Stop
    \/ Load \/ LoadFails

Spec == Init /\ [][Next]_vars

-----------------------------------------------------------------------------
(* Correctness. *)

\* A pending trigger is one its package is interested in, although the two
\* are in different files and a save may end between them: the Interests file
\* is written first.  And it is pending once, so that process returns it once,
\* whatever was activated before and after a load.  Only a file that was cut
\* short can break this: the beginning of a name may be the name of a trigger
\* of no interest, or of one that is pending already.
PendingHasInterest ==
    \A p \in DOMAIN pending :
        /\ p \notin cutFiles => IsInjective(pending[p])
        /\ ~cutLines /\ p \notin cutFiles =>
             \A i \in DOMAIN pending[p] : IsInterested(p, pending[p][i])

\* What was pending when save_dir returned Ok, and was not processed since, is
\* pending, through saves that failed half way, stops and loads, and so for the
\* interests.  A file cut short can lose what it held and nothing else.
SavedIsRestored ==
    pc \in {"up", "interests", "files"} =>
      /\ ~cutLines => \A p \in Package : lastSave.interests[p] \subseteq interests[p]
      /\ \A p \in DOMAIN lastSave.pending \ (processed \cup cutFiles) :
           \A i \in DOMAIN lastSave.pending[p] :
             Listed(PendingOf(p), lastSave.pending[p][i])
=============================================================================
