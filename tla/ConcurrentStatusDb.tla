------------------------- MODULE ConcurrentStatusDb -------------------------
(***************************************************************************)
(* ConcurrentStatusDb (crates/tpt-l-dpkg-db/src/lib.rs): writers that      *)
(* change the database under the exclusive lock and then save it under a   *)
(* shared one, readers that hold a guard, writes that fail, and a process  *)
(* that stops and starts again from the file.                              *)
(***************************************************************************)
EXTENDS StatusDb, FiniteSets

CONSTANTS Writers,     \* threads that call apply_changes, once each per run
          Readers,     \* threads that call read, once each per run
          Batches,     \* the changes a call may be made with
          Files,       \* what the status file may be at first
          MaxRestarts, \* bound on restarts
          MayFail      \* whether writing and renaming may fail

ASSUME ThreadsAssumption ==
    /\ Writers \cap Readers = {}
    /\ MaxRestarts \in Nat
    /\ MayFail \in BOOLEAN
    /\ Batches \subseteq Batch
    /\ Files \subseteq Seq(Stanza)

VARIABLES file,     \* the status file
          db,       \* the database behind the lock
          writing,  \* the holder of the exclusive lock, as a set
          guards,   \* the threads that hold a read guard
          batch,    \* what each writer was called with
          pc,       \* where each thread is
          done,     \* the changes of its batch a writer has made
          temp,     \* what each writer's temporary file holds
          log,      \* history: the batches made in memory, in order
          made,     \* history: the place of each writer's batch in the log
          tempMade, \* history: the batches its temporary file includes
          saved,    \* history: how many batches of the log the file holds
          base,     \* history: what the process read when it started
          restarts

vars == <<file, db, writing, guards, batch, pc, done, temp, log, made,
          tempMade, saved, base, restarts>>

Threads == Writers \cup Readers

Init ==
    /\ file \in Files
    /\ db = Parsed(file)
    /\ writing = {}
    /\ guards = {}
    /\ batch \in [Writers -> Batches]
    /\ pc = [t \in Threads |-> "start"]
    /\ done = [t \in Writers |-> 0]
    /\ temp = [t \in Writers |-> <<>>]
    /\ log = <<>>
    /\ made = [t \in Writers |-> 0]
    /\ tempMade = [t \in Writers |-> 0]
    /\ saved = 0
    /\ base = Parsed(file)
    /\ restarts = 0

Goes(t, from, to) == pc[t] = from /\ pc' = [pc EXCEPT ![t] = to]

-----------------------------------------------------------------------------
(* apply_changes: first the scope of the exclusive lock. *)

LockWrite(t) ==
    /\ Goes(t, "start", "changing")
    /\ writing = {} /\ guards = {}
    /\ writing' = {t}
    /\ UNCHANGED <<file, db, guards, batch, done, temp, log, made, tempMade,
                   saved, base, restarts>>

ApplyChange(t) ==
    /\ pc[t] = "changing"
    /\ done[t] < Len(batch[t])
    /\ db' = Changed(db, batch[t][done[t] + 1])
    /\ done' = [done EXCEPT ![t] = @ + 1]
    /\ UNCHANGED <<file, writing, guards, batch, pc, temp, log, made, tempMade,
                   saved, base, restarts>>

\* Fault: the exclusive lock is not given back.
UnlockWriteKeeps(t) ==
    /\ Goes(t, "changing", "changed")
    /\ done[t] = Len(batch[t])
    /\ log' = Append(log, batch[t])
    /\ made' = [made EXCEPT ![t] = Len(log) + 1]
    /\ UNCHANGED <<file, db, writing, guards, batch, done, temp, tempMade,
                   saved, base, restarts>>

\* The guard goes out of scope, all changes made.
UnlockWrite(t) ==
    /\ Goes(t, "changing", "changed")
    /\ done[t] = Len(batch[t])
    /\ writing' = {}
    /\ log' = Append(log, batch[t])
    /\ made' = [made EXCEPT ![t] = Len(log) + 1]
    /\ UNCHANGED <<file, db, guards, batch, done, temp, tempMade, saved, base,
                   restarts>>

-----------------------------------------------------------------------------
(* Then self.read().write_atomic(path): the read guard is a temporary that  *)
(* lives to the end of the call.                                            *)

\* Fault: a reader enters while a writer changes.
MayReadAlways == TRUE
MayRead == writing = {}

LockRead(t) ==
    /\ MayRead
    /\ Goes(t, "changed", "saving")
    /\ guards' = guards \cup {t}
    /\ UNCHANGED <<file, db, writing, batch, done, temp, log, made, tempMade,
                   saved, base, restarts>>

\* Fault: the database is copied and the guard dropped before the rename.
WriteTempDropsGuard(t) ==
    /\ Goes(t, "saving", "written")
    /\ temp' = [temp EXCEPT ![t] = Written(db)]
    /\ tempMade' = [tempMade EXCEPT ![t] = Len(log)]
    /\ guards' = guards \ {t}
    /\ UNCHANGED <<file, db, writing, batch, done, log, made, saved, base,
                   restarts>>

\* The temporary file is written and synced.
WriteTemp(t) ==
    /\ Goes(t, "saving", "written")
    /\ temp' = [temp EXCEPT ![t] = Written(db)]
    /\ tempMade' = [tempMade EXCEPT ![t] = Len(log)]
    /\ UNCHANGED <<file, db, writing, guards, batch, done, log, made, saved,
                   base, restarts>>

\* Fault: the call returns without the rename.
PersistForgets(t) ==
    /\ Goes(t, "written", "ok")
    /\ guards' = guards \ {t}
    /\ UNCHANGED <<file, db, writing, batch, done, temp, log, made, tempMade,
                   saved, base, restarts>>

\* The temporary file is renamed to the path; the call returns Ok.
Persist(t) ==
    /\ Goes(t, "written", "ok")
    /\ file' = temp[t]
    /\ saved' = tempMade[t]
    /\ guards' = guards \ {t}
    /\ UNCHANGED <<db, writing, batch, done, temp, log, made, tempMade, base,
                   restarts>>

\* Creating, writing, syncing or renaming fails: the call returns Err and
\* the temporary file is removed.  The change in memory stays.
Fail(t) ==
    /\ MayFail
    /\ pc[t] \in {"saving", "written"}
    /\ pc' = [pc EXCEPT ![t] = "failed"]
    /\ guards' = guards \ {t}
    /\ UNCHANGED <<file, db, writing, batch, done, temp, log, made, tempMade,
                   saved, base, restarts>>

-----------------------------------------------------------------------------
(* read: a guard for as long as the caller keeps it. *)

TakeGuard(r) ==
    /\ MayRead
    /\ Goes(r, "start", "reading")
    /\ guards' = guards \cup {r}
    /\ UNCHANGED <<file, db, writing, batch, done, temp, log, made, tempMade,
                   saved, base, restarts>>

DropGuard(r) ==
    /\ Goes(r, "reading", "ok")
    /\ guards' = guards \ {r}
    /\ UNCHANGED <<file, db, writing, batch, done, temp, log, made, tempMade,
                   saved, base, restarts>>

-----------------------------------------------------------------------------
\* The process stops, wherever its threads are, and another opens the file.
\* Calls that had returned stay returned; the others are not made again.
Restart ==
    /\ restarts < MaxRestarts
    /\ restarts' = restarts + 1
    /\ db' = Parsed(file)
    /\ writing' = {}
    /\ guards' = {}
    /\ pc' = [t \in Threads |-> IF pc[t] \in {"start", "ok"} THEN pc[t]
                                                             ELSE "failed"]
    /\ log' = SubSeq(log, 1, saved)
    /\ made' = [t \in Writers |-> IF made[t] <= saved THEN made[t] ELSE 0]
    /\ tempMade' = [t \in Writers |-> 0]
    /\ UNCHANGED <<file, batch, done, temp, saved, base>>

Step == \/ \E t \in Writers : \/ LockWrite(t) \/ ApplyChange(t) \/ UnlockWrite(t)
                              \/ LockRead(t) \/ WriteTemp(t) \/ Persist(t)
                              \/ Fail(t)
        \/ \E r \in Readers : TakeGuard(r) \/ DropGuard(r)

Next == Step \/ Restart

Spec     == Init /\ [][Next]_vars
FairSpec == Spec /\ WF_vars(Step)

-----------------------------------------------------------------------------
(* Correctness. *)

\* The database after the first n batches of the log.
Replayed(n) == LET after[k \in 0 .. n] ==
                       IF k = 0 THEN base ELSE ApplyChanges(after[k - 1], log[k])
               IN after[n]

\* At any moment, a crash included, the status file holds whole batches: what
\* the process read at first with the first batches of the log, none by half;
\* and whoever holds a read guard sees whole batches, all that were made.
OnlyWholeBatches ==
    /\ Parsed(file) = Replayed(saved)
    /\ guards # {} => db = Replayed(Len(log))

\* A call that returned Ok is in the file, and stays there through later
\* calls, failures and restarts.
AcknowledgedIsSaved ==
    \A t \in Writers : pc[t] = "ok" => made[t] \in 1 .. saved

\* The file never goes back to an earlier state of the database, although two
\* writers may hold temporary files at once.
FileNeverGoesBack == [][saved' >= saved]_vars

\* Every call returns, whatever the other threads do.
AllReturn == <>(\A t \in Threads : pc[t] \in {"ok", "failed"})

=============================================================================
