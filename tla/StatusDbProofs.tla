--------------------------- MODULE StatusDbProofs ---------------------------
(***************************************************************************)
(* What ConcurrentStatusDb acknowledged is in the status file, the file    *)
(* never goes back and holds whole batches, for any threads, batches,      *)
(* files and restarts; the versions of the packages in it are ordered as   *)
(* the policy says and come back from their text, whatever they are; and   *)
(* control files are read as the fields their lines spell.                 *)
(***************************************************************************)
EXTENDS ConcurrentStatusDb, Version, ControlFile, SequenceTheorems, FiniteSetTheorems,
        WellFoundedInduction, TLAPS

Phase == {"start", "changing", "changed", "saving", "written", "reading",
          "ok", "failed"}

DurableTypes ==
    /\ pc \in [Threads -> Phase]
    /\ batch \in [Writers -> Batch]
    /\ log \in Seq(Batch)
    /\ made \in [Writers -> Nat]
    /\ tempMade \in [Writers -> Nat]
    /\ saved \in 0 .. Len(log)

\* The two sides of the lock exclude one another, and threads hold them where
\* the code says.
GuardExcludesWriter == writing = {} \/ guards = {}
LocksHeld ==
    \A t \in Writers :
      /\ pc[t] = "changing" => writing = {t}
      /\ pc[t] \in {"saving", "written"} => t \in guards

\* A temporary file that waits for its rename holds everything that was made.
TempIsCurrent == \A t \in Writers : pc[t] = "written" => tempMade[t] = Len(log)

BatchIsMade ==
    \A t \in Writers :
      pc[t] \in {"changed", "saving", "written"} => made[t] \in 1 .. Len(log)

DurableInv ==
    /\ DurableTypes
    /\ GuardExcludesWriter
    /\ LocksHeld
    /\ TempIsCurrent
    /\ BatchIsMade
    /\ AcknowledgedIsSaved

-----------------------------------------------------------------------------
LEMMA DurableInit == Init => DurableInv
<1> SUFFICES ASSUME Init PROVE DurableInv
  OBVIOUS
<1>1. batch \in [Writers -> Batch]
  BY ThreadsAssumption DEF Init
<1>2. log \in Seq(Batch) /\ saved \in 0 .. Len(log)
  BY DEF Init
<1>3. DurableTypes
  BY <1>1, <1>2 DEF Init, DurableTypes, Phase
<1> QED
  BY <1>3 DEF Init, DurableInv, GuardExcludesWriter, LocksHeld, TempIsCurrent,
              BatchIsMade, AcknowledgedIsSaved, Threads

\* A step that moves one writer and leaves the histories alone keeps the
\* invariant if the locks and the phase it enters allow it.
LEMMA PhaseChanges ==
    ASSUME DurableInv, NEW t \in Threads, NEW from \in Phase, NEW to \in Phase,
           Goes(t, from, to), UNCHANGED <<batch, log, made, saved>>,
           tempMade' \in [Writers -> Nat],
           \A u \in Writers : u # t => tempMade'[u] = tempMade[u],
           GuardExcludesWriter',
           \A u \in Writers : pc'[u] = "changing" => writing' = {u},
           \A u \in Writers : pc'[u] \in {"saving", "written"} => u \in guards',
           t \in Writers /\ to = "written" => tempMade'[t] = Len(log),
           t \in Writers /\ to \in {"changed", "saving", "written"} =>
               from \in {"changed", "saving", "written"},
           t \in Writers => to # "ok"
    PROVE  DurableInv'
<1>1. /\ pc' \in [Threads -> Phase] /\ pc'[t] = to /\ pc[t] = from
      /\ \A u \in Threads : u # t => pc'[u] = pc[u]
      /\ Writers \subseteq Threads
  BY DEF Goes, DurableInv, DurableTypes, Threads
<1>2. DurableTypes'
  BY <1>1 DEF DurableInv, DurableTypes
<1>3. LocksHeld'
  BY DEF LocksHeld
<1>4. TempIsCurrent'
  BY <1>1 DEF DurableInv, TempIsCurrent
<1>5. BatchIsMade'
  BY <1>1 DEF DurableInv, BatchIsMade
<1>6. AcknowledgedIsSaved'
  BY <1>1 DEF DurableInv, AcknowledgedIsSaved
<1> QED BY <1>2, <1>3, <1>4, <1>5, <1>6 DEF DurableInv

LEMMA WriterInside ==
    ASSUME DurableInv, NEW t \in Writers, Goes(t, "changing", "changed")
    PROVE  writing = {t} /\ guards = {} /\ t \in Threads
BY DEF DurableInv, Goes, LocksHeld, GuardExcludesWriter, Threads

LEMMA DurableUnlock ==
    ASSUME DurableInv, NEW t \in Writers, UnlockWrite(t)
    PROVE  DurableInv'
<1>1. writing = {t} /\ guards = {} /\ t \in Threads
  BY WriterInside DEF UnlockWrite
<1>2. /\ pc' \in [Threads -> Phase] /\ pc'[t] = "changed"
      /\ \A u \in Threads : u # t => pc'[u] = pc[u]
      /\ Writers \subseteq Threads
  BY <1>1 DEF UnlockWrite, Goes, DurableInv, DurableTypes, Threads, Phase
<1>3. batch[t] \in Batch /\ log \in Seq(Batch) /\ Len(log) \in Nat
  BY DEF DurableInv, DurableTypes
<1>4. log' \in Seq(Batch) /\ Len(log') = Len(log) + 1
  BY <1>3, AppendProperties DEF UnlockWrite
<1>5. /\ made' \in [Writers -> Nat] /\ made'[t] = Len(log) + 1
      /\ \A u \in Writers : u # t => made'[u] = made[u]
  BY <1>3 DEF UnlockWrite, DurableInv, DurableTypes
<1>6. DurableTypes'
  <2>1. saved' \in 0 .. Len(log')
    BY <1>3, <1>4 DEF UnlockWrite, DurableInv, DurableTypes
  <2> QED BY <1>2, <1>4, <1>5, <2>1 DEF UnlockWrite, DurableInv, DurableTypes
<1>7. \A u \in Writers : pc[u] \notin {"saving", "written"}
  BY <1>1 DEF DurableInv, LocksHeld
<1>8. GuardExcludesWriter'
  BY DEF UnlockWrite, GuardExcludesWriter
<1>9. \A u \in Writers : u # t => pc[u] # "changing"
  BY <1>1 DEF DurableInv, LocksHeld
<1>10. LocksHeld'
  BY <1>2, <1>7, <1>9 DEF LocksHeld
<1>11. TempIsCurrent'
  BY <1>2, <1>7 DEF TempIsCurrent
<1>12. BatchIsMade'
  BY <1>2, <1>3, <1>4, <1>5 DEF DurableInv, BatchIsMade
<1>13. AcknowledgedIsSaved'
  <2>1. saved' = saved
    BY DEF UnlockWrite
  <2> QED BY <1>2, <1>5, <2>1 DEF DurableInv, AcknowledgedIsSaved
<1> QED BY <1>6, <1>8, <1>10, <1>11, <1>12, <1>13 DEF DurableInv

LEMMA DurablePersist ==
    ASSUME DurableInv, NEW t \in Writers, Persist(t)
    PROVE  DurableInv' /\ saved' >= saved
<1>1. /\ pc' \in [Threads -> Phase] /\ pc'[t] = "ok" /\ pc[t] = "written"
      /\ \A u \in Threads : u # t => pc'[u] = pc[u]
      /\ Writers \subseteq Threads
  BY DEF Persist, Goes, DurableInv, DurableTypes, Threads, Phase
<1>2. /\ tempMade[t] = Len(log) /\ Len(log) \in Nat
      /\ made[t] \in 1 .. Len(log) /\ saved \in 0 .. Len(log)
  BY <1>1 DEF DurableInv, DurableTypes, TempIsCurrent, BatchIsMade
<1>3. saved' = Len(log) /\ log' = log /\ made' = made /\ tempMade' = tempMade
  BY <1>2 DEF Persist
<1>4. DurableTypes'
  BY <1>1, <1>2, <1>3 DEF Persist, DurableInv, DurableTypes
<1>5. GuardExcludesWriter' /\ LocksHeld'
  BY <1>1 DEF Persist, DurableInv, GuardExcludesWriter, LocksHeld
<1>6. TempIsCurrent' /\ BatchIsMade'
  BY <1>1, <1>3 DEF DurableInv, TempIsCurrent, BatchIsMade
<1>7. AcknowledgedIsSaved'
  BY <1>1, <1>2, <1>3 DEF DurableInv, DurableTypes, AcknowledgedIsSaved
<1> QED BY <1>2, <1>3, <1>4, <1>5, <1>6, <1>7 DEF DurableInv

LEMMA DurableRestart ==
    ASSUME DurableInv, Restart
    PROVE  DurableInv'
<1>1. /\ saved \in Nat /\ saved <= Len(log) /\ Len(log) \in Nat
      /\ log \in Seq(Batch) /\ Writers \subseteq Threads
  BY DEF DurableInv, DurableTypes, Threads
<1>2. log' \in Seq(Batch) /\ Len(log') = saved
  <2>1. log' = SubSeq(log, 1, saved)
    BY DEF Restart
  <2> QED BY <1>1, <2>1, SubSeqProperties
<1>3. /\ pc' \in [Threads -> Phase]
      /\ \A u \in Threads : /\ pc'[u] \in {"start", "ok", "failed"}
                            /\ pc'[u] = "ok" => pc[u] = "ok"
  BY DEF Restart, DurableInv, DurableTypes, Phase
<1>4. /\ made' \in [Writers -> Nat] /\ tempMade' \in [Writers -> Nat]
      /\ \A u \in Writers : made[u] <= saved => made'[u] = made[u]
      /\ saved' = saved
  BY DEF Restart, DurableInv, DurableTypes
<1>5. DurableTypes'
  BY <1>1, <1>2, <1>3, <1>4 DEF Restart, DurableInv, DurableTypes
<1>6. GuardExcludesWriter' /\ LocksHeld' /\ TempIsCurrent' /\ BatchIsMade'
  BY <1>1, <1>3 DEF Restart, GuardExcludesWriter, LocksHeld, TempIsCurrent,
                    BatchIsMade
<1>7. AcknowledgedIsSaved'
  BY <1>1, <1>3, <1>4 DEF DurableInv, DurableTypes, AcknowledgedIsSaved
<1> QED BY <1>5, <1>6, <1>7 DEF DurableInv

LEMMA DurableNext ==
    ASSUME DurableInv, [Next]_vars
    PROVE  DurableInv' /\ saved' >= saved
<1>1. Writers \subseteq Threads /\ Readers \subseteq Threads /\ saved \in Nat
  BY DEF Threads, DurableInv, DurableTypes
<1>2. CASE UNCHANGED vars
  BY <1>1, <1>2 DEF vars, DurableInv, DurableTypes, GuardExcludesWriter,
                    LocksHeld, TempIsCurrent, BatchIsMade, AcknowledgedIsSaved
<1>3. ASSUME NEW t \in Writers, LockWrite(t)
      PROVE  DurableInv' /\ saved' >= saved
  <2>1. \A u \in Writers : pc[u] \notin {"changing", "saving", "written"}
    BY <1>3 DEF LockWrite, DurableInv, LocksHeld
  <2>2. \A u \in Writers : u # t => pc'[u] = pc[u]
    BY <1>1, <1>3 DEF LockWrite, Goes, DurableInv, DurableTypes
  <2>3. pc'[t] = "changing"
    BY <1>1, <1>3 DEF LockWrite, Goes, DurableInv, DurableTypes
  <2>4. DurableInv'
    BY <1>1, <1>3, <2>1, <2>2, <2>3, PhaseChanges
       DEF LockWrite, Phase, DurableInv, DurableTypes, GuardExcludesWriter
  <2> QED BY <1>1, <1>3, <2>4 DEF LockWrite
<1>4. ASSUME NEW t \in Writers, ApplyChange(t)
      PROVE  DurableInv' /\ saved' >= saved
  BY <1>1, <1>4 DEF ApplyChange, DurableInv, DurableTypes, GuardExcludesWriter,
                    LocksHeld, TempIsCurrent, BatchIsMade, AcknowledgedIsSaved
<1>5. ASSUME NEW t \in Writers, UnlockWrite(t)
      PROVE  DurableInv' /\ saved' >= saved
  <2>1. DurableInv'
    BY <1>5, DurableUnlock
  <2>2. saved' = saved
    BY <1>5 DEF UnlockWrite
  <2> QED BY <1>1, <2>1, <2>2
<1>6. ASSUME NEW t \in Writers, LockRead(t)
      PROVE  DurableInv' /\ saved' >= saved
  <2>1. \A u \in Writers : u # t => pc'[u] = pc[u]
    BY <1>1, <1>6 DEF LockRead, Goes, DurableInv, DurableTypes
  <2>2. pc'[t] = "saving"
    BY <1>1, <1>6 DEF LockRead, Goes, DurableInv, DurableTypes
  <2>3. DurableInv'
    BY <1>1, <1>6, <2>1, <2>2, PhaseChanges
       DEF LockRead, MayRead, Phase, DurableInv, DurableTypes, LocksHeld,
           GuardExcludesWriter
  <2> QED BY <1>1, <1>6, <2>3 DEF LockRead
<1>7. ASSUME NEW t \in Writers, WriteTemp(t)
      PROVE  DurableInv' /\ saved' >= saved
  <2>1. \A u \in Writers : u # t => pc'[u] = pc[u]
    BY <1>1, <1>7 DEF WriteTemp, Goes, DurableInv, DurableTypes
  <2>2. pc'[t] = "written" /\ pc[t] = "saving"
    BY <1>1, <1>7 DEF WriteTemp, Goes, DurableInv, DurableTypes
  <2>3. /\ tempMade' \in [Writers -> Nat] /\ tempMade'[t] = Len(log)
        /\ \A u \in Writers : u # t => tempMade'[u] = tempMade[u]
    BY <1>7 DEF WriteTemp, DurableInv, DurableTypes
  <2>4. DurableInv'
    BY <1>1, <1>7, <2>1, <2>2, <2>3, PhaseChanges
       DEF WriteTemp, Phase, DurableInv, LocksHeld, GuardExcludesWriter
  <2> QED BY <1>1, <1>7, <2>4 DEF WriteTemp
<1>8. ASSUME NEW t \in Writers, Persist(t)
      PROVE  DurableInv' /\ saved' >= saved
  BY <1>8, DurablePersist
<1>9. ASSUME NEW t \in Writers, Fail(t)
      PROVE  DurableInv' /\ saved' >= saved
  <2>1. /\ \A u \in Writers : u # t => pc'[u] = pc[u]
        /\ pc'[t] = "failed"
    BY <1>1, <1>9 DEF Fail, DurableInv, DurableTypes
  <2>2. Goes(t, pc[t], "failed") /\ pc[t] \in Phase
    BY <1>1, <1>9 DEF Fail, Goes, DurableInv, DurableTypes
  <2>3. DurableInv'
    BY <1>1, <1>9, <2>1, <2>2, PhaseChanges
       DEF Fail, Phase, DurableInv, DurableTypes, LocksHeld,
           GuardExcludesWriter
  <2> QED BY <1>1, <1>9, <2>3 DEF Fail
<1>10. ASSUME NEW r \in Readers, TakeGuard(r)
       PROVE  DurableInv' /\ saved' >= saved
  <2>1. /\ \A u \in Writers : pc'[u] = pc[u]
        /\ r \notin Writers
    BY <1>1, <1>10, ThreadsAssumption
       DEF TakeGuard, Goes, DurableInv, DurableTypes
  <2>2. DurableInv'
    BY <1>1, <1>10, <2>1, PhaseChanges
       DEF TakeGuard, MayRead, Phase, DurableInv, DurableTypes, LocksHeld,
           GuardExcludesWriter
  <2> QED BY <1>1, <1>10, <2>2 DEF TakeGuard
<1>11. ASSUME NEW r \in Readers, DropGuard(r)
       PROVE  DurableInv' /\ saved' >= saved
  <2>1. /\ \A u \in Writers : pc'[u] = pc[u]
        /\ r \notin Writers
    BY <1>1, <1>11, ThreadsAssumption
       DEF DropGuard, Goes, DurableInv, DurableTypes
  <2>2. DurableInv'
    BY <1>1, <1>11, <2>1, PhaseChanges
       DEF DropGuard, Phase, DurableInv, DurableTypes, LocksHeld,
           GuardExcludesWriter
  <2> QED BY <1>1, <1>11, <2>2 DEF DropGuard
<1>12. CASE Restart
  <2>1. DurableInv'
    BY <1>12, DurableRestart
  <2>2. saved' = saved
    BY <1>12 DEF Restart
  <2> QED BY <1>1, <2>1, <2>2
<1> QED
  BY <1>2, <1>3, <1>4, <1>5, <1>6, <1>7, <1>8, <1>9, <1>10, <1>11, <1>12
     DEF Next, Step

-----------------------------------------------------------------------------
(* Sequences and databases that are built step by step. *)

\* Induction over the turns of a loop, from the least element of what is left.
LEMMA Induction ==
    ASSUME NEW n \in Nat, NEW G, 0 \in G,
           \A k \in 0 .. n - 1 : k \in G => k + 1 \in G
    PROVE  0 .. n \subseteq G
<1> DEFINE Below == OpToRel(<, Nat)
           Bad   == (0 .. n) \ G
<1>1. IsWellFoundedOn(Below, Nat)
  BY NatLessThanWellFounded
<1>2. \A a, b \in Nat : a < b => <<a, b>> \in Below
  BY DEF OpToRel
<1>3. Bad # {} => \E m \in Bad : \A k \in Bad : ~(<<k, m>> \in Below)
  <2>1. Bad \subseteq Nat
    OBVIOUS
  <2> QED BY <1>1, <2>1, WFMin
<1> HIDE DEF Below
<1>4. ASSUME NEW m \in Bad, \A k \in Bad : ~(<<k, m>> \in Below) PROVE FALSE
  <2>1. m \in Nat /\ m # 0 /\ m - 1 \in 0 .. n - 1 /\ m - 1 \in Nat
    BY <1>4
  <2>2. <<m - 1, m>> \in Below
    BY <1>2, <2>1
  <2>3. m - 1 \in G
    BY <1>4, <2>1, <2>2
  <2> QED BY <1>4, <2>1, <2>3
<1> QED BY <1>3, <1>4

\* The loop of Kept, its first n turns.
KeptBody(f, seq, places, n) ==
    [i \in 0 .. n |->
        IF i = 0 THEN <<>>
        ELSE IF i \in places THEN Append(f[i - 1], seq[i]) ELSE f[i - 1]]
KeptRun(seq, places, n) == CHOOSE f : f = KeptBody(f, seq, places, n)

LEMMA KeptRuns ==
    ASSUME NEW seq, NEW places, NEW n \in Nat
    PROVE  KeptRun(seq, places, n) = KeptBody(KeptRun(seq, places, n), seq, places, n)
<1> DEFINE G == {k \in 0 .. n : \E f : f = KeptBody(f, seq, places, k)}
<1>1. 0 \in G
  <2>1. [i \in 0 .. 0 |-> <<>>] = KeptBody([i \in 0 .. 0 |-> <<>>], seq, places, 0)
    BY DEF KeptBody
  <2> QED BY <2>1
<1>2. ASSUME NEW k \in 0 .. n - 1, k \in G PROVE k + 1 \in G
  <2>1. PICK f : f = KeptBody(f, seq, places, k)
    BY <1>2
  <2> DEFINE g == [i \in 0 .. k + 1 |->
                      IF i = 0 THEN <<>>
                      ELSE IF i \in places THEN Append(f[i - 1], seq[i]) ELSE f[i - 1]]
  <2>2. \A i \in 0 .. k : g[i] = f[i]
    <3>1. \A i \in 0 .. k : g[i] = KeptBody(f, seq, places, k)[i]
      BY DEF KeptBody
    <3> QED BY <2>1, <3>1, Zenon
  <2>3. \A i \in 0 .. k + 1 : i # 0 => i - 1 \in 0 .. k
    OBVIOUS
  <2>4. g = KeptBody(g, seq, places, k + 1)
    BY <2>2, <2>3 DEF KeptBody
  <2> QED BY <2>4
<1>3. n \in G
  <2>1. \A k \in 0 .. n - 1 : k \in G => k + 1 \in G
    BY <1>2
  <2> HIDE DEF G
  <2> QED BY <1>1, <2>1, Induction
<1> QED BY <1>3 DEF KeptRun

LEMMA KeptSteps ==
    ASSUME NEW T, NEW seq \in Seq(T), NEW places
    PROVE  LET f == KeptRun(seq, places, Len(seq)) IN
           /\ Kept(seq, places) = f[Len(seq)]
           /\ f[0] = <<>>
           /\ \A k \in 0 .. Len(seq) - 1 :
                f[k + 1] = IF k + 1 \in places THEN Append(f[k], seq[k + 1])
                                               ELSE f[k]
<1> DEFINE n == Len(seq)
           f == KeptRun(seq, places, n)
           b == KeptBody(f, seq, places, n)
<1>1. f = b /\ n \in Nat
  BY KeptRuns
<1>2. Kept(seq, places) = f[n]
  BY DEF Kept, KeptRun, KeptBody
<1>3. b[0] = <<>>
  BY <1>1 DEF KeptBody
<1>4. ASSUME NEW k \in 0 .. n - 1
      PROVE  b[k + 1] = IF k + 1 \in places THEN Append(f[k], seq[k + 1])
                                            ELSE f[k]
  BY <1>1 DEF KeptBody
<1> HIDE DEF f, b
<1>5. f[0] = <<>>
  BY <1>1, <1>3
<1>6. ASSUME NEW k \in 0 .. n - 1
      PROVE  f[k + 1] = IF k + 1 \in places THEN Append(f[k], seq[k + 1])
                                            ELSE f[k]
  BY <1>1, <1>4
<1> QED BY <1>2, <1>5, <1>6 DEF f

LEMMA FunctionIsSeq ==
    ASSUME NEW S, NEW n \in Nat, NEW f \in [1 .. n -> S]
    PROVE  f \in Seq(S) /\ Len(f) = n /\ DOMAIN f = 1 .. n
OBVIOUS

LEMMA KeptType ==
    ASSUME NEW T, NEW seq \in Seq(T), NEW places
    PROVE  Kept(seq, places) \in Seq(T)
<1> DEFINE n == Len(seq)
           f == KeptRun(seq, places, n)
           G == {k \in 0 .. n : f[k] \in Seq(T)}
<1>1. /\ Kept(seq, places) = f[n] /\ f[0] = <<>> /\ n \in Nat
      /\ \A k \in 0 .. n - 1 :
           f[k + 1] = IF k + 1 \in places THEN Append(f[k], seq[k + 1]) ELSE f[k]
  BY KeptSteps
<1> HIDE DEF f
<1>2. 0 \in G
  <2>1. 0 \in 0 .. n
    BY <1>1
  <2>2. f[0] \in Seq(T)
    BY <1>1, EmptySeq, Zenon
  <2> QED BY <2>1, <2>2
<1>3. \A k \in 0 .. n - 1 : k \in G => k + 1 \in G
  <2> SUFFICES ASSUME NEW k \in 0 .. n - 1, k \in G PROVE f[k + 1] \in Seq(T)
    BY <1>1
  <2>1. f[k] \in Seq(T) /\ k + 1 \in 1 .. n
    BY <1>1
  <2>2. seq[k + 1] \in T
    BY <2>1
  <2>3. Append(f[k], seq[k + 1]) \in Seq(T)
    BY <2>1, <2>2
  <2> QED BY <1>1, <2>1, <2>3
<1>4. n \in G
  <2>1. n \in Nat
    OBVIOUS
  <2> HIDE DEF G, n
  <2>2. 0 .. n \subseteq G
    BY <1>2, <1>3, <2>1, Induction
  <2> QED BY <2>1, <2>2
<1> QED BY <1>1, <1>4 DEF G

LEMMA KeptAll ==
    ASSUME NEW T, NEW seq \in Seq(T), NEW places, 1 .. Len(seq) \subseteq places
    PROVE  Kept(seq, places) = seq
<1> DEFINE n == Len(seq)
           f == KeptRun(seq, places, n)
           Same(k) == /\ f[k] \in Seq(T) /\ Len(f[k]) = k
                      /\ \A i \in 1 .. k : f[k][i] = seq[i]
           G == {k \in 0 .. n : Same(k)}
<1>1. /\ Kept(seq, places) = f[n] /\ f[0] = <<>> /\ n \in Nat
      /\ \A k \in 0 .. n - 1 :
           f[k + 1] = IF k + 1 \in places THEN Append(f[k], seq[k + 1]) ELSE f[k]
  BY KeptSteps
<1> HIDE DEF f
<1>2. 0 \in G
  <2>1. 0 \in 0 .. n /\ f[0] = <<>>
    BY <1>1
  <2>2. f[0] \in Seq(T) /\ Len(f[0]) = 0
    BY <2>1, EmptySeq, Zenon
  <2>3. \A i \in 1 .. 0 : f[0][i] = seq[i]
    OBVIOUS
  <2> QED BY <2>1, <2>2, <2>3
<1>3. \A k \in 0 .. n - 1 : k \in G => k + 1 \in G
  <2> SUFFICES ASSUME NEW k \in 0 .. n - 1, k \in G PROVE Same(k + 1)
    BY <1>1
  <2>1. Same(k) /\ k + 1 \in 1 .. n /\ k \in Nat
    BY <1>1
  <2>2. seq[k + 1] \in T
    BY <2>1
  <2>3. f[k + 1] = Append(f[k], seq[k + 1])
    BY <1>1, <2>1
  <2>4. f[k + 1] \in Seq(T) /\ Len(f[k + 1]) = k + 1 /\ f[k + 1][k + 1] = seq[k + 1]
    BY <2>1, <2>2, <2>3
  <2>5. \A i \in 1 .. k : f[k + 1][i] = seq[i]
    BY <2>1, <2>2, <2>3, AppendProperties
  <2> QED BY <2>1, <2>4, <2>5
<1>4. n \in G
  <2>1. n \in Nat
    OBVIOUS
  <2> HIDE DEF G, n
  <2>2. 0 .. n \subseteq G
    BY <1>2, <1>3, <2>1, Induction
  <2> QED BY <2>1, <2>2
<1>5. f[n] = seq
  BY <1>4, SeqEqual
<1> QED BY <1>1, <1>5

\* What write_atomic writes parse_str reads back.
LEMMA WrittenIsRead ==
    ASSUME NEW d \in Seq(Record)
    PROVE  Written(d) \in Seq(Stanza) /\ Parsed(Written(d)) = d
<1> DEFINE w      == Written(d)
           places == {i \in DOMAIN w : IsWellFormed(w[i])}
<1>1. w \in Seq(Stanza) /\ Len(w) = Len(d) /\ DOMAIN w = 1 .. Len(d)
  <2>1. w \in [1 .. Len(d) -> Stanza]
    BY DEF Written, Stanza
  <2> HIDE DEF w
  <2> QED BY <2>1, FunctionIsSeq
<1>2. \A i \in 1 .. Len(d) : w[i].wellFormed = TRUE /\ w[i].record = d[i]
  BY DEF Written
<1> HIDE DEF w
<1>3. 1 .. Len(w) \subseteq places
  BY <1>1, <1>2 DEF IsWellFormed
<1>4. Kept(w, places) = w
  <2> HIDE DEF places
  <2> QED BY <1>1, <1>3, KeptAll
<1>5. Parsed(w) = [i \in DOMAIN w |-> w[i].record]
  BY <1>4 DEF Parsed, RecordOf
<1>6. [i \in DOMAIN w |-> w[i].record] = d
  BY <1>1, <1>2
<1> QED BY <1>1, <1>5, <1>6 DEF w

LEMMA ParsedType ==
    ASSUME NEW f \in Seq(Stanza)
    PROVE  Parsed(f) \in Seq(Record)
<1> DEFINE kept == Kept(f, {i \in DOMAIN f : IsWellFormed(f[i])})
<1>1. kept \in Seq(Stanza)
  BY KeptType
<1> HIDE DEF kept
<1>2. [i \in DOMAIN kept |-> kept[i].record] \in Seq(Record)
  <2> DEFINE r == [i \in DOMAIN kept |-> kept[i].record]
  <2>1. r \in [1 .. Len(kept) -> Record]
    <3>1. DOMAIN kept = 1 .. Len(kept)
      BY <1>1
    <3>2. \A i \in 1 .. Len(kept) : kept[i] \in Stanza
      BY <1>1, ElementOfSeq
    <3>3. \A i \in 1 .. Len(kept) : kept[i].record \in Record
      BY <3>2 DEF Stanza
    <3> QED BY <3>1, <3>3
  <2> HIDE DEF r
  <2>2. r \in Seq(Record)
    BY <1>1, <2>1, FunctionIsSeq
  <2> QED BY <2>2 DEF r
<1> QED BY <1>2 DEF Parsed, RecordOf, kept

LEMMA ChangedType ==
    ASSUME NEW d \in Seq(Record), NEW change \in StatusChange
    PROVE  Changed(d, change) \in Seq(Record)
<1>1. CASE change \in SetStatus
  <2>1. RecordFor(change) \in Record
    BY <1>1 DEF SetStatus, RecordFor, Record
  <2>2. Upserted(d, change) \in Seq(Record)
    BY <2>1 DEF Upserted
  <2> QED BY <1>1, <2>2 DEF Changed, SetStatus
<1>2. CASE change \in Removal
  <2>1. Removed(d, change) \in Seq(Record)
    BY KeptType DEF Removed
  <2> QED BY <1>2, <2>1 DEF Changed, Removal
<1> QED BY <1>1, <1>2 DEF StatusChange

\* The loop of apply_changes, its first n turns.
ChangedBody(f, d, b, n) ==
    [k \in 0 .. n |-> IF k = 0 THEN d ELSE Changed(f[k - 1], b[k])]
ChangedRun(d, b, n) == CHOOSE f : f = ChangedBody(f, d, b, n)

LEMMA ChangedRuns ==
    ASSUME NEW d, NEW b, NEW n \in Nat
    PROVE  ChangedRun(d, b, n) = ChangedBody(ChangedRun(d, b, n), d, b, n)
<1> DEFINE G == {k \in 0 .. n : \E f : f = ChangedBody(f, d, b, k)}
<1>1. 0 \in G
  <2>1. [k \in 0 .. 0 |-> d] = ChangedBody([k \in 0 .. 0 |-> d], d, b, 0)
    BY DEF ChangedBody
  <2> QED BY <2>1
<1>2. ASSUME NEW k \in 0 .. n - 1, k \in G PROVE k + 1 \in G
  <2>1. PICK f : f = ChangedBody(f, d, b, k)
    BY <1>2
  <2> DEFINE g == [i \in 0 .. k + 1 |->
                      IF i = 0 THEN d ELSE Changed(f[i - 1], b[i])]
  <2>2. \A i \in 0 .. k : g[i] = f[i]
    <3>1. \A i \in 0 .. k : g[i] = ChangedBody(f, d, b, k)[i]
      BY DEF ChangedBody
    <3> QED BY <2>1, <3>1, Zenon
  <2>3. \A i \in 0 .. k + 1 : i # 0 => i - 1 \in 0 .. k
    OBVIOUS
  <2>4. g = ChangedBody(g, d, b, k + 1)
    BY <2>2, <2>3 DEF ChangedBody
  <2> QED BY <2>4
<1>3. n \in G
  <2>1. \A k \in 0 .. n - 1 : k \in G => k + 1 \in G
    BY <1>2
  <2> HIDE DEF G
  <2> QED BY <1>1, <2>1, Induction
<1> QED BY <1>3 DEF ChangedRun

LEMMA ChangedStart ==
    ASSUME NEW d, NEW b, NEW n \in Nat
    PROVE  /\ ChangedRun(d, b, n)[0] = d
           /\ \A k \in 0 .. n - 1 :
                ChangedRun(d, b, n)[k + 1] = Changed(ChangedRun(d, b, n)[k], b[k + 1])
<1> DEFINE f == ChangedRun(d, b, n)
           e == ChangedBody(f, d, b, n)
<1>1. f = e
  BY ChangedRuns
<1>2. e[0] = d
  BY DEF ChangedBody
<1>3. \A k \in 0 .. n - 1 : e[k + 1] = Changed(f[k], b[k + 1])
  BY DEF ChangedBody
<1> HIDE DEF f, e
<1>4. f[0] = d /\ \A k \in 0 .. n - 1 : f[k + 1] = Changed(f[k], b[k + 1])
  BY <1>1, <1>2, <1>3
<1> QED BY <1>4 DEF f

\* A longer run of the loop begins like a shorter one.
LEMMA ChangedPrefix ==
    ASSUME NEW d, NEW b, NEW n \in Nat
    PROVE  ChangedRun(d, b, n + 1)[n] = ChangedRun(d, b, n)[n]
<1> DEFINE f == ChangedRun(d, b, n)
           g == ChangedRun(d, b, n + 1)
           G == {k \in 0 .. n : g[k] = f[k]}
<1>1. /\ f[0] = d
      /\ \A k \in 0 .. n - 1 : f[k + 1] = Changed(f[k], b[k + 1])
  BY ChangedStart
<1>2. /\ g[0] = d
      /\ \A k \in 0 .. n + 1 - 1 : g[k + 1] = Changed(g[k], b[k + 1])
  <2>1. n + 1 \in Nat
    OBVIOUS
  <2> QED BY <2>1, ChangedStart
<1> HIDE DEF f, g
<1>3. 0 \in G
  BY <1>1, <1>2
<1>4. \A k \in 0 .. n - 1 : k \in G => k + 1 \in G
  <2> SUFFICES ASSUME NEW k \in 0 .. n - 1, k \in G PROVE k + 1 \in G
    OBVIOUS
  <2>1. f[k + 1] = Changed(f[k], b[k + 1]) /\ g[k + 1] = Changed(g[k], b[k + 1])
    <3>1. k \in 0 .. n + 1 - 1
      OBVIOUS
    <3> QED BY <1>1, <1>2, <3>1
  <2>2. g[k] = f[k] /\ k + 1 \in 0 .. n
    OBVIOUS
  <2> QED BY <2>1, <2>2
<1> HIDE DEF G
<1>5. 0 .. n \subseteq G
  BY <1>3, <1>4, Induction
<1> QED BY <1>5 DEF G, f, g

\* What the changes of a batch make of a database, one after another.
LEMMA ChangedBySteps ==
    ASSUME NEW d, NEW b, NEW n \in Nat
    PROVE  /\ ChangedBy(d, b, 0) = d
           /\ ChangedBy(d, b, n + 1) = Changed(ChangedBy(d, b, n), b[n + 1])
<1>1. \A k : ChangedBy(d, b, k) = ChangedRun(d, b, k)[k]
  BY DEF ChangedBy, ChangedRun, ChangedBody
<1>2. ChangedRun(d, b, 0)[0] = d
  BY ChangedStart
<1>3. ChangedRun(d, b, n + 1)[n + 1] = Changed(ChangedRun(d, b, n + 1)[n], b[n + 1])
  <2>1. n + 1 \in Nat /\ n \in 0 .. n + 1 - 1
    OBVIOUS
  <2> QED BY <2>1, ChangedStart
<1>4. ChangedRun(d, b, n + 1)[n] = ChangedRun(d, b, n)[n]
  BY ChangedPrefix
<1> QED BY <1>1, <1>2, <1>3, <1>4

LEMMA ChangedByType ==
    ASSUME NEW d \in Seq(Record), NEW b \in Batch, NEW n \in 0 .. Len(b)
    PROVE  ChangedBy(d, b, n) \in Seq(Record)
<1> DEFINE G == {k \in 0 .. n : ChangedBy(d, b, k) \in Seq(Record)}
<1>1. n \in Nat /\ Len(b) \in Nat
  BY DEF Batch
<1>2. 0 \in G
  BY <1>1, ChangedBySteps
<1>3. \A k \in 0 .. n - 1 : k \in G => k + 1 \in G
  <2> SUFFICES ASSUME NEW k \in 0 .. n - 1, k \in G
               PROVE  k + 1 \in 0 .. n /\ ChangedBy(d, b, k + 1) \in Seq(Record)
    OBVIOUS
  <2>1. k \in Nat /\ k + 1 \in 0 .. n /\ k + 1 \in 1 .. Len(b)
    BY <1>1
  <2>2. b[k + 1] \in StatusChange
    BY <2>1, ElementOfSeq DEF Batch
  <2>3. ChangedBy(d, b, k) \in Seq(Record)
    OBVIOUS
  <2> QED BY <2>1, <2>2, <2>3, ChangedBySteps, ChangedType
<1> HIDE DEF G
<1>4. 0 .. n \subseteq G
  BY <1>1, <1>2, <1>3, Induction
<1> QED BY <1>1, <1>4 DEF G

-----------------------------------------------------------------------------
(* The batches of the log, replayed. *)

ReplayBody(f, b, l, n) ==
    [k \in 0 .. n |-> IF k = 0 THEN b ELSE ApplyChanges(f[k - 1], l[k])]
ReplayRun(b, l, n) == CHOOSE f : f = ReplayBody(f, b, l, n)

LEMMA ReplayRuns ==
    ASSUME NEW b, NEW l, NEW n \in Nat
    PROVE  ReplayRun(b, l, n) = ReplayBody(ReplayRun(b, l, n), b, l, n)
<1> DEFINE G == {k \in 0 .. n : \E f : f = ReplayBody(f, b, l, k)}
<1>1. 0 \in G
  <2>1. [k \in 0 .. 0 |-> b] = ReplayBody([k \in 0 .. 0 |-> b], b, l, 0)
    BY DEF ReplayBody
  <2> QED BY <2>1
<1>2. ASSUME NEW k \in 0 .. n - 1, k \in G PROVE k + 1 \in G
  <2>1. PICK f : f = ReplayBody(f, b, l, k)
    BY <1>2
  <2> DEFINE g == [i \in 0 .. k + 1 |->
                      IF i = 0 THEN b ELSE ApplyChanges(f[i - 1], l[i])]
  <2>2. \A i \in 0 .. k : g[i] = f[i]
    <3>1. \A i \in 0 .. k : g[i] = ReplayBody(f, b, l, k)[i]
      BY DEF ReplayBody
    <3> QED BY <2>1, <3>1, Zenon
  <2>3. \A i \in 0 .. k + 1 : i # 0 => i - 1 \in 0 .. k
    OBVIOUS
  <2>4. g = ReplayBody(g, b, l, k + 1)
    BY <2>2, <2>3 DEF ReplayBody
  <2> QED BY <2>4
<1>3. n \in G
  <2>1. \A k \in 0 .. n - 1 : k \in G => k + 1 \in G
    BY <1>2
  <2> HIDE DEF G
  <2> QED BY <1>1, <2>1, Induction
<1> QED BY <1>3 DEF ReplayRun

LEMMA ReplaySteps ==
    ASSUME NEW b, NEW l, NEW n \in Nat
    PROVE  /\ ReplayRun(b, l, n)[0] = b
           /\ \A k \in 0 .. n - 1 : ReplayRun(b, l, n)[k + 1]
                                      = ApplyChanges(ReplayRun(b, l, n)[k], l[k + 1])
<1> DEFINE f == ReplayRun(b, l, n)
           e == ReplayBody(f, b, l, n)
<1>1. f = e
  BY ReplayRuns
<1>2. e[0] = b
  BY DEF ReplayBody
<1>3. \A k \in 0 .. n - 1 : e[k + 1] = ApplyChanges(f[k], l[k + 1])
  BY DEF ReplayBody
<1> HIDE DEF f, e
<1>4. f[0] = b /\ \A k \in 0 .. n - 1 : f[k + 1] = ApplyChanges(f[k], l[k + 1])
  BY <1>1, <1>2, <1>3
<1> QED BY <1>4 DEF f

\* Only the first n batches of a log count for what they replay to.
LEMMA ReplayPrefix ==
    ASSUME NEW b, NEW l, NEW long, NEW n \in Nat, NEW m \in Nat, n <= m,
           \A k \in 1 .. n : long[k] = l[k]
    PROVE  ReplayRun(b, long, m)[n] = ReplayRun(b, l, n)[n]
<1> DEFINE f == ReplayRun(b, l, n)
           g == ReplayRun(b, long, m)
           G == {k \in 0 .. n : g[k] = f[k]}
<1>1. f[0] = b /\ \A k \in 0 .. n - 1 : f[k + 1] = ApplyChanges(f[k], l[k + 1])
  BY ReplaySteps
<1>2. g[0] = b /\ \A k \in 0 .. m - 1 : g[k + 1] = ApplyChanges(g[k], long[k + 1])
  BY ReplaySteps
<1> HIDE DEF f, g
<1>3. 0 \in G
  BY <1>1, <1>2
<1>4. \A k \in 0 .. n - 1 : k \in G => k + 1 \in G
  <2> SUFFICES ASSUME NEW k \in 0 .. n - 1, k \in G PROVE k + 1 \in G
    OBVIOUS
  <2>1. k \in 0 .. m - 1 /\ k + 1 \in 1 .. n /\ long[k + 1] = l[k + 1]
    OBVIOUS
  <2>2. f[k + 1] = ApplyChanges(f[k], l[k + 1])
        /\ g[k + 1] = ApplyChanges(g[k], l[k + 1])
    BY <1>1, <1>2, <2>1
  <2>3. g[k] = f[k] /\ k + 1 \in 0 .. n
    OBVIOUS
  <2> QED BY <2>2, <2>3
<1> HIDE DEF G
<1>5. 0 .. n \subseteq G
  BY <1>3, <1>4, Induction
<1> QED BY <1>5 DEF G, f, g

LEMMA ReplayedIsRun == \A n : Replayed(n) = ReplayRun(base, log, n)[n]
BY DEF Replayed, ReplayRun, ReplayBody

\* One more batch.
LEMMA ReplayedAppends ==
    ASSUME NEW n \in Nat, NEW l, \A k \in 1 .. n : l[k] = log[k]
    PROVE  /\ ReplayRun(base, l, n)[n] = Replayed(n)
           /\ ReplayRun(base, l, n + 1)[n + 1] = ApplyChanges(Replayed(n), l[n + 1])
<1>1. ReplayRun(base, l, n)[n] = Replayed(n)
  BY ReplayPrefix, ReplayedIsRun
<1>2. ReplayRun(base, l, n + 1)[n] = ReplayRun(base, l, n)[n]
  <2>1. n + 1 \in Nat /\ n <= n + 1
    OBVIOUS
  <2> QED BY <2>1, ReplayPrefix
<1>3. ReplayRun(base, l, n + 1)[n + 1]
        = ApplyChanges(ReplayRun(base, l, n + 1)[n], l[n + 1])
  <2>1. n + 1 \in Nat /\ n \in 0 .. n + 1 - 1
    OBVIOUS
  <2> QED BY <2>1, ReplaySteps
<1> QED BY <1>1, <1>2, <1>3

-----------------------------------------------------------------------------
(* The file, and the database while nobody changes it, hold whole batches. *)

\* Between a writer's first change and its last the database is that many
\* changes past the log; a temporary file that waits for its rename holds all
\* of the log.
ChangesSoFar ==
    \A t \in Writers :
        /\ pc[t] = "start" => done[t] = 0
        /\ pc[t] = "changing" =>
             /\ done[t] \in 0 .. Len(batch[t])
             /\ db = ChangedBy(Replayed(Len(log)), batch[t], done[t])
TempIsWhole ==
    \A t \in Writers : pc[t] = "written" => /\ temp[t] \in Seq(Stanza)
                                            /\ Parsed(temp[t]) = Replayed(Len(log))
WholeTypes == /\ db \in Seq(Record)
              /\ file \in Seq(Stanza)
              /\ done \in [Writers -> Nat]
              /\ DOMAIN temp = Writers

WholeInv ==
    /\ WholeTypes
    /\ Parsed(file) = Replayed(saved)
    /\ writing = {} => db = Replayed(Len(log))
    /\ ChangesSoFar
    /\ TempIsWhole

LEMMA ReplayedNext == \A n : Replayed(n)' = ReplayRun(base', log', n)[n]
BY DEF Replayed, ReplayRun, ReplayBody

LEMMA ReplayedKeeps ==
    ASSUME NEW n \in Nat, base' = base, \A k \in 1 .. n : log'[k] = log[k]
    PROVE  Replayed(n)' = Replayed(n)
BY ReplayedNext, ReplayedAppends

LEMMA WholeInit == Init => WholeInv
<1> SUFFICES ASSUME Init PROVE WholeInv
  OBVIOUS
<1>1. file \in Seq(Stanza) /\ db = Parsed(file) /\ base = Parsed(file)
  BY ThreadsAssumption DEF Init
<1>2. Len(log) = 0 /\ saved = 0
  BY DEF Init
<1>3. Replayed(0) = base
  BY ReplayedIsRun, ReplaySteps
<1>4. WholeTypes
  BY <1>1, ParsedType DEF Init, WholeTypes
<1>5. ChangesSoFar /\ TempIsWhole
  BY DEF Init, ChangesSoFar, TempIsWhole, Threads
<1> QED BY <1>1, <1>2, <1>3, <1>4, <1>5 DEF WholeInv

\* A step that changes neither the log nor a database, nor what a thread that
\* changes or renames relies on.
LEMMA WholeQuiet ==
    ASSUME DurableInv, WholeInv, UNCHANGED <<log, base, saved, file, db, batch, temp, done>>,
           writing' = {} => writing = {},
           \A t \in Writers : /\ pc'[t] = "start" => pc[t] = "start"
                              /\ pc'[t] = "changing" => pc[t] = "changing"
                              /\ pc'[t] = "written" => pc[t] = "written"
    PROVE  WholeInv'
<1>1. \A n : Replayed(n)' = Replayed(n)
  BY ReplayedNext, ReplayedIsRun
<1>2. Replayed(saved)' = Replayed(saved) /\ Replayed(Len(log))' = Replayed(Len(log))
  BY DEF Replayed
<1>3. WholeTypes'
  BY DEF WholeInv, WholeTypes
<1>4. Parsed(file)' = Replayed(saved)'
  BY <1>2 DEF WholeInv
<1>5. writing' = {} => db' = Replayed(Len(log))'
  BY <1>2 DEF WholeInv
<1>6. ChangesSoFar'
  BY <1>2 DEF WholeInv, ChangesSoFar
<1>7. TempIsWhole'
  BY <1>2 DEF WholeInv, TempIsWhole
<1> QED BY <1>3, <1>4, <1>5, <1>6, <1>7 DEF WholeInv

LEMMA PhaseOf ==
    ASSUME DurableInv, NEW t \in Threads, NEW from, NEW to, Goes(t, from, to)
    PROVE  /\ pc[t] = from /\ pc'[t] = to
           /\ \A u \in Threads : u # t => pc'[u] = pc[u]
           /\ Writers \subseteq Threads
BY DEF Goes, DurableInv, DurableTypes, Threads

LEMMA WholeLockWrite ==
    ASSUME DurableInv, WholeInv, NEW t \in Writers, LockWrite(t)
    PROVE  WholeInv'
<1>1. /\ pc[t] = "start" /\ pc'[t] = "changing" /\ t \in Threads
      /\ \A u \in Writers : u # t => pc'[u] = pc[u]
  BY PhaseOf DEF LockWrite, Threads
<1>2. /\ UNCHANGED <<file, db, batch, done, temp, log, saved, base>>
      /\ writing = {} /\ writing' = {t}
  BY DEF LockWrite
<1>3. Replayed(saved)' = Replayed(saved) /\ Replayed(Len(log))' = Replayed(Len(log))
  BY <1>2 DEF Replayed
<1>4. db = Replayed(Len(log)) /\ done[t] = 0
  BY <1>1, <1>2 DEF WholeInv, ChangesSoFar
<1>5. db = ChangedBy(Replayed(Len(log)), batch[t], 0) /\ 0 \in 0 .. Len(batch[t])
  <2>1. Len(batch[t]) \in Nat
    BY DEF DurableInv, DurableTypes, Batch
  <2> QED BY <1>4, <2>1, ChangedBySteps
<1>6. WholeTypes'
  BY <1>2 DEF WholeInv, WholeTypes
<1>7. ChangesSoFar'
  BY <1>1, <1>2, <1>3, <1>4, <1>5 DEF WholeInv, ChangesSoFar
<1>8. TempIsWhole'
  BY <1>1, <1>2, <1>3 DEF WholeInv, TempIsWhole
<1> QED BY <1>2, <1>3, <1>6, <1>7, <1>8 DEF WholeInv

LEMMA WholeApplyChange ==
    ASSUME DurableInv, WholeInv, NEW t \in Writers, ApplyChange(t)
    PROVE  WholeInv'
<1> DEFINE before == Replayed(Len(log))
<1>1. /\ UNCHANGED <<file, batch, pc, temp, log, saved, base, writing>>
      /\ pc[t] = "changing" /\ done[t] < Len(batch[t])
      /\ db' = Changed(db, batch[t][done[t] + 1])
      /\ done' = [done EXCEPT ![t] = @ + 1]
  BY DEF ApplyChange
<1>2. Replayed(saved)' = Replayed(saved) /\ Replayed(Len(log))' = before
  BY <1>1 DEF Replayed
<1>3. /\ writing = {t} /\ guards = {} 
      /\ \A u \in Writers : u # t => pc[u] # "changing"
      /\ \A u \in Writers : pc[u] # "written"
  BY <1>1 DEF DurableInv, LocksHeld, GuardExcludesWriter
<1>4. /\ done[t] \in Nat /\ batch[t] \in Batch /\ Len(batch[t]) \in Nat
      /\ done[t] + 1 \in 1 .. Len(batch[t])
  BY <1>1 DEF WholeInv, WholeTypes, DurableInv, DurableTypes, Batch
<1>5. db' = ChangedBy(before, batch[t], done[t] + 1)
  <2>1. db = ChangedBy(before, batch[t], done[t])
    BY <1>1 DEF WholeInv, ChangesSoFar
  <2> QED BY <1>1, <1>4, <2>1, ChangedBySteps
<1>6. db' \in Seq(Record)
  <2>1. batch[t][done[t] + 1] \in StatusChange
    BY <1>4, ElementOfSeq DEF Batch
  <2> QED BY <1>1, <2>1, ChangedType DEF WholeInv, WholeTypes
<1>7. /\ done' \in [Writers -> Nat] /\ done'[t] = done[t] + 1
      /\ \A u \in Writers : u # t => done'[u] = done[u]
  BY <1>1, <1>4 DEF WholeInv, WholeTypes
<1>8. WholeTypes'
  BY <1>1, <1>6, <1>7 DEF WholeInv, WholeTypes
<1>9. ChangesSoFar'
  <2> SUFFICES ASSUME NEW u \in Writers
               PROVE  /\ pc'[u] = "start" => done'[u] = 0
                      /\ pc'[u] = "changing" =>
                           /\ done'[u] \in 0 .. Len(batch'[u])
                           /\ db' = ChangedBy(Replayed(Len(log))', batch'[u], done'[u])
    BY DEF ChangesSoFar
  <2>1. CASE u = t
    <3>1. done'[t] \in 0 .. Len(batch[t])
      BY <1>4, <1>7
    <3> QED BY <1>1, <1>2, <1>5, <1>7, <2>1, <3>1
  <2>2. CASE u # t
    BY <1>1, <1>3, <1>7, <2>2 DEF WholeInv, ChangesSoFar
  <2> QED BY <2>1, <2>2
<1>10. TempIsWhole'
  BY <1>1, <1>3 DEF TempIsWhole
<1>11. Parsed(file)' = Replayed(saved)' /\ writing' # {}
  BY <1>1, <1>2, <1>3 DEF WholeInv
<1> QED BY <1>8, <1>9, <1>10, <1>11 DEF WholeInv

LEMMA WholeUnlockWrite ==
    ASSUME DurableInv, WholeInv, NEW t \in Writers, UnlockWrite(t)
    PROVE  WholeInv'
<1> DEFINE n == Len(log)
<1>1. /\ pc[t] = "changing" /\ pc'[t] = "changed" /\ t \in Threads
      /\ \A u \in Writers : u # t => pc'[u] = pc[u]
  BY PhaseOf DEF UnlockWrite, Threads
<1>2. /\ UNCHANGED <<file, db, batch, done, temp, saved, base>>
      /\ done[t] = Len(batch[t]) /\ log' = Append(log, batch[t])
  BY DEF UnlockWrite
<1>3. writing = {t} /\ guards = {}
  BY WriterInside DEF UnlockWrite
<1>4. /\ log \in Seq(Batch) /\ batch[t] \in Batch /\ n \in Nat
      /\ saved \in Nat /\ saved <= n
  BY DEF DurableInv, DurableTypes
<1>5. /\ Len(log') = n + 1 /\ log'[n + 1] = batch[t]
      /\ \A k \in 1 .. n : log'[k] = log[k]
  BY <1>2, <1>4, AppendProperties
<1>6. ReplayRun(base, log', n + 1)[n + 1] = ApplyChanges(Replayed(n), batch[t])
  BY <1>4, <1>5, ReplayedAppends
<1>7. Replayed(Len(log))' = ApplyChanges(Replayed(n), batch[t])
  <2>1. Replayed(Len(log))' = ReplayRun(base', log', Len(log'))[Len(log')]
    BY DEF Replayed, ReplayRun, ReplayBody
  <2> QED BY <1>2, <1>5, <1>6, <2>1
<1>8. db = ApplyChanges(Replayed(n), batch[t])
  BY <1>1, <1>2 DEF WholeInv, ChangesSoFar, ApplyChanges
<1>9. Replayed(saved)' = Replayed(saved)
  <2>1. \A k \in 1 .. saved : log'[k] = log[k]
    BY <1>4, <1>5
  <2>2. Replayed(saved)' = ReplayRun(base', log', saved')[saved']
    BY DEF Replayed, ReplayRun, ReplayBody
  <2> QED BY <1>2, <1>4, <2>1, <2>2, ReplayedAppends
<1>10. \A u \in Writers : pc'[u] \notin {"changing", "written"}
  BY <1>1, <1>3 DEF DurableInv, LocksHeld
<1>11. ChangesSoFar'
  BY <1>1, <1>2, <1>10 DEF WholeInv, ChangesSoFar
<1>12. TempIsWhole'
  BY <1>10 DEF TempIsWhole
<1>13. WholeTypes'
  BY <1>2 DEF WholeInv, WholeTypes
<1>14. Parsed(file)' = Replayed(saved)' /\ db' = Replayed(Len(log))'
  BY <1>2, <1>7, <1>8, <1>9 DEF WholeInv
<1> QED BY <1>11, <1>12, <1>13, <1>14 DEF WholeInv

LEMMA WholeWriteTemp ==
    ASSUME DurableInv, WholeInv, NEW t \in Writers, WriteTemp(t)
    PROVE  WholeInv'
<1>1. /\ pc[t] = "saving" /\ pc'[t] = "written" /\ t \in Threads
      /\ \A u \in Writers : u # t => pc'[u] = pc[u]
  BY PhaseOf DEF WriteTemp, Threads
<1>2. /\ UNCHANGED <<file, db, batch, done, log, saved, base, writing>>
      /\ temp' = [temp EXCEPT ![t] = Written(db)]
  BY DEF WriteTemp
<1>3. Replayed(saved)' = Replayed(saved) /\ Replayed(Len(log))' = Replayed(Len(log))
  BY <1>2 DEF Replayed
<1>4. db = Replayed(Len(log)) /\ db \in Seq(Record)
  BY <1>1 DEF DurableInv, LocksHeld, GuardExcludesWriter, WholeInv, WholeTypes
<1>5. /\ temp'[t] = Written(db) /\ DOMAIN temp' = Writers
      /\ \A u \in Writers : u # t => temp'[u] = temp[u]
  BY <1>2 DEF WholeInv, WholeTypes
<1>6. Written(db) \in Seq(Stanza) /\ Parsed(Written(db)) = db
  BY <1>4, WrittenIsRead
<1>7. TempIsWhole'
  BY <1>1, <1>3, <1>4, <1>5, <1>6 DEF WholeInv, TempIsWhole
<1>8. ChangesSoFar'
  BY <1>1, <1>2, <1>3 DEF WholeInv, ChangesSoFar
<1>9. WholeTypes'
  BY <1>2, <1>5 DEF WholeInv, WholeTypes
<1> QED BY <1>2, <1>3, <1>7, <1>8, <1>9 DEF WholeInv

LEMMA WholePersist ==
    ASSUME DurableInv, WholeInv, NEW t \in Writers, Persist(t)
    PROVE  WholeInv'
<1>1. /\ pc[t] = "written" /\ pc'[t] = "ok" /\ t \in Threads
      /\ \A u \in Writers : u # t => pc'[u] = pc[u]
  BY PhaseOf DEF Persist, Threads
<1>2. /\ UNCHANGED <<db, batch, done, temp, log, base, writing>>
      /\ file' = temp[t] /\ saved' = Len(log)
  BY <1>1 DEF Persist, DurableInv, TempIsCurrent
<1>3. /\ Replayed(Len(log))' = Replayed(Len(log))
      /\ Replayed(saved)' = Replayed(Len(log))
  BY <1>2 DEF Replayed
<1>4. temp[t] \in Seq(Stanza) /\ Parsed(temp[t]) = Replayed(Len(log))
  BY <1>1 DEF WholeInv, TempIsWhole
<1>5. Parsed(file)' = Replayed(saved)'
  BY <1>2, <1>3, <1>4
<1>6. WholeTypes'
  BY <1>2, <1>4 DEF WholeInv, WholeTypes
<1>7. ChangesSoFar'
  BY <1>1, <1>2, <1>3 DEF WholeInv, ChangesSoFar
<1>8. TempIsWhole'
  BY <1>1, <1>2, <1>3 DEF WholeInv, TempIsWhole
<1> QED BY <1>2, <1>3, <1>5, <1>6, <1>7, <1>8 DEF WholeInv

LEMMA WholeRestart ==
    ASSUME DurableInv, WholeInv, Restart
    PROVE  WholeInv'
<1>1. /\ UNCHANGED <<file, batch, done, temp, saved, base>>
      /\ db' = Parsed(file) /\ log' = SubSeq(log, 1, saved)
  BY DEF Restart
<1>2. log \in Seq(Batch) /\ saved \in Nat /\ saved <= Len(log)
  BY DEF DurableInv, DurableTypes
<1>3. Len(log') = saved /\ \A k \in 1 .. saved : log'[k] = log[k]
  BY <1>1, <1>2, SubSeqProperties
<1>4. ReplayRun(base, log', saved)[saved] = Replayed(saved)
  BY <1>2, <1>3, ReplayedAppends
<1>5. Replayed(saved)' = Replayed(saved) /\ Replayed(Len(log))' = Replayed(saved)
  <2>1. /\ Replayed(saved)' = ReplayRun(base', log', saved')[saved']
        /\ Replayed(Len(log))' = ReplayRun(base', log', Len(log'))[Len(log')]
    BY DEF Replayed, ReplayRun, ReplayBody
  <2> QED BY <1>1, <1>3, <1>4, <2>1
<1>6. \A u \in Writers : /\ pc'[u] \notin {"changing", "written"}
                         /\ pc'[u] = "start" => pc[u] = "start"
  BY DEF Restart, Threads
<1>7. WholeTypes'
  BY <1>1, ParsedType DEF WholeInv, WholeTypes
<1>8. ChangesSoFar'
  BY <1>1, <1>6 DEF WholeInv, ChangesSoFar
<1>9. TempIsWhole'
  BY <1>6 DEF TempIsWhole
<1>10. Parsed(file)' = Replayed(saved)' /\ db' = Replayed(Len(log))'
  BY <1>1, <1>5 DEF WholeInv
<1> QED BY <1>7, <1>8, <1>9, <1>10 DEF WholeInv

LEMMA WholeNext ==
    ASSUME DurableInv, WholeInv, [Next]_vars
    PROVE  WholeInv'
<1>1. Writers \subseteq Threads /\ Readers \subseteq Threads
  BY DEF Threads
<1>2. CASE UNCHANGED vars
  BY <1>2, WholeQuiet DEF vars
<1>3. ASSUME NEW t \in Writers, LockRead(t) PROVE WholeInv'
  <2>1. /\ pc'[t] = "saving"
        /\ \A u \in Writers : u # t => pc'[u] = pc[u]
    BY <1>1, <1>3, PhaseOf DEF LockRead
  <2> QED BY <1>3, <2>1, WholeQuiet DEF LockRead
<1>4. ASSUME NEW t \in Writers, Fail(t) PROVE WholeInv'
  <2>1. /\ pc'[t] = "failed"
        /\ \A u \in Writers : u # t => pc'[u] = pc[u]
    BY <1>1, <1>4 DEF Fail, DurableInv, DurableTypes
  <2> QED BY <1>4, <2>1, WholeQuiet DEF Fail
<1>5. ASSUME NEW r \in Readers, TakeGuard(r) \/ DropGuard(r) PROVE WholeInv'
  <2>1. \A u \in Writers : pc'[u] = pc[u]
    BY <1>1, <1>5, PhaseOf, ThreadsAssumption DEF TakeGuard, DropGuard
  <2> QED BY <1>5, <2>1, WholeQuiet DEF TakeGuard, DropGuard
<1> QED
  BY <1>2, <1>3, <1>4, <1>5, WholeLockWrite, WholeApplyChange, WholeUnlockWrite,
     WholeWriteTemp, WholePersist, WholeRestart DEF Next, Step
-----------------------------------------------------------------------------
\* A call of apply_changes that returned Ok is in the status file and stays
\* there, whatever other threads, failures and restarts do, although the save
\* is made after the exclusive lock is given back.
THEOREM AcknowledgedCallsAreSaved == Spec => []AcknowledgedIsSaved
<1>1. Init => DurableInv
  BY DurableInit
<1>2. DurableInv /\ [Next]_vars => DurableInv'
  BY DurableNext
<1>3. DurableInv => AcknowledgedIsSaved
  BY DEF DurableInv
<1> QED BY <1>1, <1>2, <1>3, PTL DEF Spec

\* No rename replaces the status file by an earlier state of the database.
THEOREM FileNeverGoesBackHolds == Spec => FileNeverGoesBack
<1>1. Init => DurableInv
  BY DurableInit
<1>2. DurableInv /\ [Next]_vars => DurableInv' /\ [saved' >= saved]_vars
  BY DurableNext
<1> QED BY <1>1, <1>2, PTL DEF Spec, FileNeverGoesBack

\* At every moment, a stop of the process included, the status file holds what
\* the process first read with the first batches of the log, none of them by
\* half, and whoever holds a guard sees all that were made.
THEOREM BatchesAreWhole == Spec => []OnlyWholeBatches
<1>1. Init => DurableInv /\ WholeInv
  BY DurableInit, WholeInit
<1>2. DurableInv /\ WholeInv /\ [Next]_vars => DurableInv' /\ WholeInv'
  BY DurableNext, WholeNext
<1>3. DurableInv /\ WholeInv => OnlyWholeBatches
  BY DEF DurableInv, GuardExcludesWriter, WholeInv, OnlyWholeBatches
<1> QED BY <1>1, <1>2, <1>3, PTL DEF Spec

-----------------------------------------------------------------------------
(* Characters, numbers and runs of digits. *)

\* The least of a set of positions.
LEMMA LeastExists ==
    ASSUME NEW S \in SUBSET Nat, S # {}
    PROVE  Min(S) \in S /\ \A x \in S : Min(S) <= x
<1> DEFINE Below == OpToRel(<, Nat)
           P(x) == x \in S /\ \A y \in S : x <= y
<1>1. IsWellFoundedOn(Below, Nat)
  BY NatLessThanWellFounded
<1>2. \A x, y \in Nat : x < y => <<x, y>> \in Below
  BY DEF OpToRel
<1>3. \E m \in S : \A i \in S : ~(<<i, m>> \in Below)
  <2> HIDE DEF Below
  <2> QED BY <1>1, WFMin
<1> HIDE DEF Below
<1>4. PICK m \in S : \A i \in S : ~(<<i, m>> \in Below)
  BY <1>3
<1>5. ASSUME NEW i \in S PROVE m <= i
  <2>1. m \in Nat /\ i \in Nat /\ ~(i < m)
    BY <1>2, <1>4
  <2> QED BY <2>1
<1>6. P(m)
  BY <1>4, <1>5
<1>7. Min(S) = CHOOSE x : P(x)
  BY DEF Min
<1>8. P(CHOOSE x : P(x))
  BY <1>6
<1> QED BY <1>7, <1>8

\* The greatest of a set of positions that has an end.
LEMMA GreatestExists ==
    ASSUME NEW n \in Nat, NEW S \in SUBSET (0 .. n), S # {}
    PROVE  Max(S) \in S /\ \A x \in S : x <= Max(S)
<1> DEFINE T == {n - x : x \in S}
           P(x) == x \in S /\ \A y \in S : x >= y
<1>1. T \in SUBSET Nat /\ T # {}
  <2>1. PICK x : x \in S
    OBVIOUS
  <2>2. n - x \in T
    BY <2>1
  <2>3. \A y \in S : n - y \in Nat
    OBVIOUS
  <2> QED BY <2>2, <2>3
<1>2. Min(T) \in T /\ \A x \in T : Min(T) <= x
  BY <1>1, LeastExists
<1>3. PICK m \in S : Min(T) = n - m
  BY <1>2
<1>4. ASSUME NEW x \in S PROVE m >= x
  <2>1. n - m <= n - x
    BY <1>2, <1>3
  <2>2. m \in 0 .. n /\ x \in 0 .. n
    BY <1>3
  <2> QED BY <2>1, <2>2
<1>5. P(m)
  BY <1>3, <1>4
<1>6. Max(S) = CHOOSE x : P(x)
  BY DEF Max
<1>7. P(CHOOSE x : P(x))
  BY <1>5
<1>8. Max(S) \in S /\ \A x \in S : Max(S) >= x
  BY <1>6, <1>7
<1> QED
  <2>1. \A x \in S : x \in Int
    OBVIOUS
  <2> QED BY <1>8, <2>1

LEMMA TextFacts ==
    ASSUME NEW s \in Text
    PROVE  /\ Len(s) \in Nat /\ DOMAIN s = 1 .. Len(s)
           /\ \A i \in 1 .. Len(s) : s[i] \in DOMAIN Rank
BY DEF Text

LEMMA CharFacts ==
    /\ \A c \in DOMAIN Rank : Rank[c] \in Nat
    /\ \A c \in Digits : c \in DOMAIN Rank /\ Rank[c] - 48 \in 0 .. 9
    /\ \A c \in Letters : Rank[c] > 0
    /\ \A k \in 0 .. 9 : Digit(k) \in Digits /\ Rank[Digit(k)] - 48 = k
    /\ Marks \cap Digits = {}
<1>1. \A c \in DOMAIN Rank : Rank[c] \in Nat
  BY VersionAssumption
<1>2. ASSUME NEW k \in 0 .. 9 PROVE Digit(k) \in Digits /\ Rank[Digit(k)] - 48 = k
  <2>1. 48 + k \in {Rank[c] : c \in Digits}
    BY VersionAssumption
  <2>2. \E d \in Digits : Rank[d] = 48 + k
    BY <2>1
  <2>3. Digit(k) \in Digits /\ Rank[Digit(k)] = 48 + k
    BY <2>2 DEF Digit
  <2> QED BY <2>3
<1>3. \A c \in Digits : c \in DOMAIN Rank /\ Rank[c] - 48 \in 0 .. 9
  BY DEF Digits
<1>4. \A c \in Letters : Rank[c] > 0
  BY DEF Letters
<1>5. Marks \cap Digits = {}
  BY VersionAssumption
<1> QED BY <1>1, <1>2, <1>3, <1>4, <1>5

\* The order of what is no digit is not the order of an end.
LEMMA CharOrderType ==
    ASSUME NEW s \in Text, NEW i \in 1 .. Len(s) + 1
    PROVE  CharOrder(s, i) \in Int /\ (CharOrder(s, i) = 0 <=> AtEnd(s, i))
<1>1. CASE AtEnd(s, i)
  BY <1>1 DEF CharOrder
<1>2. CASE ~AtEnd(s, i)
  <2>1. i \in 1 .. Len(s)
    BY <1>2, TextFacts DEF AtEnd
  <2>2. Rank[s[i]] \in Nat /\ (s[i] \in Letters => Rank[s[i]] > 0)
    BY <2>1, TextFacts, CharFacts
  <2> QED BY <1>2, <2>2 DEF CharOrder
<1> QED BY <1>1, <1>2

\* A run of digits ends where the next character is none.
LEMMA PastRunFacts ==
    ASSUME NEW s \in Text, NEW i \in 1 .. Len(s) + 1
    PROVE  LET j == PastRun(s, i) IN
           /\ j \in i .. Len(s) + 1
           /\ \A k \in i .. j - 1 : s[k] \in Digits
           /\ j <= Len(s) => s[j] \notin Digits
           /\ i <= Len(s) /\ s[i] \in Digits => j > i
<1> DEFINE others == {k \in i .. Len(s) : s[k] \notin Digits}
           S == others \cup {Len(s) + 1}
           j == PastRun(s, i)
<1>1. Len(s) \in Nat /\ i \in Nat
  BY TextFacts
<1>2. S \in SUBSET Nat /\ S # {}
  BY <1>1
<1>3. j \in S /\ \A x \in S : j <= x
  BY <1>2, LeastExists DEF PastRun
<1>4. j \in i .. Len(s) + 1
  BY <1>1, <1>3
<1> HIDE DEF j
<1>5. ASSUME NEW k \in i .. j - 1 PROVE s[k] \in Digits
  <2>1. k \in i .. Len(s) /\ ~(j <= k)
    BY <1>1, <1>4, <1>5
  <2>2. k \notin S
    BY <1>3, <2>1
  <2> QED BY <2>1, <2>2
<1>6. j <= Len(s) => s[j] \notin Digits
  BY <1>1, <1>3
<1>7. i <= Len(s) /\ s[i] \in Digits => j > i
  BY <1>1, <1>4, <1>6
<1> QED BY <1>4, <1>5, <1>6, <1>7 DEF j

\* The loop of Number.
NumberTo(f, s, i, j) == [k \in i .. j |-> IF k = i THEN 0 ELSE f[k - 1] * 10 + Rank[s[k - 1]] - 48]
NumberRun(s, i, j) == CHOOSE f : f = NumberTo(f, s, i, j)

LEMMA NumberRuns ==
    ASSUME NEW s, NEW i \in Nat, NEW n \in Nat
    PROVE  NumberRun(s, i, i + n) = NumberTo(NumberRun(s, i, i + n), s, i, i + n)
<1> DEFINE G == {k \in 0 .. n : \E f : f = NumberTo(f, s, i, i + k)}
<1>1. 0 \in G
  <2>1. [k \in i .. i |-> 0] = NumberTo([k \in i .. i |-> 0], s, i, i)
    BY DEF NumberTo
  <2> QED BY <2>1
<1>2. ASSUME NEW m \in 0 .. n - 1, m \in G PROVE m + 1 \in G
  <2>1. PICK f : f = NumberTo(f, s, i, i + m)
    BY <1>2
  <2> DEFINE g == [k \in i .. i + (m + 1) |-> IF k = i THEN 0 ELSE f[k - 1] * 10 + Rank[s[k - 1]] - 48]
  <2>2. \A k \in i .. i + m : g[k] = f[k]
    <3>1. \A k \in i .. i + m : g[k] = NumberTo(f, s, i, i + m)[k]
      BY DEF NumberTo
    <3> QED BY <2>1, <3>1, Zenon
  <2>3. \A k \in i .. i + (m + 1) : k # i => k - 1 \in i .. i + m
    OBVIOUS
  <2>4. g = NumberTo(g, s, i, i + (m + 1))
    BY <2>2, <2>3 DEF NumberTo
  <2> QED BY <2>4
<1>3. n \in G
  <2>1. \A m \in 0 .. n - 1 : m \in G => m + 1 \in G
    BY <1>2
  <2> HIDE DEF G
  <2> QED BY <1>1, <2>1, Induction
<1> QED BY <1>3 DEF NumberRun

LEMMA NumberSteps ==
    ASSUME NEW s, NEW i \in Nat, NEW j \in Nat, i <= j
    PROVE  LET f == NumberRun(s, i, j) IN
           /\ Number(s, i, j) = f[j]
           /\ f[i] = 0
           /\ \A k \in i .. j - 1 : f[k + 1] = f[k] * 10 + Rank[s[k]] - 48
<1> DEFINE f == NumberRun(s, i, j)
           b == NumberTo(f, s, i, j)
<1>1. f = b
  <2>1. j - i \in Nat /\ i + (j - i) = j
    OBVIOUS
  <2> QED BY <2>1, NumberRuns
<1>2. Number(s, i, j) = f[j]
  BY DEF Number, NumberRun, NumberTo
<1>3. b[i] = 0
  BY DEF NumberTo
<1>4. ASSUME NEW k \in i .. j - 1 PROVE b[k + 1] = f[k] * 10 + Rank[s[k]] - 48
  <2>1. k + 1 \in i .. j /\ k + 1 # i /\ (k + 1) - 1 = k
    OBVIOUS
  <2> QED BY <2>1 DEF NumberTo
<1> HIDE DEF f, b
<1>5. f[i] = 0
  BY <1>1, <1>3
<1>6. ASSUME NEW k \in i .. j - 1 PROVE f[k + 1] = f[k] * 10 + Rank[s[k]] - 48
  BY <1>1, <1>4
<1> QED BY <1>2, <1>5, <1>6 DEF f

LEMMA NoNumber == ASSUME NEW s, NEW i \in Nat PROVE Number(s, i, i) = 0
<1> DEFINE f == NumberRun(s, i, i)
<1>1. i <= i
  OBVIOUS
<1>2. Number(s, i, i) = f[i]
  BY <1>1, NumberSteps
<1>3. f[i] = 0
  BY <1>1, NumberSteps
<1> HIDE DEF f
<1> QED BY <1>2, <1>3

\* What digits spell is a number, and depends on the digits only.
LEMMA NumberType ==
    ASSUME NEW s, NEW i \in Nat, NEW j \in Nat, i <= j, \A k \in i .. j - 1 : s[k] \in Digits
    PROVE  Number(s, i, j) \in Nat
<1> DEFINE f == NumberRun(s, i, j)
           G == {k \in 0 .. j - i : f[i + k] \in Nat}
<1>1. /\ Number(s, i, j) = f[j] /\ f[i] = 0
      /\ \A k \in i .. j - 1 : f[k + 1] = f[k] * 10 + Rank[s[k]] - 48
  BY NumberSteps
<1> HIDE DEF f
<1>2. 0 \in G
  BY <1>1
<1>3. ASSUME NEW k \in 0 .. (j - i) - 1, k \in G PROVE k + 1 \in G
  <2>1. f[i + k] \in Nat /\ i + k \in i .. j - 1 /\ k + 1 \in 0 .. j - i
    BY <1>3
  <2>2. f[(i + k) + 1] = f[i + k] * 10 + Rank[s[i + k]] - 48
    BY <1>1, <2>1
  <2>3. Rank[s[i + k]] - 48 \in 0 .. 9 /\ Rank[s[i + k]] \in Nat
    BY <2>1, CharFacts
  <2>4. f[(i + k) + 1] \in Nat
    BY <2>1, <2>2, <2>3
  <2>5. (i + k) + 1 = i + (k + 1)
    OBVIOUS
  <2> QED BY <2>1, <2>4, <2>5
<1>4. j - i \in G
  <2>1. j - i \in Nat /\ \A k \in 0 .. (j - i) - 1 : k \in G => k + 1 \in G
    BY <1>3
  <2>2. j - i \in 0 .. j - i
    BY <2>1
  <2> HIDE DEF G
  <2> QED BY <1>2, <2>1, <2>2, Induction
<1>5. i + (j - i) = j
  OBVIOUS
<1> QED BY <1>1, <1>4, <1>5

Alike(s, t, i, j, l) ==
    i \in Nat /\ j \in Nat /\ l \in Nat /\ i <= j /\ j <= l /\ \A k \in i .. j - 1 : s[k] = t[k]

LEMMA NumberSame ==
    ASSUME NEW s, NEW t, NEW i, NEW j, NEW l, Alike(s, t, i, j, l)
    PROVE  NumberRun(s, i, l)[j] = Number(t, i, j)
<1>0. i \in Nat /\ j \in Nat /\ l \in Nat /\ i <= j /\ j <= l /\ \A k \in i .. j - 1 : s[k] = t[k]
  BY DEF Alike
<1> DEFINE f == NumberRun(s, i, l)
           g == NumberRun(t, i, j)
           G == {k \in 0 .. j - i : f[i + k] = g[i + k]}
<1>1. f[i] = 0 /\ \A k \in i .. l - 1 : f[k + 1] = f[k] * 10 + Rank[s[k]] - 48
  <2>1. i <= l
    BY <1>0
  <2> QED BY <1>0, <2>1, NumberSteps
<1>2. /\ Number(t, i, j) = g[j] /\ g[i] = 0
      /\ \A k \in i .. j - 1 : g[k + 1] = g[k] * 10 + Rank[t[k]] - 48
  BY <1>0, NumberSteps
<1> HIDE DEF f, g
<1>3. 0 \in G
  BY <1>0, <1>1, <1>2
<1>4. ASSUME NEW k \in 0 .. (j - i) - 1, k \in G PROVE k + 1 \in G
  <2>1. i + k \in i .. j - 1 /\ i + k \in i .. l - 1 /\ k + 1 \in 0 .. j - i /\ (i + k) + 1 = i + (k + 1)
    BY <1>0
  <2>2. f[(i + k) + 1] = g[(i + k) + 1]
    BY <1>0, <1>1, <1>2, <1>4, <2>1
  <2> QED BY <2>1, <2>2
<1>5. j - i \in G
  <2>1. j - i \in Nat /\ \A k \in 0 .. (j - i) - 1 : k \in G => k + 1 \in G
    BY <1>0, <1>4
  <2>2. j - i \in 0 .. j - i
    BY <2>1
  <2> HIDE DEF G
  <2> QED BY <1>3, <2>1, <2>2, Induction
<1>6. i + (j - i) = j
  BY <1>0
<1> QED BY <1>2, <1>5, <1>6 DEF f

\* The number of the run of digits at a position.
LEMMA RunNumber ==
    ASSUME NEW s \in Text, NEW i \in 1 .. Len(s) + 1
    PROVE  /\ Number(s, i, PastRun(s, i)) \in Nat
           /\ i = Len(s) + 1 => Number(s, i, PastRun(s, i)) = 0 /\ PastRun(s, i) = i
<1>1. Len(s) \in Nat /\ i \in Nat
  BY TextFacts
<1>2. PastRun(s, i) \in Nat /\ i <= PastRun(s, i) /\ \A k \in i .. PastRun(s, i) - 1 : s[k] \in Digits
  BY <1>1, PastRunFacts
<1>3. Number(s, i, PastRun(s, i)) \in Nat
  BY <1>1, <1>2, NumberType
<1>4. ASSUME i = Len(s) + 1 PROVE Number(s, i, PastRun(s, i)) = 0 /\ PastRun(s, i) = i
  <2>1. PastRun(s, i) = i
    <3>1. PastRun(s, i) \in i .. Len(s) + 1
      BY PastRunFacts
    <3> QED BY <1>1, <1>4, <3>1
  <2>2. Number(s, i, i) = 0
    BY <1>1, NoNumber
  <2> QED BY <2>1, <2>2
<1> QED BY <1>3, <1>4

-----------------------------------------------------------------------------
(* Keys, and where the positions of a string are in them. *)

KeyTo(f, s, n) == [k \in 0 .. n |-> IF k = 0 THEN <<>> ELSE f[k - 1] \o Block(s, k)]
KeyRun(s, n) == CHOOSE f : f = KeyTo(f, s, n)

LEMMA KeyRuns ==
    ASSUME NEW s, NEW n \in Nat
    PROVE  KeyRun(s, n) = KeyTo(KeyRun(s, n), s, n)
<1> DEFINE G == {k \in 0 .. n : \E f : f = KeyTo(f, s, k)}
<1>1. 0 \in G
  <2>1. [k \in 0 .. 0 |-> <<>>] = KeyTo([k \in 0 .. 0 |-> <<>>], s, 0)
    BY DEF KeyTo
  <2> QED BY <2>1
<1>2. ASSUME NEW m \in 0 .. n - 1, m \in G PROVE m + 1 \in G
  <2>1. PICK f : f = KeyTo(f, s, m)
    BY <1>2
  <2> DEFINE g == [k \in 0 .. m + 1 |-> IF k = 0 THEN <<>> ELSE f[k - 1] \o Block(s, k)]
  <2>2. \A k \in 0 .. m : g[k] = f[k]
    <3>1. \A k \in 0 .. m : g[k] = KeyTo(f, s, m)[k]
      BY DEF KeyTo
    <3> QED BY <2>1, <3>1, Zenon
  <2>3. \A k \in 0 .. m + 1 : k # 0 => k - 1 \in 0 .. m
    OBVIOUS
  <2>4. g = KeyTo(g, s, m + 1)
    BY <2>2, <2>3 DEF KeyTo
  <2> QED BY <2>4
<1>3. n \in G
  <2>1. \A m \in 0 .. n - 1 : m \in G => m + 1 \in G
    BY <1>2
  <2> HIDE DEF G
  <2> QED BY <1>1, <2>1, Induction
<1> QED BY <1>3 DEF KeyRun

LEMMA KeySteps ==
    ASSUME NEW s \in Text
    PROVE  LET f == KeyRun(s, Len(s)) IN
           /\ Key(s) = f[Len(s)]
           /\ f[0] = <<>>
           /\ \A k \in 1 .. Len(s) : f[k] = f[k - 1] \o Block(s, k)
<1> DEFINE n == Len(s)
           f == KeyRun(s, n)
           b == KeyTo(f, s, n)
<1>1. f = b
  BY TextFacts, KeyRuns
<1>2. Key(s) = f[n]
  BY DEF Key, KeyRun, KeyTo
<1>3. b[0] = <<>>
  BY TextFacts DEF KeyTo
<1>4. ASSUME NEW k \in 1 .. n PROVE b[k] = f[k - 1] \o Block(s, k)
  BY TextFacts DEF KeyTo
<1> HIDE DEF f, b
<1>5. f[0] = <<>>
  BY <1>1, <1>3
<1>6. ASSUME NEW k \in 1 .. n PROVE f[k] = f[k - 1] \o Block(s, k)
  BY <1>1, <1>4
<1> QED BY <1>2, <1>5, <1>6 DEF f

LEMMA BlockType ==
    ASSUME NEW s \in Text, NEW k \in 1 .. Len(s)
    PROVE  Block(s, k) \in Seq(Int)
<1>1. Len(s) \in Nat /\ k \in 1 .. Len(s) + 1
  BY TextFacts
<1>2. CharOrder(s, k) \in Int /\ Number(s, k, PastRun(s, k)) \in Int
  BY <1>1, CharOrderType, RunNumber
<1> QED BY <1>2 DEF Block

\* What a block adds stays: the key of a prefix is a prefix of the key.
LEMMA KeyGrows ==
    ASSUME NEW s \in Text, NEW k \in 0 .. Len(s), NEW l \in k .. Len(s)
    PROVE  LET f == KeyRun(s, Len(s)) IN
           /\ f[k] \in Seq(Int) /\ f[l] \in Seq(Int) /\ Len(f[k]) <= Len(f[l])
           /\ \A m \in 1 .. Len(f[k]) : f[l][m] = f[k][m]
<1> DEFINE n == Len(s)
           f == KeyRun(s, n)
           F == {d \in 0 .. n : f[d] \in Seq(Int)}
           G == {d \in 0 .. n - k : /\ Len(f[k]) <= Len(f[k + d])
                                    /\ \A m \in 1 .. Len(f[k]) : f[k + d][m] = f[k][m]}
<1>1. n \in Nat /\ f[0] = <<>> /\ \A d \in 1 .. n : f[d] = f[d - 1] \o Block(s, d)
  BY TextFacts, KeySteps
<1> HIDE DEF f
<1>2. 0 \in F
  <2>1. 0 \in 0 .. n
    BY <1>1
  <2>2. f[0] \in Seq(Int)
    BY <1>1, EmptySeq, Zenon
  <2> QED BY <2>1, <2>2
<1>3. ASSUME NEW d \in 0 .. n - 1, d \in F PROVE d + 1 \in F
  <2>1. d + 1 \in 1 .. n /\ (d + 1) - 1 = d
    BY <1>1
  <2>2. Block(s, d + 1) \in Seq(Int) /\ f[d] \in Seq(Int) /\ f[d + 1] = f[d] \o Block(s, d + 1)
    BY <1>1, <1>3, <2>1, BlockType
  <2>3. f[d + 1] \in Seq(Int)
    BY <2>2, ConcatProperties
  <2> QED BY <2>1, <2>3
<1>4. \A d \in 0 .. n : f[d] \in Seq(Int)
  <2>1. \A d \in 0 .. n - 1 : d \in F => d + 1 \in F
    BY <1>3
  <2>2. 0 .. n \subseteq F
    <3> HIDE DEF F
    <3> QED BY <1>1, <1>2, <2>1, Induction
  <2> QED BY <2>2
<1>5. k \in 0 .. n /\ l \in 0 .. n /\ f[k] \in Seq(Int) /\ f[l] \in Seq(Int) /\ Len(f[k]) \in Nat
  BY <1>1, <1>4
<1>6. 0 \in G
  BY <1>5
<1>7. ASSUME NEW d \in 0 .. (n - k) - 1, d \in G PROVE d + 1 \in G
  <2>1. (k + d) + 1 \in 1 .. n /\ ((k + d) + 1) - 1 = k + d /\ k + (d + 1) = (k + d) + 1 /\ d + 1 \in 0 .. n - k /\ k + d \in 0 .. n
    BY <1>5
  <2>2. /\ Block(s, (k + d) + 1) \in Seq(Int) /\ f[k + d] \in Seq(Int)
        /\ f[(k + d) + 1] = f[k + d] \o Block(s, (k + d) + 1)
    BY <1>1, <1>4, <2>1, BlockType
  <2> DEFINE p == f[k + d]
             q == Block(s, (k + d) + 1)
  <2>3. /\ Len(p) \in Nat /\ Len(q) \in Nat /\ Len(p \o q) = Len(p) + Len(q)
        /\ \A m \in 1 .. Len(p) : (p \o q)[m] = p[m]
    <3>1. p \in Seq(Int) /\ q \in Seq(Int)
      BY <2>2
    <3> HIDE DEF p, q
    <3>2. /\ Len(p) \in Nat /\ Len(q) \in Nat /\ Len(p \o q) = Len(p) + Len(q)
          /\ \A m \in 1 .. Len(p) + Len(q) : (p \o q)[m] = IF m <= Len(p) THEN p[m] ELSE q[m - Len(p)]
      BY <3>1, ConcatProperties, LenProperties
    <3> QED BY <3>2
  <2>4. Len(f[k]) <= Len(p) /\ \A m \in 1 .. Len(f[k]) : p[m] = f[k][m]
    BY <1>7
  <2>5. f[k + (d + 1)] = p \o q
    BY <2>1, <2>2
  <2> HIDE DEF p, q
  <2>6. Len(f[k]) <= Len(p \o q) /\ \A m \in 1 .. Len(f[k]) : (p \o q)[m] = f[k][m]
    BY <1>5, <2>3, <2>4
  <2> QED BY <2>1, <2>5, <2>6
<1>8. l - k \in G
  <2>1. n - k \in Nat /\ \A d \in 0 .. (n - k) - 1 : d \in G => d + 1 \in G
    BY <1>5, <1>7
  <2>2. l - k \in 0 .. n - k
    BY <1>5
  <2> HIDE DEF G
  <2> QED BY <1>6, <2>1, <2>2, Induction
<1>9. k + (l - k) = l
  BY <1>5
<1> QED BY <1>5, <1>8, <1>9 DEF f

LEMMA KeyType == ASSUME NEW s \in Text PROVE Key(s) \in Seq(Int)
<1>1. Len(s) \in Nat /\ Len(s) \in 0 .. Len(s) /\ Len(s) \in Len(s) .. Len(s)
  BY TextFacts
<1> QED BY <1>1, KeyGrows, KeySteps

\* Position i is where a block starts, after p entries of the key; the end is
\* after any number of entries that the key has no more of.
Aligned(s, i, p) ==
    /\ i \in 1 .. Len(s) + 1 /\ p \in Nat
    /\ i > 1 /\ i <= Len(s) => s[i - 1] \notin Digits \/ s[i] \notin Digits
    /\ i <= Len(s) => Len(KeyRun(s, Len(s))[i - 1]) = p
    /\ i > Len(s) => Len(Key(s)) <= p

\* An entry of the key that the block of a position adds.
LEMMA BlockEntry ==
    ASSUME NEW s \in Text, NEW i \in 1 .. Len(s), NEW d \in 1 .. Len(Block(s, i))
    PROVE  LET f == KeyRun(s, Len(s))
               p == Len(f[i - 1])
           IN /\ p \in Nat
              /\ Len(f[i]) = p + Len(Block(s, i))
              /\ EntryAt(Key(s), p + d) = Block(s, i)[d]
<1> DEFINE n == Len(s)
           f == KeyRun(s, n)
           p == Len(f[i - 1])
           q == Block(s, i)
<1>1. n \in Nat /\ i - 1 \in 0 .. n /\ i \in 0 .. n /\ n \in i .. n /\ i \in i - 1 .. n
  BY TextFacts
<1>2. Key(s) = f[n] /\ f[i] = f[i - 1] \o q
  BY KeySteps
<1>3. f[i - 1] \in Seq(Int) /\ f[i] \in Seq(Int) /\ f[n] \in Seq(Int)
  BY <1>1, KeyGrows
<1>4. Len(f[i]) <= Len(f[n]) /\ \A m \in 1 .. Len(f[i]) : f[n][m] = f[i][m]
  BY <1>1, KeyGrows
<1>5. q \in Seq(Int)
  BY BlockType
<1> HIDE DEF f, q
<1>6. /\ p \in Nat /\ Len(q) \in Nat /\ Len(f[i]) = p + Len(q)
      /\ \A m \in 1 .. p + Len(q) : f[i][m] = IF m <= p THEN f[i - 1][m] ELSE q[m - p]
  BY <1>2, <1>3, <1>5, ConcatProperties, LenProperties
<1>7. d \in 1 .. Len(q)
  BY DEF q
<1>8. f[i][p + d] = q[d] /\ p + d \in 1 .. Len(f[i])
  <2>1. p + d \in 1 .. p + Len(q) /\ ~(p + d <= p) /\ (p + d) - p = d
    BY <1>6, <1>7
  <2> QED BY <1>6, <2>1
<1>9. p + d \in DOMAIN f[n] /\ f[n][p + d] = q[d]
  <2>1. Len(f[n]) \in Nat /\ DOMAIN f[n] = 1 .. Len(f[n]) /\ Len(f[i]) \in Nat
    BY <1>3, LenProperties
  <2> QED BY <1>4, <1>8, <2>1
<1>10. EntryAt(Key(s), p + d) = q[d]
  BY <1>2, <1>9 DEF EntryAt
<1> QED BY <1>6, <1>10 DEF f, q

LEMMA PastKey ==
    ASSUME NEW s \in Text, NEW p \in Nat, Len(Key(s)) <= p, NEW m \in Nat, p < m
    PROVE  EntryAt(Key(s), m) = 0
<1>1. Key(s) \in Seq(Int)
  BY KeyType
<1>2. DOMAIN Key(s) = 1 .. Len(Key(s)) /\ Len(Key(s)) \in Nat
  BY <1>1, LenProperties
<1> QED BY <1>2 DEF EntryAt

\* The next entry is the order of the character there.
LEMMA AlignedEntry ==
    ASSUME NEW s \in Text, NEW i, NEW p, Aligned(s, i, p)
    PROVE  EntryAt(Key(s), p + 1) = CharOrder(s, i)
<1>1. Len(s) \in Nat /\ i \in 1 .. Len(s) + 1 /\ p \in Nat
  BY TextFacts DEF Aligned
<1>2. CASE i > Len(s)
  <2>1. Len(Key(s)) <= p
    BY <1>2 DEF Aligned
  <2>2. EntryAt(Key(s), p + 1) = 0
    <3>1. p + 1 \in Nat /\ p < p + 1
      BY <1>1
    <3> QED BY <1>1, <2>1, <3>1, PastKey
  <2> QED BY <1>2, <2>2 DEF CharOrder, AtEnd
<1>3. CASE i <= Len(s)
  <2>1. i \in 1 .. Len(s) /\ Len(KeyRun(s, Len(s))[i - 1]) = p
    BY <1>1, <1>3 DEF Aligned
  <2>2. 1 \in 1 .. Len(Block(s, i)) /\ Block(s, i)[1] = CharOrder(s, i)
    <3>1. CASE s[i] \notin Digits
      BY <3>1 DEF Block
    <3>2. CASE s[i] \in Digits
      <4>1. i = 1 \/ s[i - 1] \notin Digits
        BY <1>1, <1>3, <3>2 DEF Aligned
      <4>2. CharOrder(s, i) = 0
        BY <3>2 DEF CharOrder, AtEnd
      <4> QED BY <3>2, <4>1, <4>2 DEF Block
    <3> QED BY <3>1, <3>2
  <2> QED BY <2>1, <2>2, BlockEntry
<1> QED BY <1>1, <1>2, <1>3

LEMMA AlignedNext ==
    ASSUME NEW s \in Text, NEW i, NEW p, Aligned(s, i, p), ~AtEnd(s, i)
    PROVE  Aligned(s, i + 1, p + 1)
<1>1. Len(s) \in Nat /\ i \in 1 .. Len(s) /\ p \in Nat /\ s[i] \notin Digits
  BY TextFacts DEF Aligned, AtEnd
<1>2. Len(KeyRun(s, Len(s))[i - 1]) = p
  BY <1>1 DEF Aligned
<1>3. Block(s, i) = <<CharOrder(s, i)>>
  BY <1>1 DEF Block
<1>4. Len(KeyRun(s, Len(s))[i]) = p + 1
  <2>1. 1 \in 1 .. Len(Block(s, i)) /\ Len(Block(s, i)) = 1
    BY <1>3
  <2> QED BY <1>1, <1>2, <2>1, BlockEntry
<1>5. i + 1 > Len(s) => Len(Key(s)) <= p + 1
  <2> SUFFICES ASSUME i + 1 > Len(s) PROVE Len(Key(s)) <= p + 1
    OBVIOUS
  <2>1. i = Len(s)
    BY <1>1
  <2>2. Key(s) = KeyRun(s, Len(s))[i]
    BY <2>1, KeySteps
  <2> QED BY <1>1, <1>4, <2>2
<1>6. i + 1 \in 1 .. Len(s) + 1 /\ p + 1 \in Nat /\ (i + 1) - 1 = i
  BY <1>1
<1> QED BY <1>1, <1>4, <1>5, <1>6 DEF Aligned

\* After the end of a run of other characters come the number of the digits
\* there and what is past them.
LEMMA AlignedRun ==
    ASSUME NEW s \in Text, NEW i, NEW p, Aligned(s, i, p), AtEnd(s, i)
    PROVE  /\ EntryAt(Key(s), p + 2) = Number(s, i, PastRun(s, i))
           /\ Aligned(s, PastRun(s, i), p + 2)
<1> DEFINE n == Len(s)
           f == KeyRun(s, n)
           j == PastRun(s, i)
<1>1. n \in Nat /\ i \in 1 .. n + 1 /\ p \in Nat
  BY TextFacts DEF Aligned
<1>2. CASE i > n
  <2>1. i = n + 1 /\ Number(s, i, j) = 0 /\ j = i
    BY <1>1, <1>2, RunNumber
  <2>2. Len(Key(s)) <= p
    BY <1>2 DEF Aligned
  <2>3. EntryAt(Key(s), p + 2) = 0
    <3>1. p + 2 \in Nat /\ p < p + 2
      BY <1>1
    <3> QED BY <1>1, <2>2, <3>1, PastKey
  <2>4. Len(Key(s)) \in Nat
    BY KeyType, LenProperties
  <2>5. Aligned(s, i, p + 2)
    BY <1>1, <1>2, <2>2, <2>4 DEF Aligned
  <2> QED BY <2>1, <2>3, <2>5
<1>3. CASE i <= n
  <2>1. i \in 1 .. n /\ s[i] \in Digits /\ Len(f[i - 1]) = p /\ (i = 1 \/ s[i - 1] \notin Digits)
    BY <1>1, <1>3 DEF Aligned, AtEnd
  <2>2. Block(s, i) = <<0, Number(s, i, j)>>
    BY <2>1 DEF Block
  <2>3. /\ j \in i .. n + 1 /\ j > i /\ (\A k \in i .. j - 1 : s[k] \in Digits)
        /\ j <= n => s[j] \notin Digits
    BY <1>1, <1>3, <2>1, PastRunFacts
  <2>4. EntryAt(Key(s), p + 2) = Number(s, i, j) /\ Len(f[i]) = p + 2
    <3>1. 2 \in 1 .. Len(Block(s, i)) /\ Len(Block(s, i)) = 2 /\ Block(s, i)[2] = Number(s, i, j)
      BY <2>2
    <3> QED BY <2>1, <3>1, BlockEntry
  <2>5. \A k \in 1 .. n : f[k] = f[k - 1] \o Block(s, k)
    BY KeySteps
  <2>6. \A k \in 0 .. n : f[k] \in Seq(Int)
    <3>1. \A k \in 0 .. n : k \in k .. n
      BY <1>1
    <3> QED BY <3>1, KeyGrows
  <2>7. n \in 0 .. n /\ Key(s) = f[n]
    BY <1>1, KeySteps
  <2> HIDE DEF f, j
  <2> DEFINE G == {d \in 0 .. (j - i) - 1 : f[i + d] = f[i]}
  <2>8. 0 \in G
    BY <2>1, <2>3
  <2>9. ASSUME NEW d \in 0 .. ((j - i) - 1) - 1, d \in G PROVE d + 1 \in G
    <3>1. /\ (i + d) + 1 \in i .. j - 1 /\ i + d \in i .. j - 1 /\ (i + d) + 1 \in 1 .. n /\ ((i + d) + 1) - 1 = i + d
          /\ i + (d + 1) = (i + d) + 1 /\ d + 1 \in 0 .. (j - i) - 1 /\ (i + d) + 1 # 1 /\ i + d \in 0 .. n
      BY <1>1, <2>1, <2>3
    <3>2. s[(i + d) + 1] \in Digits /\ s[i + d] \in Digits
      BY <2>3, <3>1
    <3>3. Block(s, (i + d) + 1) = <<>>
      BY <3>1, <3>2 DEF Block
    <3>4. f[(i + d) + 1] = f[i + d] \o <<>>
      BY <2>5, <3>1, <3>3
    <3>5. f[i + d] \in Seq(Int)
      BY <2>6, <3>1
    <3>6. f[(i + d) + 1] = f[i + d]
      BY <3>4, <3>5, ConcatEmptySeq
    <3> QED BY <2>9, <3>1, <3>6
  <2>10. (j - i) - 1 \in G
    <3>1. (j - i) - 1 \in Nat /\ \A d \in 0 .. ((j - i) - 1) - 1 : d \in G => d + 1 \in G
      BY <2>1, <2>3, <2>9
    <3>2. (j - i) - 1 \in 0 .. (j - i) - 1
      BY <3>1
    <3> HIDE DEF G
    <3> QED BY <2>8, <3>1, <3>2, Induction
  <2>11. i + ((j - i) - 1) = j - 1 /\ j - 1 \in Nat
    BY <2>1, <2>3
  <2>12. Len(f[j - 1]) = p + 2
    BY <2>4, <2>10, <2>11
  <2>13. j > n => Len(Key(s)) <= p + 2
    <3> SUFFICES ASSUME j > n PROVE Len(Key(s)) <= p + 2
      OBVIOUS
    <3>1. j - 1 = n
      BY <1>1, <2>3
    <3> QED BY <1>1, <2>7, <2>12, <3>1
  <2>14. j \in 1 .. n + 1 /\ p + 2 \in Nat
    BY <1>1, <2>1, <2>3
  <2>15. Aligned(s, j, p + 2)
    <3>1. j <= n => Len(f[j - 1]) = p + 2
      BY <2>12
    <3> QED BY <2>3, <2>13, <2>14, <3>1 DEF Aligned, f
  <2> QED BY <2>4, <2>15 DEF j
<1> QED BY <1>1, <1>2, <1>3

-----------------------------------------------------------------------------
(* The order of keys, and the walk of deb_str_cmp, which finds it. *)

LEMMA EntryType ==
    ASSUME NEW p \in Seq(Int), NEW i \in Nat
    PROVE  EntryAt(p, i) \in Int
BY LenProperties, ElementOfSeq DEF EntryAt

LEMMA SignType ==
    ASSUME NEW n \in Int
    PROVE  /\ Sign(n) \in {-1, 0, 1} /\ Sign(-n) = -Sign(n)
           /\ (Sign(n) < 0 <=> n < 0) /\ (Sign(n) = 0 <=> n = 0) /\ (Sign(n) > 0 <=> n > 0)
BY DEF Sign

\* Keys are ordered by the first entry in which they differ.
LEMMA FirstDifference ==
    ASSUME NEW p \in Seq(Int), NEW q \in Seq(Int), NEW n \in Nat \ {0},
           \A m \in 1 .. n - 1 : EntryAt(p, m) = EntryAt(q, m),
           EntryAt(p, n) # EntryAt(q, n)
    PROVE  KeyCmp(p, q) = Sign(EntryAt(p, n) - EntryAt(q, n))
<1> DEFINE D == Differ(p, q)
<1>1. DOMAIN p \cup DOMAIN q \subseteq Nat \ {0}
  BY LenProperties
<1>2. n \in D
  BY DEF Differ, EntryAt
<1>3. D \in SUBSET Nat /\ D # {}
  BY <1>1, <1>2 DEF Differ
<1>4. Min(D) \in D /\ Min(D) <= n
  BY <1>2, <1>3, LeastExists
<1>5. EntryAt(p, Min(D)) # EntryAt(q, Min(D)) /\ Min(D) \in Nat \ {0}
  BY <1>1, <1>4 DEF Differ
<1>6. Min(D) = n
  <2>1. Min(D) \notin 1 .. n - 1
    BY <1>5
  <2> QED BY <1>4, <1>5, <2>1
<1> QED BY <1>3, <1>6 DEF KeyCmp

LEMMA NoDifference ==
    ASSUME NEW p \in Seq(Int), NEW q \in Seq(Int),
           \A m \in Nat \ {0} : EntryAt(p, m) = EntryAt(q, m)
    PROVE  KeyCmp(p, q) = 0
<1>1. DOMAIN p \cup DOMAIN q \subseteq Nat \ {0}
  BY LenProperties
<1>2. Differ(p, q) = {}
  BY <1>1 DEF Differ
<1> QED BY <1>2 DEF KeyCmp

\* Two keys agree up to an entry or in all of them.
LEMMA KeysCompare ==
    ASSUME NEW p \in Seq(Int), NEW q \in Seq(Int)
    PROVE  \/ /\ KeyCmp(p, q) = 0
              /\ \A m \in Nat \ {0} : EntryAt(p, m) = EntryAt(q, m)
           \/ \E n \in Nat \ {0} :
                /\ \A m \in 1 .. n - 1 : EntryAt(p, m) = EntryAt(q, m)
                /\ EntryAt(p, n) # EntryAt(q, n)
                /\ KeyCmp(p, q) = Sign(EntryAt(p, n) - EntryAt(q, n))
<1> DEFINE D == {m \in Nat \ {0} : EntryAt(p, m) # EntryAt(q, m)}
<1>1. CASE D = {}
  <2>1. \A m \in Nat \ {0} : EntryAt(p, m) = EntryAt(q, m)
    BY <1>1
  <2> QED BY <2>1, NoDifference
<1>2. CASE D # {}
  <2>1. D \in SUBSET Nat
    OBVIOUS
  <2>2. Min(D) \in D /\ \A m \in D : Min(D) <= m
    BY <1>2, <2>1, LeastExists
  <2>3. PICK n : n = Min(D)
    OBVIOUS
  <2>4. n \in Nat \ {0} /\ EntryAt(p, n) # EntryAt(q, n)
    BY <2>2, <2>3
  <2>5. ASSUME NEW m \in 1 .. n - 1 PROVE EntryAt(p, m) = EntryAt(q, m)
    <3>1. m \in Nat \ {0} /\ ~(n <= m)
      BY <2>4
    <3>2. m \notin D
      BY <2>2, <2>3, <3>1
    <3> QED BY <3>1, <3>2
  <2>6. KeyCmp(p, q) = Sign(EntryAt(p, n) - EntryAt(q, n))
    BY <2>4, <2>5, FirstDifference
  <2> QED BY <2>4, <2>5, <2>6
<1> QED BY <1>1, <1>2

\* The walk has reached i and j, where the keys have agreed so far, or it has
\* found the order of the keys.
Agree(a, b, p) == \A m \in 1 .. p : EntryAt(Key(a), m) = EntryAt(Key(b), m)
WalkedTo(a, b, r, k) ==
    \/ r = Decided(KeyCmp(Key(a), Key(b)))
    \/ \E i, j, p \in Nat : /\ r = Walking(i, j)
                            /\ Aligned(a, i, p) /\ Aligned(b, j, p) /\ Agree(a, b, p)
                            /\ i + j >= k + 2

LEMMA FittingNumber ==
    ASSUME NEW s \in Text, Fits(s), NEW i \in 1 .. Len(s) + 1
    PROVE  CollectDigits(s, i) = Number(s, i, PastRun(s, i)) /\ CollectDigits(s, i) \in Nat
<1>1. Number(s, i, PastRun(s, i)) \in Nat /\ WordSize \in Nat \ {0}
  BY RunNumber, VersionAssumption
<1>2. Number(s, i, PastRun(s, i)) < WordSize
  <2>1. CASE i <= Len(s)
    <3>1. i \in DOMAIN s
      BY <2>1, TextFacts
    <3> QED BY <3>1 DEF Fits
  <2>2. CASE ~(i <= Len(s))
    <3>1. i = Len(s) + 1
      BY <2>2, TextFacts
    <3> QED BY <1>1, <3>1, RunNumber
  <2> QED BY <2>1, <2>2
<1>3. \A n \in Nat, w \in Nat : n < w => n % w = n
  OBVIOUS
<1> QED BY <1>1, <1>2, <1>3 DEF CollectDigits

LEMMA AgreeMore ==
    ASSUME NEW a \in Text, NEW b \in Text, NEW p \in Nat, Agree(a, b, p),
           EntryAt(Key(a), p + 1) = EntryAt(Key(b), p + 1)
    PROVE  Agree(a, b, p + 1)
<1>1. \A m \in 1 .. p + 1 : m \in 1 .. p \/ m = p + 1
  OBVIOUS
<1> QED BY <1>1 DEF Agree

\* The first difference after p entries that agree decides.
LEMMA Differs ==
    ASSUME NEW a \in Text, NEW b \in Text, NEW p \in Nat, Agree(a, b, p),
           EntryAt(Key(a), p + 1) # EntryAt(Key(b), p + 1)
    PROVE  KeyCmp(Key(a), Key(b)) = Sign(EntryAt(Key(a), p + 1) - EntryAt(Key(b), p + 1))
<1>1. Key(a) \in Seq(Int) /\ Key(b) \in Seq(Int)
  BY KeyType
<1>2. p + 1 \in Nat \ {0} /\ (p + 1) - 1 = p
  OBVIOUS
<1> QED BY <1>1, <1>2, FirstDifference DEF Agree

LEMMA TurnWalks ==
    ASSUME NEW a \in Text, NEW b \in Text, Fits(a), Fits(b),
           NEW r, NEW k \in Nat, WalkedTo(a, b, r, k)
    PROVE  WalkedTo(a, b, Turn(a, b, r), k + 1)
<1>1. CASE r = Decided(KeyCmp(Key(a), Key(b)))
  <2>1. r.ord # {}
    BY <1>1 DEF Decided
  <2>2. Turn(a, b, r) = r
    BY <2>1 DEF Turn
  <2> QED BY <1>1, <2>2 DEF WalkedTo
<1>2. CASE \E i, j, p \in Nat : /\ r = Walking(i, j)
                                /\ Aligned(a, i, p) /\ Aligned(b, j, p) /\ Agree(a, b, p)
                                /\ i + j >= k + 2
  <2>1. PICK i \in Nat, j \in Nat, p \in Nat :
            /\ r = Walking(i, j)
            /\ Aligned(a, i, p) /\ Aligned(b, j, p) /\ Agree(a, b, p)
            /\ i + j >= k + 2
    BY <1>2
  <2>2. r.i = i /\ r.j = j /\ r.ord = {}
    BY <2>1 DEF Walking
  <2> DEFINE x == CharOrder(a, i)
             y == CharOrder(b, j)
             m == CollectDigits(a, i)
             n == CollectDigits(b, j)
             i2 == PastRun(a, i)
             j2 == PastRun(b, j)
  <2>3. Turn(a, b, r) = IF x # y THEN Decided(Sign(x - y))
                        ELSE IF ~AtEnd(a, i) THEN Walking(i + 1, j + 1)
                        ELSE IF m # n THEN Decided(Sign(m - n))
                        ELSE IF i2 > Len(a) /\ j2 > Len(b) THEN Decided(0)
                        ELSE Walking(i2, j2)
    BY <2>2 DEF Turn
  <2>4. EntryAt(Key(a), p + 1) = x /\ EntryAt(Key(b), p + 1) = y
    BY <2>1, AlignedEntry
  <2>5. i \in 1 .. Len(a) + 1 /\ j \in 1 .. Len(b) + 1 /\ Len(a) \in Nat /\ Len(b) \in Nat
    BY <2>1, TextFacts DEF Aligned
  <2>6. (x = 0 <=> AtEnd(a, i)) /\ (y = 0 <=> AtEnd(b, j))
    BY <2>5, CharOrderType
  <2>7. m = Number(a, i, i2) /\ n = Number(b, j, j2)
    BY <2>5, FittingNumber
  <2>8. i2 \in i .. Len(a) + 1 /\ j2 \in j .. Len(b) + 1
    BY <2>5, PastRunFacts
  <2> HIDE DEF x, y, m, n, i2, j2
  <2>9. CASE x # y
    <3>1. KeyCmp(Key(a), Key(b)) = Sign(x - y)
      BY <2>1, <2>4, <2>9, Differs
    <3> QED BY <2>3, <2>9, <3>1 DEF WalkedTo
  <2>10. CASE x = y /\ ~AtEnd(a, i)
    <3>1. Agree(a, b, p + 1)
      BY <2>1, <2>4, <2>10, AgreeMore
    <3>2. ~AtEnd(b, j)
      BY <2>6, <2>10
    <3>3. Aligned(a, i + 1, p + 1) /\ Aligned(b, j + 1, p + 1)
      BY <2>1, <2>10, <3>2, AlignedNext
    <3>4. i + 1 \in Nat /\ j + 1 \in Nat /\ p + 1 \in Nat /\ (i + 1) + (j + 1) >= (k + 1) + 2
      BY <2>1
    <3>5. Turn(a, b, r) = Walking(i + 1, j + 1)
      BY <2>3, <2>10
    <3> QED BY <3>1, <3>3, <3>4, <3>5 DEF WalkedTo
  <2>11. CASE x = y /\ AtEnd(a, i)
    <3>1. AtEnd(b, j)
      BY <2>6, <2>11
    <3>2. Agree(a, b, p + 1)
      BY <2>1, <2>4, <2>11, AgreeMore
    <3>3. EntryAt(Key(a), p + 2) = m /\ EntryAt(Key(b), p + 2) = n /\ Aligned(a, i2, p + 2) /\ Aligned(b, j2, p + 2)
      BY <2>1, <2>7, <2>11, <3>1, AlignedRun DEF i2, j2
    <3>4. p + 1 \in Nat /\ (p + 1) + 1 = p + 2 /\ p + 2 \in Nat
      OBVIOUS
    <3>5. CASE m # n
      <4>1. KeyCmp(Key(a), Key(b)) = Sign(m - n)
        BY <3>2, <3>3, <3>4, <3>5, Differs
      <4> QED BY <2>3, <2>11, <3>5, <4>1 DEF WalkedTo
    <3>6. CASE m = n
      <4>1. Agree(a, b, p + 2)
        BY <3>2, <3>3, <3>4, <3>6, AgreeMore
      <4>2. CASE i2 > Len(a) /\ j2 > Len(b)
        <5>1. Len(Key(a)) <= p + 2 /\ Len(Key(b)) <= p + 2
          BY <3>3, <4>2 DEF Aligned
        <5>2. ASSUME NEW l \in Nat \ {0} PROVE EntryAt(Key(a), l) = EntryAt(Key(b), l)
          <6>1. CASE l \in 1 .. p + 2
            BY <4>1, <6>1 DEF Agree
          <6>2. CASE p + 2 < l
            BY <3>4, <5>1, <6>2, PastKey
          <6> QED BY <6>1, <6>2
        <5>3. KeyCmp(Key(a), Key(b)) = 0
          BY <5>2, KeyType, NoDifference
        <5>4. Turn(a, b, r) = Decided(0)
          BY <2>3, <2>11, <3>6, <4>2
        <5> QED BY <5>3, <5>4 DEF WalkedTo
      <4>3. CASE ~(i2 > Len(a) /\ j2 > Len(b))
        <5>1. Turn(a, b, r) = Walking(i2, j2)
          BY <2>3, <2>11, <3>6, <4>3
        <5>2. (i <= Len(a) => i2 > i) /\ (j <= Len(b) => j2 > j)
          BY <2>5, <2>11, <3>1, PastRunFacts DEF AtEnd, i2, j2
        <5>3. i2 + j2 >= (k + 1) + 2 /\ i2 \in Nat /\ j2 \in Nat
          BY <2>1, <2>5, <2>8, <4>3, <5>2
        <5> QED BY <3>3, <3>4, <4>1, <5>1, <5>3 DEF WalkedTo
      <4> QED BY <4>2, <4>3
    <3> QED BY <3>5, <3>6
  <2> QED BY <2>9, <2>10, <2>11
<1> QED BY <1>1, <1>2 DEF WalkedTo

\* The loop of deb_str_cmp.
WalkTo(f, a, b, n) == [k \in 0 .. n |-> IF k = 0 THEN Walking(1, 1) ELSE Turn(a, b, f[k - 1])]
WalkRun(a, b, n) == CHOOSE f : f = WalkTo(f, a, b, n)

LEMMA WalkRuns ==
    ASSUME NEW a, NEW b, NEW n \in Nat
    PROVE  WalkRun(a, b, n) = WalkTo(WalkRun(a, b, n), a, b, n)
<1> DEFINE G == {k \in 0 .. n : \E f : f = WalkTo(f, a, b, k)}
<1>1. 0 \in G
  <2>1. [k \in 0 .. 0 |-> Walking(1, 1)] = WalkTo([k \in 0 .. 0 |-> Walking(1, 1)], a, b, 0)
    BY DEF WalkTo
  <2> QED BY <2>1
<1>2. ASSUME NEW m \in 0 .. n - 1, m \in G PROVE m + 1 \in G
  <2>1. PICK f : f = WalkTo(f, a, b, m)
    BY <1>2
  <2> DEFINE g == [k \in 0 .. m + 1 |-> IF k = 0 THEN Walking(1, 1) ELSE Turn(a, b, f[k - 1])]
  <2>2. \A k \in 0 .. m : g[k] = f[k]
    <3>1. \A k \in 0 .. m : g[k] = WalkTo(f, a, b, m)[k]
      BY DEF WalkTo
    <3> QED BY <2>1, <3>1, Zenon
  <2>3. \A k \in 0 .. m + 1 : k # 0 => k - 1 \in 0 .. m
    OBVIOUS
  <2>4. g = WalkTo(g, a, b, m + 1)
    BY <2>2, <2>3 DEF WalkTo
  <2> QED BY <2>4
<1>3. n \in G
  <2>1. \A m \in 0 .. n - 1 : m \in G => m + 1 \in G
    BY <1>2
  <2> HIDE DEF G
  <2> QED BY <1>1, <2>1, Induction
<1> QED BY <1>3 DEF WalkRun

LEMMA WalkStarts ==
    ASSUME NEW a \in Text, NEW b \in Text
    PROVE  WalkedTo(a, b, Walking(1, 1), 0)
<1>1. ASSUME NEW s \in Text PROVE Aligned(s, 1, 0)
  <2>1. Len(s) \in Nat /\ 1 \in 1 .. Len(s) + 1 /\ 1 - 1 = 0 /\ ~(1 > 1)
    BY TextFacts
  <2>2. KeyRun(s, Len(s))[0] = <<>> /\ Key(s) = KeyRun(s, Len(s))[Len(s)]
    BY KeySteps
  <2>3. Len(KeyRun(s, Len(s))[0]) = 0
    BY <2>2
  <2>4. 1 > Len(s) => Len(Key(s)) <= 0
    <3> SUFFICES ASSUME 1 > Len(s) PROVE Len(Key(s)) <= 0
      OBVIOUS
    <3>1. Len(s) = 0
      BY <2>1
    <3> QED BY <2>2, <3>1
  <2> QED BY <2>1, <2>3, <2>4 DEF Aligned
<1>2. Agree(a, b, 0)
  BY DEF Agree
<1>3. Aligned(a, 1, 0) /\ Aligned(b, 1, 0)
  BY <1>1
<1> QED BY <1>2, <1>3 DEF WalkedTo

\* deb_str_cmp finds the order of the keys, in as many turns as there are
\* characters and one.
LEMMA WalkDecides ==
    ASSUME NEW a \in Text, NEW b \in Text
    PROVE  OrderIsPolicy(a, b)
<1> SUFFICES ASSUME Fits(a), Fits(b) PROVE DebStrCmp(a, b) = KeyCmp(Key(a), Key(b))
  BY DEF OrderIsPolicy
<1> DEFINE n == Len(a) + Len(b) + 1
           f == WalkRun(a, b, n)
           w == WalkTo(f, a, b, n)
           G == {k \in 0 .. n : WalkedTo(a, b, f[k], k)}
<1>1. n \in Nat /\ Len(a) \in Nat /\ Len(b) \in Nat
  BY TextFacts
<1>2. f = w
  BY <1>1, WalkRuns
<1>3. DebStrCmp(a, b) = CHOOSE c \in f[n].ord : TRUE
  BY DEF DebStrCmp, WalkRun, WalkTo
<1>4. w[0] = Walking(1, 1) /\ \A k \in 0 .. n - 1 : w[k + 1] = Turn(a, b, f[k])
  BY <1>1 DEF WalkTo
<1> HIDE DEF f, w
<1>5. f[0] = Walking(1, 1) /\ \A k \in 0 .. n - 1 : f[k + 1] = Turn(a, b, f[k])
  BY <1>2, <1>4
<1>6. 0 \in G
  BY <1>1, <1>5, WalkStarts
<1>7. ASSUME NEW k \in 0 .. n - 1, k \in G PROVE k + 1 \in G
  <2>1. k \in Nat /\ k + 1 \in 0 .. n /\ WalkedTo(a, b, f[k], k)
    BY <1>1, <1>7
  <2>2. WalkedTo(a, b, Turn(a, b, f[k]), k + 1)
    BY <2>1, TurnWalks
  <2> QED BY <1>5, <2>1, <2>2
<1>8. n \in G
  <2>1. \A k \in 0 .. n - 1 : k \in G => k + 1 \in G
    BY <1>7
  <2>2. n \in 0 .. n
    BY <1>1
  <2> HIDE DEF G, n
  <2> QED BY <1>1, <1>6, <2>1, <2>2, Induction
<1>9. f[n] = Decided(KeyCmp(Key(a), Key(b)))
  <2>1. WalkedTo(a, b, f[n], n)
    BY <1>8
  <2>2. ASSUME NEW i \in Nat, NEW j \in Nat, NEW p \in Nat, Aligned(a, i, p), Aligned(b, j, p), i + j >= n + 2 PROVE FALSE
    <3>1. i <= Len(a) + 1 /\ j <= Len(b) + 1
      BY <1>1, <2>2 DEF Aligned
    <3> QED BY <1>1, <2>2, <3>1
  <2> HIDE DEF n
  <2> QED BY <2>1, <2>2 DEF WalkedTo
<1>10. f[n].ord = {KeyCmp(Key(a), Key(b))}
  BY <1>9 DEF Decided
<1> HIDE DEF n
<1> QED BY <1>3, <1>10

-----------------------------------------------------------------------------
(* The order is total, and constraints take what it says. *)

LEMMA Opposites == ASSUME NEW x \in Int, NEW y \in Int, x + y = 0 PROVE y = -x
OBVIOUS

LEMMA KeyCmpReverses ==
    ASSUME NEW p \in Seq(Int), NEW q \in Seq(Int)
    PROVE  KeyCmp(p, q) \in {-1, 0, 1} /\ KeyCmp(q, p) = -KeyCmp(p, q)
<1>1. CASE /\ KeyCmp(p, q) = 0
           /\ \A m \in Nat \ {0} : EntryAt(p, m) = EntryAt(q, m)
  <2>1. KeyCmp(q, p) = 0
    BY <1>1, NoDifference
  <2> DEFINE x == KeyCmp(p, q)
             y == KeyCmp(q, p)
  <2>2. x = 0 /\ y = 0
    BY <1>1, <2>1
  <2> HIDE DEF x, y
  <2>3. x \in Int /\ y \in Int
    BY <2>2
  <2>4. x \in {-1, 0, 1}
    BY <2>2
  <2>5. y = -x
    <3>1. x + y = 0
      BY <2>2
    <3> QED BY <2>3, <3>1, Opposites
  <2> QED BY <2>4, <2>5 DEF x, y
<1>2. CASE \E n \in Nat \ {0} :
                /\ \A m \in 1 .. n - 1 : EntryAt(p, m) = EntryAt(q, m)
                /\ EntryAt(p, n) # EntryAt(q, n)
                /\ KeyCmp(p, q) = Sign(EntryAt(p, n) - EntryAt(q, n))
  <2>1. PICK n \in Nat \ {0} :
                /\ \A m \in 1 .. n - 1 : EntryAt(p, m) = EntryAt(q, m)
                /\ EntryAt(p, n) # EntryAt(q, n)
                /\ KeyCmp(p, q) = Sign(EntryAt(p, n) - EntryAt(q, n))
    BY <1>2
  <2>2. KeyCmp(q, p) = Sign(EntryAt(q, n) - EntryAt(p, n))
    BY <2>1, FirstDifference
  <2> DEFINE x == EntryAt(p, n)
             y == EntryAt(q, n)
  <2>3. x \in Int /\ y \in Int
    BY <2>1, EntryType
  <2> HIDE DEF x, y
  <2>4. Sign(x - y) \in {-1, 0, 1} /\ Sign(y - x) = -Sign(x - y)
    BY <2>3 DEF Sign
  <2> QED BY <2>1, <2>2, <2>4 DEF x, y
<1> QED BY <1>1, <1>2, KeysCompare

LEMMA KeyCmpEqual ==
    ASSUME NEW p \in Seq(Int), NEW q \in Seq(Int), KeyCmp(p, q) = 0, NEW m \in Nat \ {0}
    PROVE  EntryAt(p, m) = EntryAt(q, m)
<1>1. ASSUME NEW n \in Nat \ {0}, EntryAt(p, n) # EntryAt(q, n), KeyCmp(p, q) = Sign(EntryAt(p, n) - EntryAt(q, n))
      PROVE  FALSE
  <2>1. EntryAt(p, n) \in Int /\ EntryAt(q, n) \in Int
    BY EntryType
  <2> QED BY <1>1, <2>1 DEF Sign
<1> QED BY <1>1, KeysCompare

LEMMA KeyCmpSame ==
    ASSUME NEW p \in Seq(Int), NEW q \in Seq(Int), NEW r \in Seq(Int), KeyCmp(p, q) = 0, KeyCmp(q, r) = 0
    PROVE  KeyCmp(p, r) = 0
<1>1. ASSUME NEW m \in Nat \ {0} PROVE EntryAt(p, m) = EntryAt(r, m)
  BY KeyCmpEqual
<1> QED BY <1>1, NoDifference

\* What comes first between p and q, and between q and r, decides between p
\* and r.
LEMMA KeyCmpSteps ==
    ASSUME NEW p \in Seq(Int), NEW q \in Seq(Int), NEW r \in Seq(Int),
           KeyCmp(p, q) <= 0, KeyCmp(q, r) <= 0
    PROVE  KeyCmp(p, r) <= 0 /\ (KeyCmp(p, r) = 0 => KeyCmp(p, q) = 0 /\ KeyCmp(q, r) = 0)
<1> DEFINE Less(s, t, n) == /\ \A m \in 1 .. n - 1 : EntryAt(s, m) = EntryAt(t, m)
                            /\ EntryAt(s, n) < EntryAt(t, n)
<1>1. ASSUME NEW s \in Seq(Int), NEW t \in Seq(Int), NEW n \in Nat \ {0}, Less(s, t, n) PROVE KeyCmp(s, t) = -1
  <2>1. EntryAt(s, n) \in Int /\ EntryAt(t, n) \in Int
    BY EntryType
  <2>2. EntryAt(s, n) # EntryAt(t, n) /\ Sign(EntryAt(s, n) - EntryAt(t, n)) = -1
    BY <1>1, <2>1 DEF Sign
  <2> QED BY <1>1, <2>2, FirstDifference
<1>2. ASSUME NEW s \in Seq(Int), NEW t \in Seq(Int), KeyCmp(s, t) <= 0
      PROVE  \/ KeyCmp(s, t) = 0 /\ \A m \in Nat \ {0} : EntryAt(s, m) = EntryAt(t, m)
             \/ \E n \in Nat \ {0} : Less(s, t, n)
  <2>1. ASSUME NEW n \in Nat \ {0},
               /\ \A m \in 1 .. n - 1 : EntryAt(s, m) = EntryAt(t, m)
               /\ EntryAt(s, n) # EntryAt(t, n)
               /\ KeyCmp(s, t) = Sign(EntryAt(s, n) - EntryAt(t, n))
        PROVE  Less(s, t, n)
    <3>1. EntryAt(s, n) \in Int /\ EntryAt(t, n) \in Int
      BY EntryType
    <3>2. EntryAt(s, n) < EntryAt(t, n)
      BY <1>2, <2>1, <3>1 DEF Sign
    <3> QED BY <2>1, <3>2
  <2> HIDE DEF Less
  <2> QED BY <2>1, KeysCompare
<1>3. CASE \A m \in Nat \ {0} : EntryAt(p, m) = EntryAt(q, m)
  <2>1. CASE \A m \in Nat \ {0} : EntryAt(q, m) = EntryAt(r, m)
    <3>1. \A m \in Nat \ {0} : EntryAt(p, m) = EntryAt(r, m)
      BY <1>3, <2>1
    <3>2. KeyCmp(p, q) = 0 /\ KeyCmp(q, r) = 0 /\ KeyCmp(p, r) = 0
      BY <1>3, <2>1, <3>1, NoDifference
    <3> QED BY <3>2
  <2>2. CASE \E n \in Nat \ {0} : Less(q, r, n)
    <3>1. PICK n \in Nat \ {0} : Less(q, r, n)
      BY <2>2
    <3>2. Less(p, r, n)
      BY <1>3, <3>1
    <3>3. KeyCmp(p, r) = -1
      BY <1>1, <3>2
    <3> QED BY <3>3
  <2> HIDE DEF Less
  <2> QED BY <1>2, <2>1, <2>2
<1>4. CASE \E n \in Nat \ {0} : Less(p, q, n)
  <2>1. PICK n \in Nat \ {0} : Less(p, q, n)
    BY <1>4
  <2>2. CASE \A m \in Nat \ {0} : EntryAt(q, m) = EntryAt(r, m)
    <3>1. Less(p, r, n)
      BY <2>1, <2>2
    <3>2. KeyCmp(p, r) = -1
      BY <1>1, <3>1
    <3> QED BY <3>2
  <2>3. CASE \E l \in Nat \ {0} : Less(q, r, l)
    <3>1. PICK l \in Nat \ {0} : Less(q, r, l)
      BY <2>3
    <3>2. /\ EntryAt(p, n) \in Int /\ EntryAt(q, n) \in Int /\ EntryAt(r, n) \in Int
          /\ EntryAt(p, l) \in Int /\ EntryAt(q, l) \in Int /\ EntryAt(r, l) \in Int
      BY EntryType
    <3>3. CASE n <= l
      <4>1. Less(p, r, n)
        <5>1. ASSUME NEW m \in 1 .. n - 1 PROVE EntryAt(p, m) = EntryAt(r, m)
          <6>1. m \in 1 .. l - 1
            BY <3>3
          <6> QED BY <2>1, <3>1, <6>1
        <5>2. EntryAt(p, n) < EntryAt(r, n)
          <6>1. EntryAt(p, n) < EntryAt(q, n)
            BY <2>1
          <6>2. EntryAt(q, n) <= EntryAt(r, n)
            <7>1. n = l \/ n \in 1 .. l - 1
              BY <3>3
            <7> QED BY <3>1, <3>2, <7>1
          <6> QED BY <3>2, <6>1, <6>2
        <5> QED BY <5>1, <5>2
      <4> QED BY <1>1, <4>1
    <3>4. CASE l < n
      <4>1. Less(p, r, l)
        <5>1. ASSUME NEW m \in 1 .. l - 1 PROVE EntryAt(p, m) = EntryAt(r, m)
          <6>1. m \in 1 .. n - 1
            BY <3>4
          <6> QED BY <2>1, <3>1, <6>1
        <5>2. l \in 1 .. n - 1
          BY <3>4
        <5>3. EntryAt(p, l) < EntryAt(r, l)
          BY <2>1, <3>1, <5>2
        <5> QED BY <5>1, <5>3
      <4> QED BY <1>1, <4>1
    <3>5. n <= l \/ l < n
      OBVIOUS
    <3> QED BY <3>3, <3>4, <3>5
  <2> HIDE DEF Less
  <2> QED BY <1>2, <2>2, <2>3
<1> HIDE DEF Less
<1> QED BY <1>2, <1>3, <1>4

LEMMA PartsType ==
    ASSUME NEW v \in Versions, NEW w \in Versions
    PROVE  /\ v.epoch \in Nat /\ w.epoch \in Nat
           /\ v.upstream \in Text /\ w.upstream \in Text
           /\ v.revision \in Text /\ w.revision \in Text
           /\ KeyCmp(Key(v.upstream), Key(w.upstream)) \in {-1, 0, 1}
           /\ KeyCmp(Key(v.revision), Key(w.revision)) \in {-1, 0, 1}
           /\ KeyCmp(Key(w.upstream), Key(v.upstream)) = -KeyCmp(Key(v.upstream), Key(w.upstream))
           /\ KeyCmp(Key(w.revision), Key(v.revision)) = -KeyCmp(Key(v.revision), Key(w.revision))
<1>1. /\ v.epoch \in Nat /\ w.epoch \in Nat
      /\ v.upstream \in Text /\ w.upstream \in Text
      /\ v.revision \in Text /\ w.revision \in Text
  BY DEF Versions
<1> QED BY <1>1, KeyType, KeyCmpReverses

LEMMA CmpIsPolicy ==
    ASSUME NEW v \in Versions, NEW w \in Versions, VersionFits(v), VersionFits(w)
    PROVE  /\ Cmp(v, w) = IF Earlier(v, w) THEN -1 ELSE IF Earlier(w, v) THEN 1 ELSE 0
           /\ ~(Earlier(v, w) /\ Earlier(w, v))
<1>1. /\ DebStrCmp(v.upstream, w.upstream) = KeyCmp(Key(v.upstream), Key(w.upstream))
      /\ DebStrCmp(v.revision, w.revision) = KeyCmp(Key(v.revision), Key(w.revision))
  BY PartsType, WalkDecides DEF OrderIsPolicy, VersionFits
<1> DEFINE e == v.epoch
           g == w.epoch
           x == KeyCmp(Key(v.upstream), Key(w.upstream))
           y == KeyCmp(Key(v.revision), Key(w.revision))
<1>2. e \in Nat /\ g \in Nat /\ x \in {-1, 0, 1} /\ y \in {-1, 0, 1}
  BY PartsType
<1>3. KeyCmp(Key(w.upstream), Key(v.upstream)) = -x /\ KeyCmp(Key(w.revision), Key(v.revision)) = -y
  BY PartsType
<1>4. Cmp(v, w) = IF e # g THEN Sign(e - g) ELSE IF x # 0 THEN x ELSE y
  BY <1>1 DEF Cmp
<1>5. Earlier(v, w) <=> e < g \/ (e = g /\ x < 0) \/ (e = g /\ x = 0 /\ y < 0)
  BY DEF Earlier
<1>6. Earlier(w, v) <=> g < e \/ (g = e /\ -x < 0) \/ (g = e /\ -x = 0 /\ -y < 0)
  BY <1>3 DEF Earlier
<1> HIDE DEF e, g, x, y
<1> QED BY <1>2, <1>4, <1>5, <1>6 DEF Sign

LEMMA ConstraintTakes ==
    ASSUME NEW v \in Versions, NEW w \in Versions
    PROVE  SatisfiesIsPolicy(v, w)
<1> SUFFICES ASSUME VersionFits(v), VersionFits(w)
             PROVE  /\ Satisfies(v, "<<", w) <=> Earlier(v, w)
                    /\ Satisfies(v, "<=", w) <=> ~Earlier(w, v)
                    /\ Satisfies(v, "=", w)  <=> ~Earlier(v, w) /\ ~Earlier(w, v)
                    /\ Satisfies(v, ">=", w) <=> ~Earlier(v, w)
                    /\ Satisfies(v, ">>", w) <=> Earlier(w, v)
  BY DEF SatisfiesIsPolicy
<1>1. /\ Cmp(v, w) = IF Earlier(v, w) THEN -1 ELSE IF Earlier(w, v) THEN 1 ELSE 0
      /\ ~(Earlier(v, w) /\ Earlier(w, v))
  BY CmpIsPolicy
<1>2. /\ Satisfies(v, "<<", w) <=> Cmp(v, w) = -1
      /\ Satisfies(v, "<=", w) <=> Cmp(v, w) # 1
      /\ Satisfies(v, "=", w)  <=> Cmp(v, w) = 0
      /\ Satisfies(v, ">=", w) <=> Cmp(v, w) # -1
      /\ Satisfies(v, ">>", w) <=> Cmp(v, w) = 1
  BY DEF Satisfies
<1> QED BY <1>1, <1>2

\* Version::cmp is a total order of the versions whose numbers fit into 64
\* bits, with the versions that compare as equal in one place of it: what the
\* contract of Ord asks for (deb-version 146-156).
THEOREM CmpIsTotalOrder ==
    ASSUME NEW u \in Versions, NEW v \in Versions, NEW w \in Versions,
           VersionFits(u), VersionFits(v), VersionFits(w)
    PROVE  /\ Cmp(w, v) = -Cmp(v, w)
           /\ Cmp(u, v) <= 0 /\ Cmp(v, w) <= 0 =>
                Cmp(u, w) <= 0 /\ (Cmp(u, w) = 0 => Cmp(u, v) = 0 /\ Cmp(v, w) = 0)
<1>1. Cmp(w, v) = -Cmp(v, w)
  BY CmpIsPolicy
<1>2. ASSUME Cmp(u, v) <= 0, Cmp(v, w) <= 0
      PROVE  Cmp(u, w) <= 0 /\ (Cmp(u, w) = 0 => Cmp(u, v) = 0 /\ Cmp(v, w) = 0)
  <2> DEFINE K(s) == Key(s)
             Later(p, q) == p.epoch - q.epoch
             Up(p, q) == KeyCmp(K(p.upstream), K(q.upstream))
             Re(p, q) == KeyCmp(K(p.revision), K(q.revision))
  <2>1. ASSUME NEW p \in Versions, NEW q \in Versions, VersionFits(p), VersionFits(q)
        PROVE  /\ p.epoch \in Nat /\ q.epoch \in Nat /\ Up(p, q) \in {-1, 0, 1} /\ Re(p, q) \in {-1, 0, 1}
               /\ Cmp(p, q) = IF p.epoch # q.epoch THEN Sign(p.epoch - q.epoch)
                              ELSE IF Up(p, q) # 0 THEN Up(p, q) ELSE Re(p, q)
    <3>1. /\ DebStrCmp(p.upstream, q.upstream) = Up(p, q)
          /\ DebStrCmp(p.revision, q.revision) = Re(p, q)
      BY <2>1, PartsType, WalkDecides DEF OrderIsPolicy, VersionFits
    <3> QED BY <3>1, PartsType DEF Cmp
  <2>2. /\ K(u.upstream) \in Seq(Int) /\ K(v.upstream) \in Seq(Int) /\ K(w.upstream) \in Seq(Int)
        /\ K(u.revision) \in Seq(Int) /\ K(v.revision) \in Seq(Int) /\ K(w.revision) \in Seq(Int)
    BY PartsType, KeyType
  <2>3. Up(u, v) <= 0 /\ Up(v, w) <= 0 => Up(u, w) <= 0 /\ (Up(u, w) = 0 => Up(u, v) = 0 /\ Up(v, w) = 0)
    BY <2>2, KeyCmpSteps
  <2>4. Re(u, v) <= 0 /\ Re(v, w) <= 0 => Re(u, w) <= 0 /\ (Re(u, w) = 0 => Re(u, v) = 0 /\ Re(v, w) = 0)
    BY <2>2, KeyCmpSteps
  <2>5. Up(u, v) = 0 /\ Up(v, w) = 0 => Up(u, w) = 0
    BY <2>2, KeyCmpSame
  <2>6. Re(u, v) = 0 /\ Re(v, w) = 0 => Re(u, w) = 0
    BY <2>2, KeyCmpSame
  <2> HIDE DEF Up, Re, K
  <2>7. \A x \in Int : Sign(x) <= 0 <=> x <= 0
    BY DEF Sign
  <2>8. \A x \in Int : Sign(x) = 0 <=> x = 0
    BY DEF Sign
  <2>9. /\ u.epoch \in Nat /\ v.epoch \in Nat /\ w.epoch \in Nat
        /\ Up(u, v) \in {-1, 0, 1} /\ Up(v, w) \in {-1, 0, 1} /\ Up(u, w) \in {-1, 0, 1}
        /\ Re(u, v) \in {-1, 0, 1} /\ Re(v, w) \in {-1, 0, 1} /\ Re(u, w) \in {-1, 0, 1}
    BY <2>1
  <2>10. Cmp(u, v) = IF u.epoch # v.epoch THEN Sign(u.epoch - v.epoch)
                     ELSE IF Up(u, v) # 0 THEN Up(u, v) ELSE Re(u, v)
    BY <2>1
  <2>11. Cmp(v, w) = IF v.epoch # w.epoch THEN Sign(v.epoch - w.epoch)
                     ELSE IF Up(v, w) # 0 THEN Up(v, w) ELSE Re(v, w)
    BY <2>1
  <2>12. Cmp(u, w) = IF u.epoch # w.epoch THEN Sign(u.epoch - w.epoch)
                     ELSE IF Up(u, w) # 0 THEN Up(u, w) ELSE Re(u, w)
    BY <2>1
  <2>13. u.epoch <= v.epoch /\ v.epoch <= w.epoch
    BY <1>2, <2>7, <2>9, <2>10, <2>11
  <2>14. CASE u.epoch = w.epoch
    <3>1. u.epoch = v.epoch /\ v.epoch = w.epoch
      BY <2>9, <2>13, <2>14
    <3> QED BY <1>2, <2>3, <2>4, <2>5, <2>6, <2>9, <2>10, <2>11, <2>12, <3>1
  <2>15. CASE u.epoch # w.epoch
    <3>1. u.epoch - w.epoch \in Int /\ u.epoch - w.epoch < 0
      BY <2>9, <2>13, <2>15
    <3>2. Cmp(u, w) = -1
      BY <2>12, <2>15, <3>1 DEF Sign
    <3> QED BY <3>2
  <2> QED BY <2>14, <2>15
<1> QED BY <1>1, <1>2

-----------------------------------------------------------------------------
(* Numbers in decimal. *)

LEMMA Tenths ==
    ASSUME NEW k \in Nat
    PROVE  /\ k \div 10 \in Nat /\ k % 10 \in 0 .. 9
           /\ k = 10 * (k \div 10) + (k % 10)
           /\ k >= 10 => k \div 10 <= k - 1
OBVIOUS

DecimalTo(f, n) == [k \in 0 .. n |-> IF k < 10 THEN <<Digit(k)>> ELSE Append(f[k \div 10], Digit(k % 10))]
DecimalRun(n) == CHOOSE f : f = DecimalTo(f, n)

LEMMA DecimalRuns ==
    ASSUME NEW n \in Nat
    PROVE  DecimalRun(n) = DecimalTo(DecimalRun(n), n)
<1> DEFINE G == {k \in 0 .. n : \E f : f = DecimalTo(f, k)}
<1>1. 0 \in G
  <2>1. [k \in 0 .. 0 |-> <<Digit(k)>>] = DecimalTo([k \in 0 .. 0 |-> <<Digit(k)>>], 0)
    BY DEF DecimalTo
  <2> QED BY <2>1
<1>2. ASSUME NEW m \in 0 .. n - 1, m \in G PROVE m + 1 \in G
  <2>1. PICK f : f = DecimalTo(f, m)
    BY <1>2
  <2> DEFINE g == [k \in 0 .. m + 1 |-> IF k < 10 THEN <<Digit(k)>> ELSE Append(f[k \div 10], Digit(k % 10))]
  <2>2. \A k \in 0 .. m : g[k] = f[k]
    <3>1. \A k \in 0 .. m : g[k] = DecimalTo(f, m)[k]
      BY DEF DecimalTo
    <3> QED BY <2>1, <3>1, Zenon
  <2>3. \A k \in 0 .. m + 1 : ~(k < 10) => k \div 10 \in 0 .. m
    <3>1. ASSUME NEW k \in 0 .. m + 1, ~(k < 10) PROVE k \div 10 \in 0 .. m
      <4>1. k \in Nat /\ k >= 10 /\ m \in Nat
        BY <3>1
      <4>2. k \div 10 \in Nat /\ k \div 10 <= k - 1
        BY <4>1, Tenths
      <4> DEFINE t == k \div 10
      <4>3. t \in Nat /\ t <= k - 1
        BY <4>2
      <4> HIDE DEF t
      <4>4. t \in 0 .. m
        BY <4>1, <4>3
      <4> QED BY <4>4 DEF t
    <3> QED BY <3>1
  <2>4. \A k \in 0 .. m + 1 : ~(k < 10) => f[k \div 10] = g[k \div 10]
    <3> HIDE DEF g
    <3> QED BY <2>2, <2>3
  <2>5. g = [k \in 0 .. m + 1 |-> IF k < 10 THEN <<Digit(k)>> ELSE Append(g[k \div 10], Digit(k % 10))]
    <3> DEFINE h == g
    <3>1. \A k \in 0 .. m + 1 : ~(k < 10) => f[k \div 10] = h[k \div 10]
      BY <2>4
    <3> HIDE DEF h
    <3>2. g = [k \in 0 .. m + 1 |-> IF k < 10 THEN <<Digit(k)>> ELSE Append(h[k \div 10], Digit(k % 10))]
      BY <3>1
    <3> QED BY <3>2 DEF h
  <2>6. g = DecimalTo(g, m + 1)
    <3> HIDE DEF g
    <3> QED BY <2>5 DEF DecimalTo
  <2>7. m + 1 \in 0 .. n
    OBVIOUS
  <2> HIDE DEF g
  <2> QED BY <2>6, <2>7
<1>3. n \in G
  <2>1. \A m \in 0 .. n - 1 : m \in G => m + 1 \in G
    BY <1>2
  <2> HIDE DEF G
  <2> QED BY <1>1, <2>1, Induction
<1> QED BY <1>3 DEF DecimalRun

LEMMA DecimalSteps ==
    ASSUME NEW n \in Nat
    PROVE  /\ Decimal(n) = DecimalRun(n)[n]
           /\ \A k \in 0 .. n : /\ k < 10 => DecimalRun(n)[k] = <<Digit(k)>>
                                /\ k >= 10 => DecimalRun(n)[k] = Append(DecimalRun(n)[k \div 10], Digit(k % 10))
<1> DEFINE f == DecimalRun(n)
           b == DecimalTo(f, n)
<1>1. f = b
  BY DecimalRuns
<1>2. Decimal(n) = f[n]
  BY DEF Decimal, DecimalRun, DecimalTo
<1>3. ASSUME NEW k \in 0 .. n
      PROVE  (k < 10 => b[k] = <<Digit(k)>>) /\ (k >= 10 => b[k] = Append(f[k \div 10], Digit(k % 10)))
  BY DEF DecimalTo
<1> HIDE DEF f, b
<1>4. ASSUME NEW k \in 0 .. n
      PROVE  (k < 10 => f[k] = <<Digit(k)>>) /\ (k >= 10 => f[k] = Append(f[k \div 10], Digit(k % 10)))
  BY <1>1, <1>3
<1> QED BY <1>2, <1>4 DEF f

\* A string of digits, and the number it spells.
Spells(ds, n) == ds \in Seq(Digits) /\ Len(ds) >= 1 /\ Number(ds, 1, Len(ds) + 1) = n

LEMMA LastDigit ==
    ASSUME NEW t, NEW l \in Nat \ {0}
    PROVE  Number(t, 1, l + 1) = NumberRun(t, 1, l + 1)[l] * 10 + Rank[t[l]] - 48
<1> DEFINE j == l + 1
           f == NumberRun(t, 1, j)
<1>1. j \in Nat /\ 1 \in Nat /\ 1 <= j /\ l \in 1 .. j - 1
  OBVIOUS
<1> HIDE DEF j
<1>2. Number(t, 1, j) = f[j]
  BY <1>1, NumberSteps
<1>3. \A k \in 1 .. j - 1 : f[k + 1] = f[k] * 10 + Rank[t[k]] - 48
  BY <1>1, NumberSteps
<1> HIDE DEF f
<1>4. f[l + 1] = f[l] * 10 + Rank[t[l]] - 48
  BY <1>1, <1>3
<1>5. Number(t, 1, j) = f[l] * 10 + Rank[t[l]] - 48
  BY <1>2, <1>4 DEF j
<1> QED BY <1>5 DEF f, j

LEMMA OneDigit ==
    ASSUME NEW d \in Digits
    PROVE  Spells(<<d>>, Rank[d] - 48)
<1> DEFINE t == <<d>>
           x == NumberRun(t, 1, 1 + 1)[1]
<1>1. t \in Seq(Digits) /\ Len(t) = 1 /\ t[1] = d
  OBVIOUS
<1> HIDE DEF t
<1>2. Number(t, 1, 1 + 1) = x * 10 + Rank[t[1]] - 48
  BY LastDigit
<1>3. x = 0
  <2> DEFINE i == 1
             j == 1 + 1
  <2>1. i \in Nat /\ j \in Nat /\ i <= j
    OBVIOUS
  <2> HIDE DEF i, j
  <2>2. NumberRun(t, i, j)[i] = 0
    BY <2>1, NumberSteps
  <2> QED BY <2>2 DEF i, j
<1> HIDE DEF x
<1>4. Rank[d] \in Nat
  BY CharFacts
<1>5. Number(t, 1, Len(t) + 1) = Rank[d] - 48
  BY <1>1, <1>2, <1>3, <1>4
<1>6. Len(t) >= 1
  BY <1>1
<1> QED BY <1>1, <1>5, <1>6 DEF Spells, t

LEMMA FirstDigits ==
    ASSUME NEW t, NEW ds, NEW l \in Nat \ {0}, \A k \in 1 .. l - 1 : t[k] = ds[k]
    PROVE  NumberRun(t, 1, l + 1)[l] = Number(ds, 1, l)
<1> DEFINE i == 1
           j == l + 1
<1>1. Alike(t, ds, i, l, j)
  BY DEF Alike
<1> HIDE DEF i, j
<1>2. NumberRun(t, i, j)[l] = Number(ds, i, l)
  BY <1>1, NumberSame
<1> QED BY <1>2 DEF i, j

LEMMA OneMoreDigit ==
    ASSUME NEW ds, NEW m \in Nat, Spells(ds, m), NEW d \in Digits
    PROVE  Spells(Append(ds, d), m * 10 + Rank[d] - 48)
<1> DEFINE t == Append(ds, d)
           l == Len(ds) + 1
           f == NumberRun(t, 1, l + 1)
<1>1. ds \in Seq(Digits) /\ Len(ds) \in Nat /\ l \in Nat /\ l >= 1 /\ Number(ds, 1, l) = m
  BY LenProperties DEF Spells
<1>2. t \in Seq(Digits) /\ Len(t) = l /\ t[l] = d /\ \A k \in 1 .. l - 1 : t[k] = ds[k]
  BY <1>1
<1> HIDE DEF t, l
<1>3. Number(t, 1, l + 1) = f[l] * 10 + Rank[d] - 48
  <2>1. l \in Nat \ {0}
    BY <1>1
  <2> QED BY <1>2, <2>1, LastDigit
<1>4. f[l] = m
  <2>1. l \in Nat \ {0} /\ \A k \in 1 .. l - 1 : t[k] = ds[k]
    BY <1>1, <1>2
  <2> QED BY <1>1, <2>1, FirstDigits
<1> HIDE DEF f
<1>5. Number(t, 1, Len(t) + 1) = m * 10 + Rank[d] - 48
  BY <1>2, <1>3, <1>4
<1> QED BY <1>1, <1>2, <1>5 DEF Spells, t

LEMMA DecimalSpells == ASSUME NEW n \in Nat PROVE Spells(Decimal(n), n)
<1> DEFINE f == DecimalRun(n)
           P(k) == Spells(f[k], k)
           G == {k \in 0 .. n : \A l \in 0 .. k : P(l)}
<1>1. /\ Decimal(n) = f[n]
      /\ \A k \in 0 .. n : /\ k < 10 => f[k] = <<Digit(k)>>
                           /\ k >= 10 => f[k] = Append(f[k \div 10], Digit(k % 10))
  BY DecimalSteps
<1> HIDE DEF f
<1>2. ASSUME NEW k \in 0 .. n, k < 10 PROVE P(k)
  <2>1. k \in 0 .. 9
    BY <1>2
  <2>2. Digit(k) \in Digits /\ Rank[Digit(k)] - 48 = k
    BY <2>1, CharFacts
  <2>3. Spells(<<Digit(k)>>, Rank[Digit(k)] - 48)
    BY <2>2, OneDigit
  <2> QED BY <1>1, <1>2, <2>2, <2>3
<1>3. ASSUME NEW k \in 0 .. n, k >= 10, P(k \div 10) PROVE P(k)
  <2> DEFINE t == k \div 10
             u == k % 10
  <2>1. t \in Nat /\ u \in 0 .. 9 /\ k = 10 * t + u
    BY Tenths
  <2>2. Spells(f[t], t) /\ f[k] = Append(f[t], Digit(u))
    BY <1>1, <1>3
  <2> HIDE DEF t, u
  <2>3. Digit(u) \in Digits /\ Rank[Digit(u)] - 48 = u
    BY <2>1, CharFacts
  <2>4. Spells(Append(f[t], Digit(u)), t * 10 + Rank[Digit(u)] - 48)
    BY <2>1, <2>2, <2>3, OneMoreDigit
  <2>5. Rank[Digit(u)] \in Nat
    BY <2>3, CharFacts
  <2>6. t * 10 + Rank[Digit(u)] - 48 = k
    BY <2>1, <2>3, <2>5
  <2> QED BY <2>2, <2>4, <2>6
<1> HIDE DEF P
<1>4. 0 \in G
  <2>1. P(0)
    BY <1>2
  <2> QED BY <2>1
<1>5. ASSUME NEW m \in 0 .. n - 1, m \in G PROVE m + 1 \in G
  <2>1. m + 1 \in 0 .. n /\ m \in Nat
    OBVIOUS
  <2>2. P(m + 1)
    <3>1. CASE m + 1 < 10
      BY <1>2, <2>1, <3>1
    <3>2. CASE m + 1 >= 10
      <4> DEFINE t == (m + 1) \div 10
      <4>1. t \in Nat /\ t <= (m + 1) - 1
        BY <2>1, <3>2, Tenths
      <4>2. P((m + 1) \div 10)
        <5> HIDE DEF t
        <5>1. t \in 0 .. m
          BY <2>1, <4>1
        <5>2. P(t)
          BY <1>5, <5>1
        <5> QED BY <5>2 DEF t
      <4> QED BY <1>3, <2>1, <3>2, <4>2
    <3> QED BY <2>1, <3>1, <3>2
  <2>3. \A l \in 0 .. m + 1 : l \in 0 .. m \/ l = m + 1
    BY <2>1
  <2>4. \A l \in 0 .. m : P(l)
    BY <1>5
  <2> QED BY <2>1, <2>2, <2>3, <2>4
<1>6. n \in G
  <2>1. \A m \in 0 .. n - 1 : m \in G => m + 1 \in G
    BY <1>5
  <2>2. n \in 0 .. n
    OBVIOUS
  <2> HIDE DEF G
  <2> QED BY <1>4, <2>1, <2>2, Induction
<1> QED BY <1>1, <1>6 DEF P

-----------------------------------------------------------------------------
(* What is displayed is parsed back. *)

LEMMA PlacesFacts ==
    ASSUME NEW S, NEW s \in Seq(S), NEW c
    PROVE  /\ Places(c, s) \in SUBSET (1 .. Len(s))
           /\ \A i \in 1 .. Len(s) : s[i] = c <=> i \in Places(c, s)
BY LenProperties DEF Places

LEMMA AllInIsSeq ==
    ASSUME NEW S, NEW s \in Seq(S), NEW T, AllIn(s, T)
    PROVE  s \in Seq(T)
<1>1. Len(s) \in Nat /\ s \in [1 .. Len(s) -> S] /\ DOMAIN s = 1 .. Len(s)
  BY LenProperties
<1>2. \A i \in 1 .. Len(s) : s[i] \in T
  BY <1>1 DEF AllIn
<1>3. s = [i \in 1 .. Len(s) |-> s[i]]
  BY <1>1
<1>4. s \in [1 .. Len(s) -> T]
  BY <1>2, <1>3
<1> QED BY <1>1, <1>4, FunctionIsSeq

LEMMA SeqIsAllIn == ASSUME NEW S, NEW s \in Seq(S) PROVE AllIn(s, S)
BY LenProperties DEF AllIn

\* The parts of a string around a position.
LEMMA PartsOf ==
    ASSUME NEW S, NEW s \in Seq(S), NEW i \in 1 .. Len(s)
    PROVE  /\ Upto(s, i) \in Seq(S) /\ Len(Upto(s, i)) = i - 1
           /\ \A k \in 1 .. i - 1 : Upto(s, i)[k] = s[k]
           /\ Past(s, i) \in Seq(S) /\ Len(Past(s, i)) = Len(s) - i
           /\ \A k \in 1 .. Len(s) - i : Past(s, i)[k] = s[i + k]
<1>1. Len(s) \in Nat /\ i \in Nat /\ \A k \in 1 .. Len(s) : s[k] \in S
  BY LenProperties, ElementOfSeq
<1>2. /\ SubSeq(s, 1, i - 1) \in Seq(S)
      /\ Len(SubSeq(s, 1, i - 1)) = i - 1
      /\ \A k \in 1 .. i - 1 : SubSeq(s, 1, i - 1)[k] = s[k]
  <2>1. 1 \in Int /\ i - 1 \in Int /\ \A k \in 1 .. i - 1 : s[k] \in S
    BY <1>1
  <2>2. (i - 1) - 1 + 1 = i - 1 /\ \A k \in 1 .. i - 1 : 1 + k - 1 = k
    BY <1>1
  <2>3. Len(SubSeq(s, 1, i - 1)) = IF 1 <= i - 1 THEN (i - 1) - 1 + 1 ELSE 0
    BY <2>1, SubSeqProperties
  <2>4. \A k \in 1 .. (i - 1) - 1 + 1 : SubSeq(s, 1, i - 1)[k] = s[1 + k - 1]
    BY <2>1, SubSeqProperties
  <2>5. SubSeq(s, 1, i - 1) \in Seq(S)
    BY <2>1, SubSeqProperties
  <2>6. Len(SubSeq(s, 1, i - 1)) = i - 1
    BY <1>1, <2>3
  <2> QED BY <2>2, <2>4, <2>5, <2>6
<1>3. /\ SubSeq(s, i + 1, Len(s)) \in Seq(S)
      /\ Len(SubSeq(s, i + 1, Len(s))) = Len(s) - i
      /\ \A k \in 1 .. Len(s) - i : SubSeq(s, i + 1, Len(s))[k] = s[i + k]
  <2>1. i + 1 \in Int /\ Len(s) \in Int /\ \A k \in i + 1 .. Len(s) : s[k] \in S
    BY <1>1
  <2>2. Len(s) - (i + 1) + 1 = Len(s) - i /\ \A k \in 1 .. Len(s) - i : (i + 1) + k - 1 = i + k
    BY <1>1
  <2>3. Len(SubSeq(s, i + 1, Len(s))) = IF i + 1 <= Len(s) THEN Len(s) - (i + 1) + 1 ELSE 0
    BY <2>1, SubSeqProperties
  <2>4. \A k \in 1 .. Len(s) - (i + 1) + 1 : SubSeq(s, i + 1, Len(s))[k] = s[(i + 1) + k - 1]
    BY <2>1, SubSeqProperties
  <2>5. SubSeq(s, i + 1, Len(s)) \in Seq(S)
    BY <2>1, SubSeqProperties
  <2>6. Len(SubSeq(s, i + 1, Len(s))) = Len(s) - i
    BY <1>1, <2>3
  <2> QED BY <2>2, <2>4, <2>5, <2>6
<1> QED BY <1>2, <1>3 DEF Upto, Past

\* Two strings with a mark between them, and what is before and after it.
LEMMA Joined ==
    ASSUME NEW S, NEW s \in Seq(S), NEW c \in S, NEW t \in Seq(S)
    PROVE  LET j == Append(s, c) \o t
               l == Len(s) + 1
           IN /\ j \in Seq(S) /\ l \in 1 .. Len(j) /\ Len(j) = l + Len(t) /\ j[l] = c
              /\ \A k \in 1 .. l - 1 : j[k] = s[k]
              /\ \A k \in 1 .. Len(t) : j[l + k] = t[k]
              /\ Upto(j, l) = s /\ Past(j, l) = t
<1> DEFINE h == Append(s, c)
           j == h \o t
           l == Len(s) + 1
<1>1. /\ h \in Seq(S) /\ Len(h) = l /\ h[l] = c /\ Len(s) \in Nat /\ Len(t) \in Nat
      /\ \A k \in 1 .. Len(s) : h[k] = s[k]
  BY LenProperties
<1> HIDE DEF h
<1>2. /\ j \in Seq(S) /\ Len(j) = Len(h) + Len(t)
      /\ \A k \in 1 .. Len(h) + Len(t) : j[k] = IF k <= Len(h) THEN h[k] ELSE t[k - Len(h)]
  BY <1>1, ConcatProperties
<1> HIDE DEF j
<1>3. l \in 1 .. Len(j) /\ Len(j) = l + Len(t) /\ j[l] = c /\ l - 1 = Len(s)
  BY <1>1, <1>2
<1>4. \A k \in 1 .. l - 1 : j[k] = s[k]
  BY <1>1, <1>2
<1>5. ASSUME NEW k \in 1 .. Len(t) PROVE j[l + k] = t[k]
  <2>1. l + k \in 1 .. Len(h) + Len(t) /\ ~(l + k <= Len(h)) /\ (l + k) - Len(h) = k
    BY <1>1
  <2> QED BY <1>2, <2>1
<1>6. Upto(j, l) = s
  <2>1. /\ Upto(j, l) \in Seq(S) /\ Len(Upto(j, l)) = l - 1
        /\ \A k \in 1 .. l - 1 : Upto(j, l)[k] = j[k]
    BY <1>2, <1>3, PartsOf
  <2> QED BY <1>3, <1>4, <2>1, SeqEqual
<1>7. Past(j, l) = t
  <2>1. /\ Past(j, l) \in Seq(S) /\ Len(Past(j, l)) = Len(j) - l
        /\ \A k \in 1 .. Len(j) - l : Past(j, l)[k] = j[l + k]
    BY <1>2, <1>3, PartsOf
  <2>2. Len(j) - l = Len(t)
    BY <1>1, <1>3
  <2> QED BY <1>5, <2>1, <2>2, SeqEqual
<1> QED BY <1>2, <1>3, <1>4, <1>5, <1>6, <1>7 DEF j, h

\* The last dash ends the upstream version.
LEMMA SplitPlain ==
    ASSUME NEW e, NEW u \in Seq(ValidChars), u # <<>>, Places("-", u) = {}
    PROVE  SplitRevision(e, u) = {[epoch |-> e, upstream |-> u, revision |-> <<>>]}
BY SeqIsAllIn DEF SplitRevision

LEMMA SplitDashed ==
    ASSUME NEW e, NEW u \in Seq(ValidChars), NEW r \in Seq(ValidChars), Places("-", r) = {}
    PROVE  SplitRevision(e, Append(u, "-") \o r) = {[epoch |-> e, upstream |-> u, revision |-> r]}
<1> DEFINE j == Append(u, "-") \o r
           l == Len(u) + 1
           D == Places("-", j)
<1>1. "-" \in ValidChars
  BY DEF ValidChars, Marks
<1>2. /\ j \in Seq(ValidChars) /\ l \in 1 .. Len(j) /\ Len(j) = l + Len(r) /\ j[l] = "-"
      /\ \A k \in 1 .. Len(r) : j[l + k] = r[k]
      /\ Upto(j, l) = u /\ Past(j, l) = r
  BY <1>1, Joined
<1>3. Len(u) \in Nat /\ Len(r) \in Nat
  BY LenProperties
<1> HIDE DEF j
<1>4. D \in SUBSET (1 .. Len(j)) /\ \A i \in 1 .. Len(j) : j[i] = "-" <=> i \in D
  BY <1>2, PlacesFacts
<1>5. \A k \in 1 .. Len(r) : r[k] # "-"
  BY PlacesFacts
<1> HIDE DEF D
<1>6. l \in D
  BY <1>2, <1>4
<1>7. Max(D) \in D /\ \A x \in D : x <= Max(D)
  <2>1. Len(j) \in Nat /\ D \in SUBSET (0 .. Len(j)) /\ D # {}
    BY <1>2, <1>3, <1>4, <1>6
  <2> QED BY <2>1, GreatestExists
<1>8. Max(D) = l
  <2>1. Max(D) \in 1 .. Len(j) /\ l <= Max(D) /\ j[Max(D)] = "-"
    BY <1>4, <1>6, <1>7
  <2>2. CASE Max(D) > l
    <3> DEFINE k == Max(D) - l
    <3>1. k \in 1 .. Len(r) /\ l + k = Max(D)
      BY <1>2, <1>3, <2>1, <2>2
    <3> HIDE DEF k
    <3>2. r[k] = "-"
      BY <1>2, <2>1, <3>1
    <3> QED BY <1>5, <3>1, <3>2
  <2> QED BY <1>3, <2>1, <2>2
<1>9. AllIn(j, ValidChars)
  BY <1>2, SeqIsAllIn
<1>10. j # <<>>
  <2>1. Len(j) # 0
    BY <1>2, <1>3
  <2> QED BY <2>1
<1>11. SplitRevision(e, j) = {[epoch |-> e, upstream |-> Upto(j, Max(D)), revision |-> Past(j, Max(D))]}
  <2>1. D # {}
    BY <1>6
  <2> QED BY <1>9, <1>10, <2>1 DEF SplitRevision, D
<1> QED BY <1>2, <1>8, <1>11 DEF j

\* What splitting gives.
LEMMA SplitGives ==
    ASSUME NEW S, NEW s \in Seq(S), NEW e, NEW v \in SplitRevision(e, s)
    PROVE  /\ v = [epoch |-> e, upstream |-> v.upstream, revision |-> v.revision]
           /\ v.upstream \in Seq(ValidChars) /\ v.revision \in Seq(ValidChars)
           /\ Places("-", v.revision) = {}
<1> DEFINE D == Places("-", s)
           dash == Max(D)
<1>1. s # <<>> /\ AllIn(s, ValidChars)
  BY DEF SplitRevision
<1>2. s \in Seq(ValidChars)
  BY <1>1, AllInIsSeq
<1>3. CASE D = {}
  <2>1. v = [epoch |-> e, upstream |-> s, revision |-> <<>>]
    BY <1>1, <1>3 DEF SplitRevision
  <2>2. <<>> \in Seq(ValidChars) /\ Places("-", <<>>) = {}
    BY EmptySeq DEF Places
  <2> QED BY <1>2, <2>1, <2>2
<1>4. CASE D # {}
  <2>1. v = [epoch |-> e, upstream |-> Upto(s, dash), revision |-> Past(s, dash)]
    BY <1>1, <1>4 DEF SplitRevision
  <2>2. D \in SUBSET (1 .. Len(s)) /\ \A i \in 1 .. Len(s) : s[i] = "-" <=> i \in D
    BY <1>2, PlacesFacts
  <2>3. Len(s) \in Nat
    BY LenProperties
  <2> HIDE DEF D
  <2>4. dash \in D /\ \A x \in D : x <= dash
    <3>1. D \in SUBSET (0 .. Len(s))
      BY <2>2
    <3> QED BY <1>4, <2>3, <3>1, GreatestExists
  <2> HIDE DEF dash
  <2>5. dash \in 1 .. Len(s)
    BY <2>2, <2>4
  <2>6. /\ Upto(s, dash) \in Seq(ValidChars) /\ Past(s, dash) \in Seq(ValidChars)
        /\ Len(Past(s, dash)) = Len(s) - dash
        /\ \A k \in 1 .. Len(s) - dash : Past(s, dash)[k] = s[dash + k]
    BY <1>2, <2>5, PartsOf
  <2>7. Places("-", Past(s, dash)) = {}
    <3> DEFINE r == Past(s, dash)
    <3>1. Places("-", r) \in SUBSET (1 .. Len(r)) /\ \A k \in 1 .. Len(r) : r[k] = "-" <=> k \in Places("-", r)
      BY <2>6, PlacesFacts
    <3>2. ASSUME NEW k \in Places("-", r) PROVE FALSE
      <4>1. k \in 1 .. Len(s) - dash /\ r[k] = "-"
        BY <2>6, <3>1
      <4>2. s[dash + k] = "-"
        BY <2>6, <4>1
      <4>3. dash + k \in 1 .. Len(s) /\ ~(dash + k <= dash)
        BY <2>3, <2>5, <4>1
      <4> QED BY <2>2, <2>4, <4>2, <4>3
    <3> QED BY <3>2
  <2> QED BY <2>1, <2>6, <2>7
<1> QED BY <1>3, <1>4

LEMMA EpochOfDigits ==
    ASSUME NEW ds, NEW n \in 0 .. MaxEpoch, Spells(ds, n)
    PROVE  Epoch(ds) = {n}
<1>1. ds \in Seq(Digits) /\ Len(ds) >= 1 /\ Number(ds, 1, Len(ds) + 1) = n
  BY DEF Spells
<1>2. ds # <<>>
  BY <1>1
<1>3. Head(ds) \in Digits
  BY <1>1, <1>2, HeadTailProperties
<1>4. Head(ds) # "+"
  BY <1>3, CharFacts DEF Marks
<1>5. AllIn(ds, Digits)
  BY <1>1, SeqIsAllIn
<1>6. Epoch(ds) = {m \in {n} : m <= MaxEpoch}
  BY <1>1, <1>2, <1>4, <1>5 DEF Epoch
<1>7. n <= MaxEpoch
  BY VersionAssumption
<1> QED BY <1>6, <1>7

LEMMA EpochType ==
    ASSUME NEW s \in Text
    PROVE  Epoch(s) \subseteq 0 .. MaxEpoch
<1> DEFINE ds == IF s # <<>> /\ Head(s) = "+" THEN Tail(s) ELSE s
<1> SUFFICES ASSUME NEW n \in Epoch(s) PROVE n \in 0 .. MaxEpoch
  OBVIOUS
<1>1. ds \in Text
  <2>1. s # <<>> => Tail(s) \in Text
    BY HeadTailProperties DEF Text
  <2> QED BY <2>1
<1>2. AllIn(ds, Digits) /\ n = Number(ds, 1, Len(ds) + 1) /\ n <= MaxEpoch
  BY DEF Epoch
<1> HIDE DEF ds
<1>3. Len(ds) \in Nat /\ DOMAIN ds = 1 .. Len(ds)
  BY <1>1, TextFacts
<1>4. n \in Nat
  <2> DEFINE i == 1
             j == Len(ds) + 1
  <2>1. i \in Nat /\ j \in Nat /\ i <= j /\ \A k \in i .. j - 1 : ds[k] \in Digits
    BY <1>2, <1>3 DEF AllIn
  <2> HIDE DEF i, j
  <2>2. Number(ds, i, j) \in Nat
    BY <2>1, NumberType
  <2> QED BY <1>2, <2>2 DEF i, j
<1> QED BY <1>2, <1>4, VersionAssumption

\* A version that can be parsed, of the kinds that display tells apart.
Readable(v) ==
    /\ v = [epoch |-> v.epoch, upstream |-> v.upstream, revision |-> v.revision]
    /\ v.epoch \in 0 .. MaxEpoch
    /\ v.upstream \in Seq(ValidChars) /\ v.revision \in Seq(ValidChars)
    /\ Places("-", v.revision) = {}

LEMMA ParsedIsReadable ==
    ASSUME NEW s \in Text, NEW v \in ParseVersion(s)
    PROVE  Readable(v)
<1> DEFINE D == Places(":", s)
           colon == Min(D)
<1>1. s \in Seq(DOMAIN Rank) /\ 0 \in 0 .. MaxEpoch
  BY VersionAssumption DEF Text
<1>2. CASE D = {}
  <2>1. v \in SplitRevision(0, s)
    BY <1>2 DEF ParseVersion
  <2>2. /\ v = [epoch |-> 0, upstream |-> v.upstream, revision |-> v.revision]
        /\ v.upstream \in Seq(ValidChars) /\ v.revision \in Seq(ValidChars)
        /\ Places("-", v.revision) = {}
    BY <1>1, <2>1, SplitGives
  <2>3. v.epoch = 0
    BY <2>2
  <2> QED BY <1>1, <2>2, <2>3 DEF Readable
<1>3. CASE D # {}
  <2>1. D \in SUBSET (1 .. Len(s)) /\ Len(s) \in Nat
    BY <1>1, PlacesFacts, LenProperties
  <2>2. PICK e \in Epoch(Upto(s, colon)) : v \in SplitRevision(e, Past(s, colon))
    BY <1>3 DEF ParseVersion
  <2> HIDE DEF D
  <2>3. colon \in D
    <3>1. D \in SUBSET Nat
      BY <2>1
    <3> QED BY <1>3, <3>1, LeastExists
  <2> HIDE DEF colon
  <2>4. Upto(s, colon) \in Text /\ Past(s, colon) \in Seq(DOMAIN Rank)
    <3>1. colon \in 1 .. Len(s)
      BY <2>1, <2>3
    <3> QED BY <1>1, <3>1, PartsOf DEF Text
  <2>5. e \in 0 .. MaxEpoch
    BY <2>2, <2>4, EpochType
  <2>6. /\ v = [epoch |-> e, upstream |-> v.upstream, revision |-> v.revision]
        /\ v.upstream \in Seq(ValidChars) /\ v.revision \in Seq(ValidChars)
        /\ Places("-", v.revision) = {}
    BY <2>2, <2>4, SplitGives
  <2>7. v.epoch = e
    BY <2>6
  <2> QED BY <2>5, <2>6, <2>7 DEF Readable
<1> QED BY <1>2, <1>3

\* Upstream version and revision as display writes them.
Shown(v) == v.upstream \o (IF v.revision = <<>> THEN <<>> ELSE <<"-">> \o v.revision)

LEMMA ShownSplits ==
    ASSUME NEW v, Readable(v), v.revision = <<>> => v.upstream # <<>> /\ Places("-", v.upstream) = {}
    PROVE  /\ Shown(v) \in Seq(ValidChars)
           /\ \A e : SplitRevision(e, Shown(v)) = {[epoch |-> e, upstream |-> v.upstream, revision |-> v.revision]}
           /\ Places(":", v.upstream) = {} /\ Places(":", v.revision) = {} => Places(":", Shown(v)) = {}
<1>1. v.upstream \in Seq(ValidChars) /\ v.revision \in Seq(ValidChars) /\ Places("-", v.revision) = {}
  BY DEF Readable
<1>2. CASE v.revision = <<>>
  <2>1. Shown(v) = v.upstream
    BY <1>1, <1>2, ConcatEmptySeq DEF Shown
  <2> QED BY <1>1, <1>2, <2>1, SplitPlain
<1>3. CASE v.revision # <<>>
  <2> DEFINE u == v.upstream
             r == v.revision
             j == Append(u, "-") \o r
             l == Len(u) + 1
  <2>1. "-" \in ValidChars /\ u \in Seq(ValidChars) /\ r \in Seq(ValidChars)
    BY <1>1 DEF ValidChars, Marks
  <2>2. Shown(v) = j
    <3>1. Shown(v) = u \o (<<"-">> \o r)
      BY <1>3 DEF Shown
    <3> HIDE DEF u, r
    <3>2. <<"-">> \in Seq(ValidChars)
      BY <2>1
    <3>3. u \o (<<"-">> \o r) = (u \o <<"-">>) \o r
      BY <2>1, <3>2, ConcatAssociative
    <3>4. u \o <<"-">> = Append(u, "-")
      BY <2>1
    <3> QED BY <3>1, <3>3, <3>4
  <2>3. /\ j \in Seq(ValidChars) /\ l \in 1 .. Len(j) /\ Len(j) = l + Len(r) /\ j[l] = "-"
        /\ \A k \in 1 .. l - 1 : j[k] = u[k]
        /\ \A k \in 1 .. Len(r) : j[l + k] = r[k]
    <3> HIDE DEF u, r
    <3> QED BY <2>1, Joined
  <2>4. \A e : SplitRevision(e, j) = {[epoch |-> e, upstream |-> u, revision |-> r]}
    BY <1>1, SplitDashed
  <2>5. ASSUME Places(":", u) = {}, Places(":", r) = {} PROVE Places(":", j) = {}
    <3>1. Len(u) \in Nat /\ Len(r) \in Nat
      BY <1>1, LenProperties
    <3>2. (\A k \in 1 .. Len(u) : u[k] # ":") /\ (\A k \in 1 .. Len(r) : r[k] # ":")
      BY <1>1, <2>5, PlacesFacts
    <3> HIDE DEF j, u, r
    <3>3. Places(":", j) \in SUBSET (1 .. Len(j)) /\ \A i \in 1 .. Len(j) : j[i] = ":" <=> i \in Places(":", j)
      BY <2>3, PlacesFacts
    <3>4. ASSUME NEW i \in 1 .. Len(j) PROVE j[i] # ":"
      <4>1. CASE i < l
        BY <2>3, <3>1, <3>2, <4>1
      <4>2. CASE i = l
        BY <2>3, <4>2
      <4>3. CASE i > l
        <5>1. i - l \in 1 .. Len(r) /\ l + (i - l) = i
          BY <2>3, <3>1, <4>3
        <5> QED BY <2>3, <3>2, <5>1
      <4> QED BY <3>1, <4>1, <4>2, <4>3
    <3> QED BY <3>3, <3>4
  <2> QED BY <2>2, <2>3, <2>4, <2>5
<1> QED BY <1>2, <1>3

\* The first colon ends an epoch that is displayed.
LEMMA EpochSplits ==
    ASSUME NEW ds, NEW n \in 0 .. MaxEpoch, Spells(ds, n), NEW t \in Seq(ValidChars)
    PROVE  ParseVersion(Append(ds, ":") \o t) = SplitRevision(n, t)
<1> DEFINE S == Digits \cup ValidChars
           j == Append(ds, ":") \o t
           l == Len(ds) + 1
           D == Places(":", j)
<1>1. ds \in Seq(S) /\ t \in Seq(S) /\ ":" \in S /\ ds \in Seq(Digits)
  <2>1. ds \in Seq(Digits) /\ Digits \subseteq S /\ ValidChars \subseteq S
    BY DEF Spells
  <2>2. ":" \in S
    BY DEF ValidChars, Marks
  <2> HIDE DEF S
  <2> QED BY <2>1, <2>2, SeqMonotonic
<1> HIDE DEF S
<1>2. /\ j \in Seq(S) /\ l \in 1 .. Len(j) /\ j[l] = ":"
      /\ \A k \in 1 .. l - 1 : j[k] = ds[k]
      /\ Upto(j, l) = ds /\ Past(j, l) = t
  BY <1>1, Joined
<1>3. Len(ds) \in Nat /\ \A k \in 1 .. Len(ds) : ds[k] \in Digits
  BY <1>1, LenProperties, ElementOfSeq
<1> HIDE DEF j
<1>4. D \in SUBSET (1 .. Len(j)) /\ \A i \in 1 .. Len(j) : j[i] = ":" <=> i \in D
  BY <1>2, PlacesFacts
<1> HIDE DEF D
<1>5. l \in D
  BY <1>2, <1>4
<1>6. ":" \notin Digits
  BY CharFacts DEF Marks
<1>7. Min(D) \in D /\ Min(D) <= l
  <2>1. D \in SUBSET Nat /\ D # {}
    BY <1>4, <1>5
  <2> QED BY <1>5, <2>1, LeastExists
<1>8. Min(D) = l
  <2>1. Min(D) \in 1 .. Len(j) /\ j[Min(D)] = ":"
    BY <1>4, <1>7
  <2>2. CASE Min(D) < l
    <3>1. Min(D) \in 1 .. l - 1 /\ Min(D) \in 1 .. Len(ds)
      BY <1>3, <2>1, <2>2
    <3> QED BY <1>2, <1>3, <1>6, <2>1, <3>1
  <2> QED BY <1>3, <1>7, <2>1, <2>2
<1>9. ParseVersion(j) = UNION {SplitRevision(e, Past(j, Min(D))) : e \in Epoch(Upto(j, Min(D)))}
  <2>1. D # {}
    BY <1>5
  <2> QED BY <2>1 DEF ParseVersion, D
<1>10. Epoch(ds) = {n}
  BY EpochOfDigits
<1>11. ParseVersion(j) = UNION {SplitRevision(e, t) : e \in {n}}
  BY <1>2, <1>8, <1>9, <1>10
<1> QED BY <1>11 DEF j

LEMMA DisplayedIsRead == ASSUME NEW s \in Text PROVE DisplayReparses(s)
<1> SUFFICES ASSUME NEW v \in ParseVersion(s),
                    v.epoch = 0 => Places(":", v.upstream) = {} /\ Places(":", v.revision) = {},
                    v.revision = <<>> => v.upstream # <<>> /\ Places("-", v.upstream) = {}
             PROVE  ParseVersion(Display(v)) = {v}
  BY DEF DisplayReparses
<1>1. Readable(v)
  BY ParsedIsReadable
<1>2. /\ Shown(v) \in Seq(ValidChars)
      /\ \A e : SplitRevision(e, Shown(v)) = {[epoch |-> e, upstream |-> v.upstream, revision |-> v.revision]}
      /\ Places(":", v.upstream) = {} /\ Places(":", v.revision) = {} => Places(":", Shown(v)) = {}
  BY <1>1, ShownSplits
<1>3. v = [epoch |-> v.epoch, upstream |-> v.upstream, revision |-> v.revision] /\ v.epoch \in 0 .. MaxEpoch
  BY <1>1 DEF Readable
<1>4. SplitRevision(v.epoch, Shown(v)) = {v}
  BY <1>2, <1>3
<1> DEFINE u == v.upstream
           R == IF v.revision = <<>> THEN <<>> ELSE <<"-">> \o v.revision
<1>5. u \in Seq(ValidChars) /\ R \in Seq(ValidChars) /\ Shown(v) = u \o R
  <2>1. u \in Seq(ValidChars) /\ v.revision \in Seq(ValidChars) /\ <<"-">> \in Seq(ValidChars)
    BY <1>1 DEF Readable, ValidChars, Marks
  <2>2. <<"-">> \o v.revision \in Seq(ValidChars)
    BY <2>1, ConcatProperties
  <2> QED BY <2>1, <2>2, EmptySeq DEF Shown
<1>6. CASE v.epoch = 0
  <2>1. Display(v) = (<<>> \o u) \o R
    BY <1>6 DEF Display
  <2> HIDE DEF u, R
  <2>2. Display(v) = Shown(v)
    BY <1>5, <2>1, ConcatEmptySeq
  <2>3. ParseVersion(Shown(v)) = SplitRevision(0, Shown(v))
    BY <1>2, <1>6 DEF ParseVersion
  <2> QED BY <1>4, <1>6, <2>2, <2>3
<1>7. CASE v.epoch # 0
  <2> DEFINE ds == Decimal(v.epoch)
             H == Append(ds, ":")
             S == Digits \cup ValidChars
  <2>1. Display(v) = (H \o u) \o R
    BY <1>7 DEF Display
  <2>2. Spells(ds, v.epoch)
    <3>1. v.epoch \in Nat
      BY <1>3
    <3> QED BY <3>1, DecimalSpells
  <2>3. H \in Seq(S) /\ u \in Seq(S) /\ R \in Seq(S)
    <3>1. ds \in Seq(Digits) /\ Digits \subseteq S /\ ValidChars \subseteq S /\ ":" \in S
      BY <2>2 DEF Spells, ValidChars, Marks
    <3> HIDE DEF S, ds, u, R
    <3>2. ds \in Seq(S) /\ u \in Seq(S) /\ R \in Seq(S)
      BY <1>5, <3>1, SeqMonotonic
    <3> QED BY <3>1, <3>2
  <2> HIDE DEF H, u, R, S
  <2>4. Display(v) = H \o Shown(v)
    BY <1>5, <2>1, <2>3, ConcatAssociative
  <2>5. ParseVersion(H \o Shown(v)) = SplitRevision(v.epoch, Shown(v))
    <3> HIDE DEF ds
    <3> QED BY <1>2, <1>3, <2>2, EpochSplits DEF H
  <2> QED BY <1>4, <2>4, <2>5
<1> QED BY <1>6, <1>7

\* Versions are compared as the policy says, a constraint takes what it
\* should, and what is displayed is parsed back, whatever strings and versions
\* those are whose numbers fit into 64 bits (deb-version 79-333).
THEOREM VersionsAreOrderedAndRead == VersionSpec => []VersionsAgree
<1> DEFINE TypeInv ==
        /\ part = "compare" => \E s, t \in Compared : input = <<s, t>>
        /\ part = "constraint" => \E v, w \in Constrained : input = <<v, w>>
        /\ part = "version" => input \in VersionTexts
<1>1. NoInput => TypeInv
  BY DEF NoInput
<1>2. TypeInv /\ [CompareVersions \/ CheckConstraint \/ ReadVersion
                  \/ Elsewhere({"compare", "constraint", "version"})]_inputVars => TypeInv'
  BY DEF CompareVersions, CheckConstraint, ReadVersion, Elsewhere, Take, inputVars
<1>3. TypeInv => VersionsAgree
  <2> SUFFICES ASSUME TypeInv PROVE VersionsAgree
    OBVIOUS
  <2>1. ASSUME part = "compare" PROVE OrderIsPolicy(input[1], input[2])
    <3>1. PICK s \in Compared, t \in Compared : input = <<s, t>>
      BY <2>1
    <3>2. s \in Text /\ t \in Text
      BY VersionAssumption
    <3>3. input[1] = s /\ input[2] = t
      BY <3>1
    <3> QED BY <3>2, <3>3, WalkDecides
  <2>2. ASSUME part = "constraint" PROVE SatisfiesIsPolicy(input[1], input[2])
    <3>1. PICK v \in Constrained, w \in Constrained : input = <<v, w>>
      BY <2>2
    <3>2. v \in Versions /\ w \in Versions
      BY VersionAssumption
    <3>3. input[1] = v /\ input[2] = w
      BY <3>1
    <3> QED BY <3>2, <3>3, ConstraintTakes
  <2>3. ASSUME part = "version" PROVE DisplayReparses(input)
    <3>1. input \in Text
      BY <2>3, VersionAssumption
    <3> QED BY <3>1, DisplayedIsRead
  <2> QED BY <2>1, <2>2, <2>3 DEF VersionsAgree
<1> QED BY <1>1, <1>2, <1>3, PTL DEF VersionSpec

-----------------------------------------------------------------------------
(* Control files: types, and the loops of the readers. *)

Field     == [key : FieldKey, value : Seq(Line)]
ReadState == [para : Seq(Field), current : SUBSET FieldKey, failed : BOOLEAN]
Unread    == [para |-> <<>>, current |-> {}, failed |-> FALSE]
Unfolded(line) == [line EXCEPT !.indent = FALSE]
ReadKey(line, trims) ==
    LET key == CHOOSE k \in line.keys : TRUE IN IF trims THEN [key EXCEPT !.padded = FALSE] ELSE key

LEMMA LineFacts ==
    ASSUME NEW line \in Line
    PROVE  /\ line.indent \in BOOLEAN /\ line.keys \subseteq FieldKey /\ line.value \in STRING
           /\ Unfolded(line) \in Line /\ Unfolded(line).keys = line.keys
           /\ Unfolded(line).value = line.value /\ Unfolded(line).indent = FALSE
           /\ ~line.indent => Unfolded(line) = line
BY DEF Line, Unfolded

LEMMA UnkeyedLine == ASSUME NEW v \in STRING PROVE Unkeyed(v) \in Line
BY DEF Line, Unkeyed

LEMMA ReadKeyType ==
    ASSUME NEW line \in Line, line.keys # {}, NEW trims \in BOOLEAN
    PROVE  /\ ReadKey(line, trims) \in FieldKey
           /\ trims => ReadKey(line, trims).padded = FALSE
           /\ (\A k \in line.keys : ~k.padded) => ReadKey(line, trims) = ReadKey(line, TRUE)
<1> DEFINE key == CHOOSE k \in line.keys : TRUE
<1>1. key \in line.keys /\ key \in FieldKey
  BY LineFacts
<1>2. key.padded \in BOOLEAN /\ [key EXCEPT !.padded = FALSE] \in FieldKey
      /\ [key EXCEPT !.padded = FALSE].padded = FALSE
  BY <1>1 DEF FieldKey
<1>3. ASSUME ~key.padded PROVE [key EXCEPT !.padded = FALSE] = key
  BY <1>1, <1>2, <1>3 DEF FieldKey
<1> HIDE DEF key
<1>4. ReadKey(line, trims) = IF trims THEN [key EXCEPT !.padded = FALSE] ELSE key
  BY DEF ReadKey, key
<1>5. ReadKey(line, TRUE) = [key EXCEPT !.padded = FALSE]
  BY DEF ReadKey, key
<1> QED BY <1>1, <1>2, <1>3, <1>4, <1>5

\* What a line does to a paragraph, in its cases.
LEMMA Ignored ==
    ASSUME NEW r, NEW line, NEW strict, NEW trims, r.failed \/ (~line.indent /\ line.keys = {})
    PROVE  ReadLine(r, line, strict, trims) = r
BY DEF ReadLine

LEMMA Continued ==
    ASSUME NEW r \in ReadState, NEW line \in Line, NEW strict, NEW trims, ~r.failed, line.indent
    PROVE  LET q == ReadLine(r, line, strict, trims)
           IN /\ q = [r EXCEPT !.para = q.para] /\ q.para \in Seq(Field)
              /\ DOMAIN q.para = DOMAIN r.para
              /\ \A i \in DOMAIN r.para :
                    q.para[i] = IF r.para[i].key \in r.current
                                THEN [key |-> r.para[i].key, value |-> Append(r.para[i].value, Unfolded(line))]
                                ELSE r.para[i]
<1> DEFINE q == ReadLine(r, line, strict, trims)
           new(f) == IF f.key \in r.current
                     THEN [key |-> f.key, value |-> Append(f.value, Unfolded(line))] ELSE f
           Q == [i \in DOMAIN r.para |-> new(r.para[i])]
<1>1. q = [r EXCEPT !.para = Q]
  <2>1. q = Continue(r, line)
    BY DEF ReadLine
  <2> HIDE DEF q
  <2> QED BY <2>1 DEF Continue, Unfolded
<1>2. ASSUME NEW f \in Field PROVE new(f) \in Field
  <2>1. Unfolded(line) \in Line /\ f.key \in FieldKey /\ f.value \in Seq(Line)
    BY LineFacts DEF Field
  <2>2. Append(f.value, Unfolded(line)) \in Seq(Line)
    BY <2>1, AppendProperties
  <2> QED BY <2>1, <2>2 DEF Field
<1>3. r.para \in Seq(Field)
  BY DEF ReadState
<1>4. /\ DOMAIN Q = DOMAIN r.para
      /\ \A i \in DOMAIN r.para : Q[i] = new(r.para[i])
  OBVIOUS
<1>5. Q \in Seq(Field)
  <2>1. \A i \in 1 .. Len(r.para) : r.para[i] \in Field
    BY <1>3, ElementOfSeq
  <2>2. \A i \in 1 .. Len(r.para) : new(r.para[i]) \in Field
    BY <1>2, <2>1
  <2>3. DOMAIN r.para = 1 .. Len(r.para) /\ Len(r.para) \in Nat
    BY <1>3, LenProperties
  <2> HIDE DEF new
  <2> QED BY <2>2, <2>3
<1> HIDE DEF Q, q
<1>6. q.para = Q
  BY <1>1 DEF ReadState
<1>7. q = [r EXCEPT !.para = q.para]
  BY <1>1, <1>6
<1> QED BY <1>4, <1>5, <1>6, <1>7 DEF q

LEMMA Started ==
    ASSUME NEW r \in ReadState, NEW line, NEW strict, NEW trims, NEW key, key = ReadKey(line, trims),
           ~r.failed, ~line.indent, line.keys # {}
    PROVE  LET q == ReadLine(r, line, strict, trims)
           IN /\ strict = TRUE /\ Has(r.para, key) => q = [r EXCEPT !.failed = TRUE]
              /\ ~(strict = TRUE /\ Has(r.para, key)) =>
                    q = [para |-> Set(r.para, key, <<Unkeyed(line.value)>>),
                         current |-> {key}, failed |-> FALSE]
<1> DEFINE q == ReadLine(r, line, strict, trims)
<1>1. q = NewField(r, key, line.value, strict)
  BY DEF ReadLine, ReadKey
<1> HIDE DEF q
<1>2. /\ strict = TRUE /\ Has(r.para, key) => q = [r EXCEPT !.failed = TRUE]
      /\ ~(strict = TRUE /\ Has(r.para, key)) =>
            q = [para |-> Set(r.para, key, <<Unkeyed(line.value)>>), current |-> {key}, failed |-> FALSE]
  BY <1>1 DEF NewField
<1> QED BY <1>2 DEF q

\* The loop of Read.
ReadTo(f, s, strict, trims, n) ==
    [k \in 0 .. n |-> IF k = 0 THEN Unread ELSE ReadLine(f[k - 1], s[k], strict, trims)]
ReadRun(s, strict, trims, n) == CHOOSE f : f = ReadTo(f, s, strict, trims, n)

LEMMA ReadRuns ==
    ASSUME NEW s, NEW strict, NEW trims, NEW n \in Nat
    PROVE  ReadRun(s, strict, trims, n) = ReadTo(ReadRun(s, strict, trims, n), s, strict, trims, n)
<1> DEFINE G == {k \in 0 .. n : \E f : f = ReadTo(f, s, strict, trims, k)}
<1>1. 0 \in G
  <2>1. [k \in 0 .. 0 |-> Unread] = ReadTo([k \in 0 .. 0 |-> Unread], s, strict, trims, 0)
    BY DEF ReadTo
  <2> QED BY <2>1
<1>2. ASSUME NEW m \in 0 .. n - 1, m \in G PROVE m + 1 \in G
  <2>1. PICK f : f = ReadTo(f, s, strict, trims, m)
    BY <1>2
  <2> DEFINE g == [k \in 0 .. m + 1 |-> IF k = 0 THEN Unread ELSE ReadLine(f[k - 1], s[k], strict, trims)]
  <2>2. \A k \in 0 .. m : g[k] = f[k]
    <3>1. \A k \in 0 .. m : g[k] = ReadTo(f, s, strict, trims, m)[k]
      BY DEF ReadTo
    <3> QED BY <2>1, <3>1, Zenon
  <2>3. \A k \in 0 .. m + 1 : k # 0 => k - 1 \in 0 .. m
    OBVIOUS
  <2>4. g = ReadTo(g, s, strict, trims, m + 1)
    BY <2>2, <2>3 DEF ReadTo
  <2> QED BY <2>4
<1>3. n \in G
  <2>1. \A m \in 0 .. n - 1 : m \in G => m + 1 \in G
    BY <1>2
  <2>2. n \in 0 .. n
    OBVIOUS
  <2> HIDE DEF G
  <2> QED BY <1>1, <2>1, <2>2, Induction
<1> QED BY <1>3 DEF ReadRun

\* What has been read of a stanza after each of its lines.
Readings(s, strict, trims) == ReadRun(s, strict, trims, Len(s))

LEMMA ReadSteps ==
    ASSUME NEW s \in Seq(Line), NEW strict, NEW trims
    PROVE  LET f == Readings(s, strict, trims) IN
           /\ Read(s, strict, trims) = f[Len(s)]
           /\ f[0] = Unread
           /\ \A k \in 0 .. Len(s) - 1 : f[k + 1] = ReadLine(f[k], s[k + 1], strict, trims)
<1> DEFINE n == Len(s)
           f == ReadRun(s, strict, trims, n)
           b == ReadTo(f, s, strict, trims, n)
<1>0. n \in Nat
  OBVIOUS
<1>1. f = b
  BY <1>0, ReadRuns
<1>2. Read(s, strict, trims) = f[n]
  BY DEF Read, ReadRun, ReadTo, Unread
<1>3. b[0] = Unread
  BY <1>0 DEF ReadTo
<1>4. ASSUME NEW k \in 0 .. n - 1 PROVE b[k + 1] = ReadLine(f[k], s[k + 1], strict, trims)
  <2>1. k + 1 \in 0 .. n /\ k + 1 # 0 /\ (k + 1) - 1 = k
    BY <1>0
  <2> QED BY <2>1 DEF ReadTo
<1>5. Readings(s, strict, trims) = f
  BY DEF Readings
<1> HIDE DEF f, b
<1>6. f[0] = Unread
  BY <1>1, <1>3
<1>7. ASSUME NEW k \in 0 .. n - 1 PROVE f[k + 1] = ReadLine(f[k], s[k + 1], strict, trims)
  BY <1>1, <1>4
<1> QED BY <1>2, <1>5, <1>6, <1>7

\* The loop of Untrimmed.
Split0 == [kept |-> <<>>, open |-> <<>>]
SplitLine(r, line) ==
    IF Separates(line) THEN [kept |-> EndStanza(r), open |-> <<>>]
    ELSE [r EXCEPT !.open = Append(r.open, line)]
SplitTo(f, s, n) == [k \in 0 .. n |-> IF k = 0 THEN Split0 ELSE SplitLine(f[k - 1], s[k])]
SplitRun(s, n) == CHOOSE f : f = SplitTo(f, s, n)

LEMMA SplitRuns == ASSUME NEW s, NEW n \in Nat PROVE SplitRun(s, n) = SplitTo(SplitRun(s, n), s, n)
<1> DEFINE G == {k \in 0 .. n : \E f : f = SplitTo(f, s, k)}
<1>1. 0 \in G
  <2>1. [k \in 0 .. 0 |-> Split0] = SplitTo([k \in 0 .. 0 |-> Split0], s, 0)
    BY DEF SplitTo
  <2> QED BY <2>1
<1>2. ASSUME NEW m \in 0 .. n - 1, m \in G PROVE m + 1 \in G
  <2>1. PICK f : f = SplitTo(f, s, m)
    BY <1>2
  <2> DEFINE g == [k \in 0 .. m + 1 |-> IF k = 0 THEN Split0 ELSE SplitLine(f[k - 1], s[k])]
  <2>2. \A k \in 0 .. m : g[k] = f[k]
    <3>1. \A k \in 0 .. m : g[k] = SplitTo(f, s, m)[k]
      BY DEF SplitTo
    <3> QED BY <2>1, <3>1, Zenon
  <2>3. \A k \in 0 .. m + 1 : k # 0 => k - 1 \in 0 .. m
    OBVIOUS
  <2>4. g = SplitTo(g, s, m + 1)
    BY <2>2, <2>3 DEF SplitTo
  <2> QED BY <2>4
<1>3. n \in G
  <2>1. \A m \in 0 .. n - 1 : m \in G => m + 1 \in G
    BY <1>2
  <2>2. n \in 0 .. n
    OBVIOUS
  <2> HIDE DEF G
  <2> QED BY <1>1, <2>1, <2>2, Induction
<1> QED BY <1>3 DEF SplitRun

\* What is between empty lines is a stanza with a line that is not blank.
Piece == {s \in Seq(Line) : Said(s) # {}}

LEMMA UntrimmedType == ASSUME NEW text \in Seq(Line) PROVE Untrimmed(text) \in Seq(Piece)
<1> DEFINE n == Len(text)
           f == SplitRun(text, n)
           b == SplitTo(f, text, n)
           State == [kept : Seq(Piece), open : Seq(Line)]
           G == {k \in 0 .. n : f[k] \in State}
<1>0. n \in Nat
  OBVIOUS
<1>1. f = b
  BY <1>0, SplitRuns
<1>2. Untrimmed(text) = EndStanza(f[n])
  BY DEF Untrimmed, SplitRun, SplitTo, SplitLine, Split0
<1>3. b[0] = Split0
  BY <1>0 DEF SplitTo
<1>4. ASSUME NEW k \in 0 .. n - 1 PROVE b[k + 1] = SplitLine(f[k], text[k + 1])
  <2>1. k + 1 \in 0 .. n /\ k + 1 # 0 /\ (k + 1) - 1 = k
    BY <1>0
  <2> QED BY <2>1 DEF SplitTo
<1> HIDE DEF f, b
<1>5. f[0] = Split0
  BY <1>1, <1>3
<1>6. ASSUME NEW k \in 0 .. n - 1 PROVE f[k + 1] = SplitLine(f[k], text[k + 1])
  BY <1>1, <1>4
<1>7. ASSUME NEW r \in State PROVE EndStanza(r) \in Seq(Piece)
  <2>1. r.open \in Piece \/ Said(r.open) = {}
    BY DEF Piece
  <2>2. r.kept \in Seq(Piece)
    OBVIOUS
  <2> QED BY <2>1, <2>2, AppendProperties DEF EndStanza
<1>8. 0 \in G
  <2>1. <<>> \in Seq(Piece) /\ <<>> \in Seq(Line)
    BY EmptySeq
  <2>2. Split0 \in State
    BY <2>1 DEF Split0
  <2> QED BY <1>0, <1>5, <2>2
<1>9. ASSUME NEW k \in 0 .. n - 1, k \in G PROVE k + 1 \in G
  <2>1. f[k] \in State /\ k + 1 \in 0 .. n /\ k + 1 \in 1 .. n
    BY <1>9, <1>0
  <2>2. text[k + 1] \in Line
    BY <2>1, ElementOfSeq
  <2> DEFINE r == f[k]
             line == text[k + 1]
             opened == Append(r.open, line)
  <2>3. opened \in Seq(Line) /\ r.kept \in Seq(Piece)
    BY <2>1, <2>2, AppendProperties
  <2>4. EndStanza(r) \in Seq(Piece)
    BY <1>7, <2>1
  <2>5. f[k + 1] = SplitLine(r, line)
    BY <1>6
  <2>6. SplitLine(r, line) \in State
    <3> HIDE DEF line, r
    <3>1. [kept |-> EndStanza(r), open |-> <<>>] \in State
      BY <2>4
    <3>2. [r EXCEPT !.open = opened] \in State
      <4>1. r \in State
        BY <2>1 DEF r
      <4> HIDE DEF opened
      <4> QED BY <4>1, <2>3
    <3> QED BY <3>1, <3>2 DEF SplitLine
  <2> QED BY <2>1, <2>5, <2>6
<1>10. n \in G
  <2>1. \A k \in 0 .. n - 1 : k \in G => k + 1 \in G
    BY <1>9
  <2>2. n \in 0 .. n
    BY <1>0
  <2> HIDE DEF G, n
  <2> QED BY <1>0, <1>8, <2>1, <2>2, Induction
<1> QED BY <1>2, <1>7, <1>10

LEMMA SaidFacts ==
    ASSUME NEW s \in Piece
    PROVE  /\ Min(Said(s)) \in Said(s) /\ Max(Said(s)) \in Said(s)
           /\ \A i \in Said(s) : Min(Said(s)) <= i /\ i <= Max(Said(s))
           /\ Said(s) \subseteq 1 .. Len(s) /\ Len(s) \in Nat /\ s \in Seq(Line)
<1>1. s \in Seq(Line) /\ Said(s) # {}
  BY DEF Piece
<1>2. Said(s) \subseteq 1 .. Len(s) /\ Len(s) \in Nat
  BY <1>1 DEF Said
<1>3. Said(s) \in SUBSET Nat /\ Said(s) \in SUBSET (0 .. Len(s))
  BY <1>2
<1>4. Min(Said(s)) \in Said(s) /\ \A i \in Said(s) : Min(Said(s)) <= i
  BY <1>1, <1>3, LeastExists
<1>5. Max(Said(s)) \in Said(s) /\ \A i \in Said(s) : i <= Max(Said(s))
  BY <1>1, <1>2, <1>3, GreatestExists
<1> QED BY <1>1, <1>2, <1>4, <1>5

LEMMA TrimmedFacts ==
    ASSUME NEW s \in Piece
    PROVE  LET a == Min(Said(s))
               z == Max(Said(s))
           IN /\ Trimmed(s) \in Seq(Line) /\ Len(Trimmed(s)) = z - a + 1
              /\ Trimmed(s)[1] = Unfolded(s[a])
              /\ \A i \in 2 .. z - a + 1 : Trimmed(s)[i] = s[a + i - 1]
<1> DEFINE a == Min(Said(s))
           z == Max(Said(s))
           t == SubSeq(s, a, z)
<1>1. a \in 1 .. Len(s) /\ z \in 1 .. Len(s) /\ a <= z /\ s \in Seq(Line) /\ Len(s) \in Nat
  BY SaidFacts
<1> HIDE DEF a, z
<1>2. /\ t \in Seq(Line) /\ Len(t) = z - a + 1
      /\ \A i \in 1 .. z - a + 1 : t[i] = s[a + i - 1]
  BY <1>1, SubSeqProperties
<1>3. Trimmed(s) = [t EXCEPT ![1] = [t[1] EXCEPT !.indent = FALSE]]
  BY DEF Trimmed, a, z
<1>4. z - a + 1 \in Nat /\ 1 \in 1 .. z - a + 1
  BY <1>1
<1> HIDE DEF t
<1>5. t[1] = s[a] /\ DOMAIN t = 1 .. z - a + 1 /\ s[a] \in Line
  <2>1. a + 1 - 1 = a
    BY <1>1
  <2>2. t[1] = s[a + 1 - 1]
    BY <1>2, <1>4
  <2> QED BY <1>1, <1>2, <2>1, <2>2, ElementOfSeq, LenProperties
<1> DEFINE u == Unfolded(s[a])
<1>6. u \in Line /\ Trimmed(s) = [t EXCEPT ![1] = u]
  BY <1>3, <1>5, LineFacts DEF Unfolded
<1> HIDE DEF u
<1>7. /\ [t EXCEPT ![1] = u] \in Seq(Line) /\ Len([t EXCEPT ![1] = u]) = Len(t)
      /\ [t EXCEPT ![1] = u][1] = u
      /\ \A i \in 2 .. z - a + 1 : [t EXCEPT ![1] = u][i] = t[i]
  BY <1>2, <1>4, <1>5, <1>6, ExceptSeq
<1>8. \A i \in 2 .. z - a + 1 : t[i] = s[a + i - 1]
  <2>1. \A i \in 2 .. z - a + 1 : i \in 1 .. z - a + 1
    BY <1>1
  <2> QED BY <1>2, <2>1
<1> QED BY <1>2, <1>6, <1>7, <1>8 DEF u, a, z

-----------------------------------------------------------------------------
(* The fields of a stanza, line by line. *)

KeysOf(para) == {para[i].key : i \in DOMAIN para}
KeysIn(s, k) == {KeyAt(s, i) : i \in Starting(s, k)}
At(s, key, k) == {i \in Starting(s, k) : KeyAt(s, i) = key}

LEMMA LastOfFacts ==
    ASSUME NEW s, NEW k \in Nat, NEW key, At(s, key, k) # {}
    PROVE  /\ LastOf(s, key, k) \in At(s, key, k)
           /\ \A i \in At(s, key, k) : i <= LastOf(s, key, k)
<1>1. At(s, key, k) \in SUBSET (0 .. k)
  BY DEF At, Starting
<1>2. LastOf(s, key, k) = Max(At(s, key, k))
  BY DEF LastOf, At
<1> QED BY <1>1, <1>2, GreatestExists

LEMMA LastOfIs ==
    ASSUME NEW s, NEW k \in Nat, NEW key, NEW m \in At(s, key, k), \A i \in At(s, key, k) : i <= m
    PROVE  LastOf(s, key, k) = m
<1>1. LastOf(s, key, k) \in At(s, key, k) /\ m <= LastOf(s, key, k)
  BY LastOfFacts
<1>2. LastOf(s, key, k) <= m
  BY <1>1
<1>3. LastOf(s, key, k) \in Nat /\ m \in Nat
  BY <1>1 DEF At, Starting
<1> QED BY <1>1, <1>2, <1>3

LEMMA LastStart ==
    ASSUME NEW s, NEW k \in Nat, Starting(s, k) # {}
    PROVE  /\ Max(Starting(s, k)) \in Starting(s, k)
           /\ \A i \in Starting(s, k) : i <= Max(Starting(s, k))
<1>1. Starting(s, k) \in SUBSET (0 .. k)
  BY DEF Starting
<1> QED BY <1>1, GreatestExists

LEMMA StartingNext ==
    ASSUME NEW s, NEW k \in Nat
    PROVE  Starting(s, k + 1) = Starting(s, k) \cup (IF Starts(s, k + 1) THEN {k + 1} ELSE {})
BY DEF Starting

LEMMA MoreFinite ==
    ASSUME NEW s, NEW i \in Nat, NEW k \in Nat
    PROVE  /\ More(s, i, k) \subseteq i + 1 .. k /\ IsFiniteSet(More(s, i, k))
           /\ Cardinality(More(s, i, k)) \in Nat
<1>1. More(s, i, k) \subseteq i + 1 .. k
  BY DEF More
<1>2. IsFiniteSet(i + 1 .. k)
  BY FS_Interval
<1> QED BY <1>1, <1>2, FS_Subset, FS_CardinalityType

\* The indented line goes to the field that starts last, and to no other.
LEMMA MoreNext ==
    ASSUME NEW s, NEW k \in Nat, NEW i \in 1 .. k
    PROVE  More(s, i, k + 1) = More(s, i, k) \cup
              (IF s[k + 1].indent /\ Starting(s, k) \subseteq 1 .. i THEN {k + 1} ELSE {})
<1>1. i + 1 .. k + 1 = (i + 1 .. k) \cup {k + 1}
  OBVIOUS
<1>2. s[k + 1].indent => Starting(s, k + 1) = Starting(s, k)
  <2> SUFFICES ASSUME s[k + 1].indent PROVE Starting(s, k + 1) = Starting(s, k)
    OBVIOUS
  <2>1. ~Starts(s, k + 1)
    BY DEF Starts
  <2> QED BY <2>1, StartingNext
<1> QED BY <1>1, <1>2 DEF More

LEMMA SpellsMore ==
    ASSUME NEW s \in Seq(Line), NEW k \in 0 .. Len(s) - 1, NEW i \in 1 .. k, NEW value \in Seq(Line),
           SpeltFrom(value, s, i, k), s[k + 1].indent, Starting(s, k) \subseteq 1 .. i
    PROVE  SpeltFrom(Append(value, Unfolded(s[k + 1])), s, i, k + 1)
<1> DEFINE more == More(s, i, k)
           m1   == More(s, i, k + 1)
           v1   == Append(value, Unfolded(s[k + 1]))
<1>1. k \in Nat /\ k + 1 \in Nat /\ i \in Nat
  OBVIOUS
<1>2. m1 = more \cup {k + 1}
  BY <1>1, MoreNext
<1>3. more \subseteq i + 1 .. k /\ IsFiniteSet(more) /\ Cardinality(more) \in Nat
  BY <1>1, MoreFinite
<1>4. k + 1 \notin more
  BY <1>1, <1>3
<1>5. /\ Len(value) = 1 + Cardinality(more)
      /\ value[1] = Unkeyed(s[i].value)
      /\ \A j \in more : value[1 + Cardinality(more \cap 1 .. j)] = Unfolded(s[j])
  BY DEF SpeltFrom, Unfolded
<1> HIDE DEF more, m1
<1>6. Cardinality(m1) = Cardinality(more) + 1
  BY <1>2, <1>3, <1>4, FS_AddElement
<1>7. s[k + 1] \in Line
  <2>1. k + 1 \in 1 .. Len(s)
    BY <1>1
  <2> QED BY <2>1, ElementOfSeq
<1>8. Unfolded(s[k + 1]) \in Line
  BY <1>7, LineFacts
<1>9. /\ Len(v1) = Len(value) + 1 /\ v1[Len(value) + 1] = Unfolded(s[k + 1])
      /\ \A p \in 1 .. Len(value) : v1[p] = value[p]
  BY <1>8, AppendProperties
<1> HIDE DEF v1
<1>10. Len(v1) = 1 + Cardinality(m1)
  BY <1>3, <1>5, <1>6, <1>9
<1>11. v1[1] = Unkeyed(s[i].value)
  <2>1. 1 \in 1 .. Len(value)
    BY <1>3, <1>5
  <2> QED BY <1>5, <1>9, <2>1
<1>12. ASSUME NEW j \in more PROVE v1[1 + Cardinality(m1 \cap 1 .. j)] = Unfolded(s[j])
  <2> DEFINE c == more \cap 1 .. j
  <2>1. j \in i + 1 .. k
    BY <1>3
  <2>2. m1 \cap 1 .. j = c
    BY <1>1, <1>2, <2>1
  <2>3. Cardinality(c) \in Nat /\ Cardinality(c) <= Cardinality(more)
    <3>1. c \subseteq more
      OBVIOUS
    <3> QED BY <1>3, <3>1, FS_Subset, FS_CardinalityType
  <2>4. 1 + Cardinality(c) \in 1 .. Len(value)
    BY <1>3, <1>5, <2>3
  <2>5. value[1 + Cardinality(c)] = Unfolded(s[j])
    BY <1>5
  <2> HIDE DEF c
  <2> QED BY <1>9, <2>2, <2>4, <2>5
<1>13. v1[1 + Cardinality(m1 \cap 1 .. k + 1)] = Unfolded(s[k + 1])
  <2>1. m1 \cap 1 .. k + 1 = m1
    <3>1. m1 \subseteq 1 .. k + 1
      BY <1>1, <1>2, <1>3
    <3> QED BY <3>1
  <2>2. 1 + Cardinality(m1) = Len(value) + 1
    BY <1>3, <1>5, <1>6
  <2> QED BY <1>9, <2>1, <2>2
<1>14. \A j \in m1 : v1[1 + Cardinality(m1 \cap 1 .. j)] = Unfolded(s[j])
  BY <1>2, <1>12, <1>13
<1> QED BY <1>10, <1>11, <1>14 DEF SpeltFrom, Unfolded, m1, v1

LEMMA SpellsSame ==
    ASSUME NEW s, NEW k \in Nat, NEW i \in 1 .. k, NEW value, SpeltFrom(value, s, i, k),
           ~s[k + 1].indent \/ ~(Starting(s, k) \subseteq 1 .. i)
    PROVE  SpeltFrom(value, s, i, k + 1)
<1> DEFINE more == More(s, i, k)
           m1   == More(s, i, k + 1)
           c    == s[k + 1].indent /\ Starting(s, k) \subseteq 1 .. i
<1>1. m1 = more
  <2>1. m1 = more \cup (IF c THEN {k + 1} ELSE {})
    BY MoreNext
  <2>2. ~c
    OBVIOUS
  <2> HIDE DEF c, m1, more
  <2> QED BY <2>1, <2>2
<1> QED BY <1>1 DEF SpeltFrom

LEMMA SpellsFirst ==
    ASSUME NEW s, NEW k \in Nat
    PROVE  SpeltFrom(<<Unkeyed(s[k].value)>>, s, k, k)
<1>1. More(s, k, k) = {}
  BY DEF More
<1> QED BY <1>1, FS_EmptySet DEF SpeltFrom

\* What is known after k lines of a stanza.
ReadUpTo(r, s, k) ==
    /\ r \in ReadState /\ ~r.failed
    /\ KeysOf(r.para) = KeysIn(s, k)
    /\ r.current = IF Starting(s, k) = {} THEN {} ELSE {KeyAt(s, Max(Starting(s, k)))}
    /\ \A i \in DOMAIN r.para : SpeltFrom(r.para[i].value, s, LastOf(s, r.para[i].key, k), k)

LEMMA NothingRead == ASSUME NEW s PROVE ReadUpTo(Unread, s, 0)
<1>1. Starting(s, 0) = {}
  BY DEF Starting
<1>2. <<>> \in Seq(Field)
  BY EmptySeq
<1>3. Unread \in ReadState /\ ~Unread.failed /\ Unread.para = <<>> /\ Unread.current = {}
  BY <1>2 DEF Unread, ReadState
<1>4. KeysOf(<<>>) = {} /\ KeysIn(s, 0) = {}
  BY <1>1 DEF KeysOf, KeysIn
<1>5. \A i \in DOMAIN Unread.para : FALSE
  BY <1>3
<1> HIDE DEF Unread
<1> QED BY <1>1, <1>3, <1>4, <1>5 DEF ReadUpTo

LEMMA KeyFacts ==
    ASSUME NEW s \in Seq(Line), NEW k \in 0 .. Len(s), NEW i \in Starting(s, k)
    PROVE  KeyAt(s, i) \in FieldKey /\ KeyAt(s, i) = ReadKey(s[i], TRUE) /\ i \in 1 .. k
           /\ KeyAt(s, i).padded = FALSE /\ s[i] \in Line /\ Starts(s, i)
<1>1. i \in 1 .. Len(s) /\ i \in 1 .. k /\ Starts(s, i)
  BY DEF Starting
<1>2. s[i] \in Line
  BY <1>1, ElementOfSeq
<1>3. s[i].keys # {}
  BY <1>1 DEF Starts
<1>4. KeyAt(s, i) = ReadKey(s[i], TRUE)
  BY DEF KeyAt, ReadKey
<1> QED BY <1>1, <1>2, <1>3, <1>4, ReadKeyType

\* The field an entry of a paragraph is spelt from.
LEMMA EntryFacts ==
    ASSUME NEW s, NEW k \in Nat, NEW r, ReadUpTo(r, s, k), NEW i \in DOMAIN r.para
    PROVE  /\ r.para[i] \in Field /\ r.para[i].key \in FieldKey /\ r.para[i].value \in Seq(Line)
           /\ LastOf(s, r.para[i].key, k) \in At(s, r.para[i].key, k)
           /\ LastOf(s, r.para[i].key, k) \in 1 .. k
           /\ SpeltFrom(r.para[i].value, s, LastOf(s, r.para[i].key, k), k)
           /\ r.para[i].key \in r.current <=> LastOf(s, r.para[i].key, k) = Max(Starting(s, k))
<1> DEFINE key == r.para[i].key
           m == LastOf(s, key, k)
<1>1. r.para \in Seq(Field)
  BY DEF ReadUpTo, ReadState
<1>2. r.para[i] \in Field
  BY <1>1, ElementOfSeq
<1>3. key \in FieldKey /\ r.para[i].value \in Seq(Line)
  BY <1>2 DEF Field
<1>4. key \in KeysIn(s, k)
  BY DEF ReadUpTo, KeysOf
<1>5. SpeltFrom(r.para[i].value, s, m, k)
  BY DEF ReadUpTo
<1> HIDE DEF key
<1>6. At(s, key, k) # {}
  BY <1>4 DEF KeysIn, At
<1>7. m \in At(s, key, k) /\ \A j \in At(s, key, k) : j <= m
  BY <1>6, LastOfFacts
<1>8. m \in Starting(s, k) /\ KeyAt(s, m) = key /\ m \in 1 .. k
  BY <1>7 DEF At, Starting
<1>9. Starting(s, k) # {}
  BY <1>8
<1> DEFINE last == Max(Starting(s, k))
<1>10. last \in Starting(s, k) /\ m <= last /\ last \in 1 .. k
  BY <1>8, <1>9, LastStart DEF Starting
<1>11. r.current = {KeyAt(s, last)}
  BY <1>9 DEF ReadUpTo
<1> HIDE DEF last, m
<1>12. ASSUME key \in r.current PROVE m = last
  <2>1. last \in At(s, key, k)
    BY <1>10, <1>11, <1>12 DEF At
  <2>2. last <= m
    BY <1>7, <2>1
  <2> QED BY <1>8, <1>10, <2>2
<1>13. ASSUME m = last PROVE key \in r.current
  BY <1>8, <1>11, <1>13
<1> QED BY <1>2, <1>3, <1>5, <1>7, <1>8, <1>12, <1>13 DEF key, m, last

\* A line that starts no field leaves the fields where they start.
LEMMA NoStart ==
    ASSUME NEW s, NEW k \in Nat, ~Starts(s, k + 1)
    PROVE  /\ Starting(s, k + 1) = Starting(s, k) /\ KeysIn(s, k + 1) = KeysIn(s, k)
           /\ \A key : LastOf(s, key, k + 1) = LastOf(s, key, k)
<1>1. Starting(s, k + 1) = Starting(s, k)
  BY StartingNext
<1> QED BY <1>1 DEF KeysIn, LastOf

LEMMA ReadIgnored ==
    ASSUME NEW s \in Seq(Line), NEW k \in 0 .. Len(s) - 1, NEW r, ReadUpTo(r, s, k),
           ~s[k + 1].indent, s[k + 1].keys = {}
    PROVE  ReadUpTo(r, s, k + 1)
<1>0. k \in Nat
  OBVIOUS
<1>1. ~Starts(s, k + 1)
  BY DEF Starts
<1>2. /\ Starting(s, k + 1) = Starting(s, k) /\ KeysIn(s, k + 1) = KeysIn(s, k)
      /\ \A key : LastOf(s, key, k + 1) = LastOf(s, key, k)
  BY <1>0, <1>1, NoStart
<1>3. ASSUME NEW i \in DOMAIN r.para
      PROVE  SpeltFrom(r.para[i].value, s, LastOf(s, r.para[i].key, k + 1), k + 1)
  <2> DEFINE m == LastOf(s, r.para[i].key, k)
  <2>1. SpeltFrom(r.para[i].value, s, m, k) /\ m \in 1 .. k
    BY <1>0, EntryFacts
  <2>2. LastOf(s, r.para[i].key, k + 1) = m
    BY <1>2
  <2> HIDE DEF m
  <2> QED BY <1>0, <2>1, <2>2, SpellsSame
<1> QED BY <1>2, <1>3 DEF ReadUpTo

LEMMA ReadContinuation ==
    ASSUME NEW s \in Seq(Line), NEW k \in 0 .. Len(s) - 1, NEW r, ReadUpTo(r, s, k), s[k + 1].indent,
           NEW strict, NEW trims
    PROVE  ReadUpTo(ReadLine(r, s[k + 1], strict, trims), s, k + 1)
<1> DEFINE line == s[k + 1]
           q == ReadLine(r, line, strict, trims)
           new(i) == [key |-> r.para[i].key, value |-> Append(r.para[i].value, Unfolded(line))]
<1>0. k \in Nat /\ k + 1 \in 1 .. Len(s)
  OBVIOUS
<1>1. line \in Line /\ Unfolded(line) \in Line
  BY <1>0, ElementOfSeq, LineFacts
<1>2. r \in ReadState /\ ~r.failed
  BY DEF ReadUpTo
<1>3. /\ q = [r EXCEPT !.para = q.para] /\ q.para \in Seq(Field) /\ DOMAIN q.para = DOMAIN r.para
      /\ \A i \in DOMAIN r.para : q.para[i] = IF r.para[i].key \in r.current THEN new(i) ELSE r.para[i]
  <2>1. line.indent
    OBVIOUS
  <2> HIDE DEF line
  <2> QED BY <1>1, <1>2, <2>1, Continued
<1>4. ~Starts(s, k + 1)
  BY DEF Starts
<1>5. /\ Starting(s, k + 1) = Starting(s, k) /\ KeysIn(s, k + 1) = KeysIn(s, k)
      /\ \A key : LastOf(s, key, k + 1) = LastOf(s, key, k)
  BY <1>0, <1>4, NoStart
<1> HIDE DEF q
<1>6. ASSUME NEW i \in DOMAIN r.para
      PROVE  /\ q.para[i] \in Field /\ q.para[i].key = r.para[i].key
             /\ SpeltFrom(q.para[i].value, s, LastOf(s, q.para[i].key, k + 1), k + 1)
  <2> DEFINE key == r.para[i].key
             value == r.para[i].value
             m == LastOf(s, key, k)
  <2>1. /\ r.para[i] \in Field /\ key \in FieldKey /\ value \in Seq(Line) /\ m \in 1 .. k
        /\ m \in At(s, key, k) /\ SpeltFrom(value, s, m, k)
        /\ key \in r.current <=> m = Max(Starting(s, k))
    BY <1>0, EntryFacts
  <2>2. q.para[i] = IF key \in r.current THEN new(i) ELSE r.para[i]
    BY <1>3
  <2>3. LastOf(s, key, k + 1) = m
    BY <1>5
  <2>4. m \in Starting(s, k)
    BY <2>1 DEF At
  <2>5. /\ Max(Starting(s, k)) \in Starting(s, k)
        /\ \A j \in Starting(s, k) : j <= Max(Starting(s, k))
    BY <1>0, <2>4, LastStart
  <2> HIDE DEF m, key, value
  <2>6. CASE key \in r.current
    <3>1. Starting(s, k) \subseteq 1 .. m
      BY <1>0, <2>1, <2>5, <2>6 DEF Starting
    <3>2. SpeltFrom(Append(value, Unfolded(line)), s, m, k + 1)
      BY <2>1, <3>1, SpellsMore
    <3>3. q.para[i] = [key |-> key, value |-> Append(value, Unfolded(line))]
      BY <2>2, <2>6 DEF key, value
    <3>4. Append(value, Unfolded(line)) \in Seq(Line)
      BY <1>1, <2>1, AppendProperties
    <3>5. q.para[i] \in Field /\ q.para[i].key = key /\ q.para[i].value = Append(value, Unfolded(line))
      <4> HIDE DEF line
      <4> QED BY <2>1, <3>3, <3>4 DEF Field
    <3> QED BY <2>3, <3>2, <3>5 DEF key
  <2>7. CASE key \notin r.current
    <3>1. ~(Starting(s, k) \subseteq 1 .. m)
      <4> DEFINE last == Max(Starting(s, k))
      <4>1. m # last
        BY <2>1, <2>7
      <4>2. last \in Starting(s, k) /\ m <= last
        BY <2>4, <2>5
      <4>3. last \in 1 .. k
        BY <4>2 DEF Starting
      <4> HIDE DEF last
      <4> QED BY <1>0, <2>1, <4>1, <4>2, <4>3
    <3>2. SpeltFrom(value, s, m, k + 1)
      BY <1>0, <2>1, <3>1, SpellsSame
    <3>3. q.para[i] = r.para[i]
      BY <2>2, <2>7
    <3> QED BY <2>1, <2>3, <3>2, <3>3 DEF key, value
  <2> QED BY <2>6, <2>7
<1> DEFINE P == q.para
<1>7. DOMAIN P = DOMAIN r.para /\ P \in Seq(Field)
  BY <1>3
<1>10. q \in ReadState /\ ~q.failed /\ q.current = r.current
  <2>1. [r EXCEPT !.para = P] \in ReadState /\ [r EXCEPT !.para = P].failed = r.failed
        /\ [r EXCEPT !.para = P].current = r.current
    <3> HIDE DEF P
    <3> QED BY <1>2, <1>7 DEF ReadState
  <2> QED BY <1>2, <1>3, <2>1
<1>11. KeysOf(P) = KeysOf(r.para)
  BY <1>6, <1>7 DEF KeysOf
<1>12. KeysOf(r.para) = KeysIn(s, k)
       /\ r.current = IF Starting(s, k) = {} THEN {} ELSE {KeyAt(s, Max(Starting(s, k)))}
  BY DEF ReadUpTo
<1> QED BY <1>5, <1>6, <1>7, <1>10, <1>11, <1>12 DEF ReadUpTo, q

LEMMA SetFacts ==
    ASSUME NEW para \in Seq(Field), NEW key \in FieldKey, NEW value \in Seq(Line)
    PROVE  LET p == Set(para, key, value)
           IN /\ p \in Seq(Field) /\ KeysOf(p) = KeysOf(para) \cup {key}
              /\ \A i \in DOMAIN p : \/ p[i].key = key /\ p[i].value = value
                                     \/ p[i].key # key /\ i \in DOMAIN para /\ p[i] = para[i]
<1> DEFINE p == Set(para, key, value)
           f == [key |-> key, value |-> value]
           n == Len(para)
<1>0. n \in Nat /\ DOMAIN para = 1 .. n /\ \A i \in 1 .. n : para[i] \in Field
  BY LenProperties, ElementOfSeq
<1>1. f \in Field /\ f.key = key /\ f.value = value
  BY DEF Field
<1> HIDE DEF f
<1>2. CASE Has(para, key)
  <2> DEFINE q == [i \in DOMAIN para |-> IF para[i].key = key THEN f ELSE para[i]]
  <2>1. p = q
    BY <1>2 DEF Set, f
  <2>2. DOMAIN q = 1 .. n /\ \A i \in 1 .. n : q[i] = IF para[i].key = key THEN f ELSE para[i]
    BY <1>0
  <2>3. q \in Seq(Field)
    BY <1>0, <1>1
  <2> HIDE DEF q
  <2>4. \A i \in 1 .. n : q[i].key = para[i].key
    BY <1>1, <2>2
  <2>5. key \in KeysOf(para)
    BY <1>2 DEF Has, KeysOf
  <2>6. KeysOf(q) = KeysOf(para) \cup {key}
    BY <1>0, <2>2, <2>4, <2>5 DEF KeysOf
  <2> HIDE DEF p
  <2>7. \A i \in DOMAIN q : \/ q[i].key = key /\ q[i].value = value
                            \/ q[i].key # key /\ i \in DOMAIN para /\ q[i] = para[i]
    BY <1>0, <1>1, <2>2
  <2> QED BY <2>1, <2>3, <2>6, <2>7 DEF p
<1>3. CASE ~Has(para, key)
  <2> DEFINE q == Append(para, f)
  <2>1. p = q
    BY <1>3 DEF Set, f
  <2>2. /\ q \in Seq(Field) /\ DOMAIN q = 1 .. n + 1 /\ q[n + 1] = f
        /\ \A i \in 1 .. n : q[i] = para[i]
    BY <1>0, <1>1, AppendProperties, LenProperties
  <2> HIDE DEF q
  <2>3. \A i \in 1 .. n : para[i].key # key
    BY <1>0, <1>3 DEF Has
  <2>4. 1 .. n + 1 = (1 .. n) \cup {n + 1}
    BY <1>0
  <2> HIDE DEF n
  <2>5. KeysOf(q) = KeysOf(para) \cup {key}
    BY <1>0, <1>1, <2>2, <2>4 DEF KeysOf
  <2>6. \A i \in DOMAIN q : \/ q[i].key = key /\ q[i].value = value
                            \/ q[i].key # key /\ i \in DOMAIN para /\ q[i] = para[i]
    BY <1>0, <1>1, <2>2, <2>3, <2>4
  <2> HIDE DEF p
  <2> QED BY <2>1, <2>2, <2>5, <2>6 DEF p
<1> QED BY <1>2, <1>3

\* A line that starts a field is the last to start one.
LEMMA StartNext ==
    ASSUME NEW s \in Seq(Line), NEW k \in 0 .. Len(s) - 1, Starts(s, k + 1)
    PROVE  /\ Starting(s, k + 1) = Starting(s, k) \cup {k + 1} /\ Max(Starting(s, k + 1)) = k + 1
           /\ KeysIn(s, k + 1) = KeysIn(s, k) \cup {KeyAt(s, k + 1)}
           /\ LastOf(s, KeyAt(s, k + 1), k + 1) = k + 1
           /\ \A key : key # KeyAt(s, k + 1) => LastOf(s, key, k + 1) = LastOf(s, key, k)
<1>0. k \in Nat /\ k + 1 \in Nat
  OBVIOUS
<1>1. Starting(s, k + 1) = Starting(s, k) \cup {k + 1}
  BY <1>0, StartingNext
<1>2. Max(Starting(s, k + 1)) = k + 1
  <2> DEFINE last == Max(Starting(s, k + 1))
  <2>1. last \in Starting(s, k + 1) /\ k + 1 <= last
    BY <1>0, <1>1, LastStart
  <2>2. last \in 1 .. k + 1
    BY <2>1 DEF Starting
  <2> HIDE DEF last
  <2>3. last = k + 1
    BY <1>0, <2>1, <2>2
  <2> QED BY <2>3 DEF last
<1>3. KeysIn(s, k + 1) = KeysIn(s, k) \cup {KeyAt(s, k + 1)}
  BY <1>1 DEF KeysIn
<1>4. LastOf(s, KeyAt(s, k + 1), k + 1) = k + 1
  <2> DEFINE A == At(s, KeyAt(s, k + 1), k + 1)
  <2>1. k + 1 \in A
    BY <1>1 DEF At
  <2>2. \A i \in A : i <= k + 1
    BY <1>0 DEF At, Starting
  <2> QED BY <1>0, <2>1, <2>2, LastOfIs
<1>5. ASSUME NEW key, key # KeyAt(s, k + 1) PROVE LastOf(s, key, k + 1) = LastOf(s, key, k)
  <2>1. {i \in Starting(s, k + 1) : KeyAt(s, i) = key} = {i \in Starting(s, k) : KeyAt(s, i) = key}
    BY <1>1, <1>5
  <2> QED BY <2>1 DEF LastOf
<1> QED BY <1>1, <1>2, <1>3, <1>4, <1>5

LEMMA ReadStart ==
    ASSUME NEW s \in Seq(Line), NEW k \in 0 .. Len(s) - 1, NEW r, ReadUpTo(r, s, k), Starts(s, k + 1),
           NEW strict, NEW trims, trims = TRUE, ~(strict = TRUE /\ KeyAt(s, k + 1) \in KeysIn(s, k))
    PROVE  ReadUpTo(ReadLine(r, s[k + 1], strict, trims), s, k + 1)
<1> DEFINE line == s[k + 1]
           q == ReadLine(r, line, strict, trims)
           key == KeyAt(s, k + 1)
           value == <<Unkeyed(line.value)>>
           p == Set(r.para, key, value)
<1>0. k \in Nat /\ k + 1 \in Nat /\ k + 1 \in 1 .. Len(s)
  OBVIOUS
<1>1. line \in Line /\ ~line.indent /\ line.keys # {}
  BY <1>0, ElementOfSeq DEF Starts
<1>2. r \in ReadState /\ ~r.failed /\ KeysOf(r.para) = KeysIn(s, k)
  BY DEF ReadUpTo
<1>3. ReadKey(line, trims) = key
  BY DEF ReadKey, KeyAt
<1>4. key \in FieldKey
  <2>1. k + 1 \in Starting(s, k + 1)
    BY <1>0 DEF Starting
  <2>2. k + 1 \in 0 .. Len(s)
    OBVIOUS
  <2> QED BY <2>1, <2>2, KeyFacts
<1>5. ~(strict = TRUE /\ Has(r.para, key))
  <2>1. Has(r.para, key) <=> key \in KeysOf(r.para)
    BY DEF Has, KeysOf
  <2> QED BY <1>2, <2>1
<1>6. value \in Seq(Line)
  <2>1. Unkeyed(line.value) \in Line
    BY <1>1, LineFacts, UnkeyedLine
  <2> QED BY <2>1
<1>7. SpeltFrom(value, s, k + 1, k + 1)
  BY <1>0, SpellsFirst
<1>8. /\ Starting(s, k + 1) = Starting(s, k) \cup {k + 1} /\ Max(Starting(s, k + 1)) = k + 1
      /\ KeysIn(s, k + 1) = KeysIn(s, k) \cup {key}
      /\ LastOf(s, key, k + 1) = k + 1
      /\ \A l : l # key => LastOf(s, l, k + 1) = LastOf(s, l, k)
  BY StartNext
<1>9. q = [para |-> p, current |-> {key}, failed |-> FALSE]
  <2>1. q = NewField(r, ReadKey(line, trims), line.value, strict)
    <3> HIDE DEF line
    <3> QED BY <1>1, <1>2 DEF ReadLine, ReadKey
  <2> HIDE DEF q, key, line
  <2> QED BY <1>3, <1>5, <2>1 DEF NewField
<1>10. r.para \in Seq(Field)
  BY <1>2 DEF ReadState
<1> HIDE DEF key, value, q, line
<1>11. /\ p \in Seq(Field) /\ KeysOf(p) = KeysOf(r.para) \cup {key}
       /\ \A i \in DOMAIN p : \/ p[i].key = key /\ p[i].value = value
                              \/ p[i].key # key /\ i \in DOMAIN r.para /\ p[i] = r.para[i]
  BY <1>4, <1>6, <1>10, SetFacts
<1> HIDE DEF p
<1>12. q \in ReadState /\ ~q.failed /\ q.para = p /\ q.current = {key}
  BY <1>4, <1>9, <1>11 DEF ReadState
<1>13. ASSUME NEW i \in DOMAIN p PROVE SpeltFrom(p[i].value, s, LastOf(s, p[i].key, k + 1), k + 1)
  <2>1. CASE p[i].key = key /\ p[i].value = value
    BY <1>7, <1>8, <2>1
  <2>2. CASE p[i].key # key /\ i \in DOMAIN r.para /\ p[i] = r.para[i]
    <3> DEFINE m == LastOf(s, p[i].key, k)
    <3>1. m \in 1 .. k /\ SpeltFrom(p[i].value, s, m, k)
      BY <1>0, <2>2, EntryFacts
    <3>2. LastOf(s, p[i].key, k + 1) = m
      BY <1>8, <2>2
    <3> HIDE DEF m
    <3>3. ~s[k + 1].indent
      BY <1>1 DEF line
    <3> QED BY <1>0, <3>1, <3>2, <3>3, SpellsSame
  <2> QED BY <1>11, <2>1, <2>2
<1>14. q.current = {KeyAt(s, Max(Starting(s, k + 1)))} /\ Starting(s, k + 1) # {}
  BY <1>8, <1>12 DEF key
<1> QED BY <1>2, <1>8, <1>11, <1>12, <1>13, <1>14 DEF ReadUpTo, q, line

\* A stanza that is not read strictly has the fields its lines spell.
LEMMA AllRead ==
    ASSUME NEW s \in Seq(Line), NEW strict, NEW trims, strict = FALSE, trims = TRUE
    PROVE  \A k \in 0 .. Len(s) : ReadUpTo(Readings(s, strict, trims)[k], s, k)
<1> DEFINE n == Len(s)
           f == Readings(s, strict, trims)
           G == {k \in 0 .. n : ReadUpTo(f[k], s, k)}
<1>1. n \in Nat /\ f[0] = Unread
      /\ \A k \in 0 .. n - 1 : f[k + 1] = ReadLine(f[k], s[k + 1], strict, trims)
  <2>1. n \in Nat
    OBVIOUS
  <2>2. f[0] = Unread /\ \A k \in 0 .. Len(s) - 1 : f[k + 1] = ReadLine(f[k], s[k + 1], strict, trims)
    BY ReadSteps
  <2> QED BY <2>1, <2>2
<1> HIDE DEF f
<1>2. 0 \in G
  BY <1>1, NothingRead
<1>3. ASSUME NEW k \in 0 .. n - 1, k \in G PROVE k + 1 \in G
  <2>1. ReadUpTo(f[k], s, k) /\ k + 1 \in 0 .. n
    BY <1>1, <1>3
  <2>2. f[k + 1] = ReadLine(f[k], s[k + 1], strict, trims)
    BY <1>1
  <2>3. CASE s[k + 1].indent
    BY <2>1, <2>2, <2>3, ReadContinuation
  <2>4. CASE ~s[k + 1].indent /\ s[k + 1].keys = {}
    <3>1. f[k + 1] = f[k]
      BY <2>2, <2>4 DEF ReadLine
    <3> QED BY <2>1, <2>4, <3>1, ReadIgnored
  <2>5. CASE Starts(s, k + 1)
    BY <2>1, <2>2, <2>5, ReadStart
  <2> QED BY <2>3, <2>4, <2>5 DEF Starts
<1>4. 0 .. n \subseteq G
  <2>1. \A k \in 0 .. n - 1 : k \in G => k + 1 \in G
    BY <1>3
  <2> HIDE DEF G, n
  <2> QED BY <1>1, <1>2, <2>1, Induction
<1> QED BY <1>4 DEF f

\* Reading strictly is reading until a key is repeated.
LEMMA RepeatsNext ==
    ASSUME NEW s \in Seq(Line), NEW k \in 0 .. Len(s) - 1
    PROVE  /\ Repeats(s, k) => Repeats(s, k + 1)
           /\ ~Starts(s, k + 1) => (Repeats(s, k + 1) <=> Repeats(s, k))
           /\ Starts(s, k + 1) /\ ~Repeats(s, k) =>
                 (Repeats(s, k + 1) <=> KeyAt(s, k + 1) \in KeysIn(s, k))
<1>0. k \in Nat
  OBVIOUS
<1>1. Starting(s, k) \subseteq Starting(s, k + 1)
  BY <1>0, StartingNext
<1>2. ~Starts(s, k + 1) => Starting(s, k + 1) = Starting(s, k)
  <2> SUFFICES ASSUME ~Starts(s, k + 1) PROVE Starting(s, k + 1) = Starting(s, k)
    OBVIOUS
  <2> QED BY <1>0, NoStart
<1>3. Starts(s, k + 1) => Starting(s, k + 1) = Starting(s, k) \cup {k + 1}
  BY <1>0, StartingNext
<1>4. k + 1 \notin Starting(s, k)
  BY <1>0 DEF Starting
<1> QED BY <1>1, <1>2, <1>3, <1>4 DEF Repeats, KeysIn

\* What one reading makes of k lines and another does not.
SameUnless(s, k, p, q) == IF Repeats(s, k) THEN p.failed ELSE p = q

LEMMA StrictLine ==
    ASSUME NEW s \in Seq(Line), NEW k \in 0 .. Len(s) - 1, NEW r, ReadUpTo(r, s, k), Starts(s, k + 1),
           ~Repeats(s, k), NEW strict, strict = TRUE, NEW lax, lax = FALSE, NEW trims, trims = TRUE
    PROVE  SameUnless(s, k + 1, ReadLine(r, s[k + 1], strict, trims), ReadLine(r, s[k + 1], lax, trims))
<1> DEFINE line == s[k + 1]
           key == KeyAt(s, k + 1)
           p == ReadLine(r, line, strict, trims)
           q == ReadLine(r, line, lax, trims)
<1>1. ~line.indent /\ line.keys # {}
  BY DEF Starts
<1>2. r \in ReadState /\ ~r.failed /\ KeysOf(r.para) = KeysIn(s, k)
  BY DEF ReadUpTo
<1>3. ReadKey(line, trims) = key
  BY DEF ReadKey, KeyAt
<1> HIDE DEF line, key
<1>4. p = NewField(r, ReadKey(line, trims), line.value, strict)
  BY <1>1, <1>2 DEF ReadLine, ReadKey
<1>5. q = NewField(r, ReadKey(line, trims), line.value, lax)
  BY <1>1, <1>2 DEF ReadLine, ReadKey
<1> HIDE DEF p, q
<1>6. Has(r.para, key) <=> key \in KeysIn(s, k)
  BY <1>2 DEF Has, KeysOf
<1>7. ASSUME key \in KeysIn(s, k) PROVE p.failed
  <2>1. p = [r EXCEPT !.failed = TRUE]
    BY <1>3, <1>4, <1>6, <1>7 DEF NewField
  <2> QED BY <1>2, <2>1 DEF ReadState
<1>8. ASSUME key \notin KeysIn(s, k) PROVE p = q
  BY <1>3, <1>4, <1>5, <1>6, <1>8 DEF NewField
<1>9. Repeats(s, k + 1) <=> key \in KeysIn(s, k)
  BY RepeatsNext DEF key
<1> QED BY <1>7, <1>8, <1>9 DEF SameUnless, line, p, q

LEMMA StrictlyRead ==
    ASSUME NEW s \in Seq(Line), NEW strict, strict = TRUE, NEW lax, lax = FALSE, NEW trims, trims = TRUE
    PROVE  \A k \in 0 .. Len(s) :
              SameUnless(s, k, Readings(s, strict, trims)[k], Readings(s, lax, trims)[k])
<1> DEFINE n == Len(s)
           f == Readings(s, strict, trims)
           g == Readings(s, lax, trims)
           G == {k \in 0 .. n : SameUnless(s, k, f[k], g[k])}
<1>1. n \in Nat
  OBVIOUS
<1>2. f[0] = Unread /\ \A k \in 0 .. Len(s) - 1 : f[k + 1] = ReadLine(f[k], s[k + 1], strict, trims)
  BY ReadSteps
<1>3. g[0] = Unread /\ \A k \in 0 .. Len(s) - 1 : g[k + 1] = ReadLine(g[k], s[k + 1], lax, trims)
  BY ReadSteps
<1>4. \A k \in 0 .. n : ReadUpTo(g[k], s, k)
  BY AllRead
<1> HIDE DEF f, g
<1>5. 0 \in G
  <2>1. ~Repeats(s, 0)
    BY DEF Repeats, Starting
  <2> QED BY <1>1, <1>2, <1>3, <2>1 DEF SameUnless
<1>6. ASSUME NEW k \in 0 .. n - 1, k \in G PROVE k + 1 \in G
  <2>1. SameUnless(s, k, f[k], g[k]) /\ k + 1 \in 0 .. n /\ k \in 0 .. n
    BY <1>1, <1>6
  <2>2. f[k + 1] = ReadLine(f[k], s[k + 1], strict, trims) /\ g[k + 1] = ReadLine(g[k], s[k + 1], lax, trims)
    BY <1>2, <1>3
  <2>3. CASE Repeats(s, k)
    <3>1. f[k].failed /\ Repeats(s, k + 1)
      BY <2>1, <2>3, RepeatsNext DEF SameUnless
    <3>2. f[k + 1] = f[k]
      BY <2>2, <3>1 DEF ReadLine
    <3> QED BY <2>1, <3>1, <3>2 DEF SameUnless
  <2>4. CASE ~Repeats(s, k)
    <3>1. f[k] = g[k] /\ ReadUpTo(g[k], s, k)
      BY <1>4, <2>1, <2>4 DEF SameUnless
    <3>2. CASE ~Starts(s, k + 1)
      <4>1. ~Repeats(s, k + 1)
        BY <2>4, <3>2, RepeatsNext
      <4>2. s[k + 1].indent \/ s[k + 1].keys = {}
        BY <3>2 DEF Starts
      <4>3. ~g[k].failed
        BY <3>1 DEF ReadUpTo
      <4>4. ReadLine(g[k], s[k + 1], strict, trims) = ReadLine(g[k], s[k + 1], lax, trims)
        BY <4>2, <4>3 DEF ReadLine
      <4>5. f[k + 1] = g[k + 1]
        BY <2>2, <3>1, <4>4
      <4> QED BY <2>1, <4>1, <4>5 DEF SameUnless
    <3>3. CASE Starts(s, k + 1)
      <4>1. SameUnless(s, k + 1, ReadLine(g[k], s[k + 1], strict, trims), ReadLine(g[k], s[k + 1], lax, trims))
        BY <2>4, <3>1, <3>3, StrictLine
      <4> QED BY <2>1, <2>2, <3>1, <4>1
    <3> QED BY <3>2, <3>3
  <2> QED BY <2>3, <2>4
<1>7. 0 .. n \subseteq G
  <2>1. \A k \in 0 .. n - 1 : k \in G => k + 1 \in G
    BY <1>6
  <2> HIDE DEF G, n
  <2> QED BY <1>1, <1>5, <2>1, Induction
<1> QED BY <1>7 DEF f, g

LEMMA ParsedParagraphs ==
    ASSUME NEW s \in Seq(Line)
    PROVE  /\ ReadUpTo(ParseParagraph(s, FALSE), s, Len(s))
           /\ ParseParagraph(s, TRUE).failed <=> Repeats(s, Len(s))
           /\ ~ParseParagraph(s, TRUE).failed => ParseParagraph(s, TRUE) = ParseParagraph(s, FALSE)
<1> DEFINE n == Len(s)
           f == Readings(s, TRUE, TRUE)
           g == Readings(s, FALSE, TRUE)
<1>1. n \in 0 .. n
  OBVIOUS
<1>2. ParseParagraph(s, TRUE) = f[n]
  BY ReadSteps DEF ParseParagraph
<1>3. ParseParagraph(s, FALSE) = g[n]
  BY ReadSteps DEF ParseParagraph
<1>4. \A k \in 0 .. n : ReadUpTo(g[k], s, k)
  BY AllRead
<1>5. \A k \in 0 .. n : SameUnless(s, k, f[k], g[k])
  BY StrictlyRead
<1> HIDE DEF f, g, n
<1>6. ReadUpTo(g[n], s, n)
  BY <1>1, <1>4
<1>7. ~g[n].failed
  BY <1>6 DEF ReadUpTo
<1>8. IF Repeats(s, n) THEN f[n].failed ELSE f[n] = g[n]
  BY <1>1, <1>5 DEF SameUnless
<1> DEFINE p == ParseParagraph(s, TRUE)
           q == ParseParagraph(s, FALSE)
<1>9. p = f[n] /\ q = g[n]
  BY <1>2, <1>3
<1> HIDE DEF p, q
<1>10. ReadUpTo(q, s, n) /\ (p.failed <=> Repeats(s, n)) /\ (~p.failed => p = q)
  BY <1>6, <1>7, <1>8, <1>9
<1> QED BY <1>10 DEF p, q, n

LEMMA StanzasAreRead == ASSUME NEW s \in Seq(Line) PROVE StanzaIsItsFields(s)
BY ParsedParagraphs DEF StanzaIsItsFields, ReadUpTo, KeysOf, KeysIn

-----------------------------------------------------------------------------
(* The readers of an index. *)

\* Blanks before a colon are all that the borrowing parser reads otherwise.
LEMMA BorrowedLine ==
    ASSUME NEW r, NEW line \in Line, \A k \in line.keys : ~k.padded, NEW strict,
           NEW trims \in BOOLEAN, NEW also \in BOOLEAN
    PROVE  ReadLine(r, line, strict, trims) = ReadLine(r, line, strict, also)
<1>1. line.keys # {} => ReadKey(line, trims) = ReadKey(line, also)
  BY ReadKeyType
<1>2. ReadLine(r, line, strict, trims) =
        IF r.failed THEN r ELSE IF line.indent THEN Continue(r, line)
        ELSE IF line.keys = {} THEN r ELSE NewField(r, ReadKey(line, trims), line.value, strict)
  BY DEF ReadLine, ReadKey
<1>3. ReadLine(r, line, strict, also) =
        IF r.failed THEN r ELSE IF line.indent THEN Continue(r, line)
        ELSE IF line.keys = {} THEN r ELSE NewField(r, ReadKey(line, also), line.value, strict)
  BY DEF ReadLine, ReadKey
<1> QED BY <1>1, <1>2, <1>3

Unpadded(s) == \A j \in DOMAIN s : \A k \in s[j].keys : ~k.padded

LEMMA BorrowedRead ==
    ASSUME NEW s \in Seq(Line), Unpadded(s), NEW strict, NEW trims \in BOOLEAN, NEW also \in BOOLEAN
    PROVE  Read(s, strict, trims) = Read(s, strict, also)
<1> DEFINE n == Len(s)
           f == Readings(s, strict, trims)
           g == Readings(s, strict, also)
           G == {k \in 0 .. n : f[k] = g[k]}
<1>1. n \in Nat /\ DOMAIN s = 1 .. n
  OBVIOUS
<1>2. f[0] = Unread /\ \A k \in 0 .. Len(s) - 1 : f[k + 1] = ReadLine(f[k], s[k + 1], strict, trims)
  BY ReadSteps
<1>3. g[0] = Unread /\ \A k \in 0 .. Len(s) - 1 : g[k + 1] = ReadLine(g[k], s[k + 1], strict, also)
  BY ReadSteps
<1>4. Read(s, strict, trims) = f[n] /\ Read(s, strict, also) = g[n]
  BY ReadSteps
<1> HIDE DEF f, g
<1>5. 0 \in G
  BY <1>1, <1>2, <1>3
<1>6. ASSUME NEW k \in 0 .. n - 1, k \in G PROVE k + 1 \in G
  <2>1. f[k] = g[k] /\ k + 1 \in 0 .. n /\ k + 1 \in DOMAIN s
    BY <1>1, <1>6
  <2> DEFINE line == s[k + 1]
  <2>2. line \in Line
    BY <2>1, ElementOfSeq
  <2>3. \A l \in line.keys : ~l.padded
    BY <2>1 DEF Unpadded
  <2>4. f[k + 1] = ReadLine(f[k], line, strict, trims) /\ g[k + 1] = ReadLine(g[k], line, strict, also)
    BY <1>2, <1>3
  <2> HIDE DEF line
  <2>5. ReadLine(f[k], line, strict, trims) = ReadLine(f[k], line, strict, also)
    BY <2>2, <2>3, BorrowedLine
  <2> QED BY <2>1, <2>4, <2>5
<1>7. 0 .. n \subseteq G
  <2>1. \A k \in 0 .. n - 1 : k \in G => k + 1 \in G
    BY <1>6
  <2> HIDE DEF G, n
  <2> QED BY <1>1, <1>5, <2>1, Induction
<1>8. f[n] = g[n]
  BY <1>1, <1>7
<1> QED BY <1>4, <1>8

\* Lines of blanks before the first field are read as nothing.
LEMMA BlankRead ==
    ASSUME NEW line \in Line, IsBlank(line), NEW strict, NEW trims
    PROVE  ReadLine(Unread, line, strict, trims) = Unread
<1>1. Unread \in ReadState /\ ~Unread.failed /\ Unread.para = <<>>
  <2>1. <<>> \in Seq(Field)
    BY EmptySeq
  <2> QED BY <2>1 DEF Unread, ReadState
<1>2. line.keys = {}
  BY DEF IsBlank
<1>3. CASE line.indent
  <2> DEFINE q == ReadLine(Unread, line, strict, trims)
  <2>1. q = [Unread EXCEPT !.para = q.para] /\ q.para \in Seq(Field) /\ DOMAIN q.para = DOMAIN Unread.para
    BY <1>1, <1>3, Continued
  <2> HIDE DEF q
  <2>2. DOMAIN q.para = {}
    BY <1>1, <2>1
  <2>3. Len(q.para) \in Nat /\ DOMAIN q.para = 1 .. Len(q.para)
    BY <2>1, LenProperties
  <2>4. Len(q.para) = 0
    <3> DEFINE l == Len(q.para)
    <3>1. l \in Nat /\ 1 .. l = {}
      BY <2>2, <2>3
    <3> HIDE DEF l
    <3>2. l = 0
      <4>1. 1 \notin 1 .. l
        BY <3>1
      <4> QED BY <3>1, <4>1
    <3> QED BY <3>2 DEF l
  <2>5. q.para = <<>>
    BY <2>1, <2>4, EmptySeq
  <2>6. q = [Unread EXCEPT !.para = <<>>]
    BY <2>1, <2>5
  <2> QED BY <2>6 DEF q, Unread
<1>4. CASE ~line.indent
  BY <1>2, <1>4 DEF ReadLine
<1> QED BY <1>3, <1>4

LEMMA TrimmedRead ==
    ASSUME NEW s \in Piece, ~s[Min(Said(s))].indent, ~IsBlank(s[Len(s)]), NEW strict, NEW trims
    PROVE  Read(s, strict, trims) = Read(Trimmed(s), strict, trims)
<1> DEFINE a == Min(Said(s))
           z == Max(Said(s))
           n == Len(s)
           t == Trimmed(s)
           f == Readings(s, strict, trims)
           g == Readings(t, strict, trims)
<1>1. /\ a \in Said(s) /\ z \in Said(s) /\ \A i \in Said(s) : a <= i /\ i <= z
      /\ Said(s) \subseteq 1 .. n /\ n \in Nat /\ s \in Seq(Line)
  BY SaidFacts
<1>2. t \in Seq(Line) /\ Len(t) = z - a + 1 /\ t[1] = Unfolded(s[a])
      /\ \A i \in 2 .. z - a + 1 : t[i] = s[a + i - 1]
  BY TrimmedFacts
<1>3. f[0] = Unread /\ \A k \in 0 .. Len(s) - 1 : f[k + 1] = ReadLine(f[k], s[k + 1], strict, trims)
  BY <1>1, ReadSteps
<1>4. g[0] = Unread /\ \A k \in 0 .. Len(t) - 1 : g[k + 1] = ReadLine(g[k], t[k + 1], strict, trims)
  BY <1>2, ReadSteps
<1>5. Read(s, strict, trims) = f[n] /\ Read(t, strict, trims) = g[Len(t)]
  BY <1>1, <1>2, ReadSteps
<1>6. a \in 1 .. n /\ z = n
  <2>1. n \in Said(s)
    <3>1. n \in 1 .. n /\ DOMAIN s = 1 .. n
      BY <1>1
    <3> QED BY <3>1 DEF Said
  <2> QED BY <1>1, <2>1
<1>7. s[a] \in Line /\ t[1] = s[a]
  <2>1. s[a] \in Line
    BY <1>1, <1>6, ElementOfSeq
  <2>2. ~s[a].indent
    OBVIOUS
  <2> HIDE DEF a, t
  <2> QED BY <1>2, <2>1, <2>2, LineFacts
<1>8. ASSUME NEW i \in 1 .. a - 1 PROVE s[i] \in Line /\ IsBlank(s[i])
  <2>1. i \in 1 .. n /\ DOMAIN s = 1 .. n /\ i \notin Said(s)
    BY <1>1, <1>6
  <2> QED BY <1>1, <2>1, ElementOfSeq DEF Said
<1> HIDE DEF a, z, n, t, f, g
<1>9. f[a - 1] = Unread
  <2> DEFINE b == a - 1
             G == {k \in 0 .. b : f[k] = Unread}
  <2>1. b \in Nat /\ 0 \in G
    BY <1>3, <1>6
  <2>2. ASSUME NEW k \in 0 .. b - 1, k \in G PROVE k + 1 \in G
    <3>1. k + 1 \in 1 .. a - 1 /\ k \in 0 .. Len(s) - 1 /\ k + 1 \in 0 .. b
      BY <1>1, <1>6, <2>2 DEF n
    <3>2. f[k + 1] = ReadLine(Unread, s[k + 1], strict, trims)
      BY <1>3, <2>2, <3>1
    <3>3. s[k + 1] \in Line /\ IsBlank(s[k + 1])
      BY <1>8, <3>1
    <3>4. f[k + 1] = Unread
      BY <3>2, <3>3, BlankRead
    <3> QED BY <3>1, <3>4
  <2>3. 0 .. b \subseteq G
    <3>1. \A k \in 0 .. b - 1 : k \in G => k + 1 \in G
      BY <2>2
    <3> HIDE DEF G, b
    <3> QED BY <2>1, <3>1, Induction
  <2>4. b \in 0 .. b
    BY <2>1
  <2> QED BY <2>3, <2>4
<1>10. f[n] = g[Len(t)]
  <2> DEFINE m == Len(t)
             G == {k \in 0 .. m : f[(a - 1) + k] = g[k]}
  <2>1. m \in Nat /\ m = n - a + 1 /\ a \in 1 .. n /\ n \in Nat /\ (a - 1) + m = n
    BY <1>1, <1>2, <1>6
  <2>2. 0 \in G
    <3>1. (a - 1) + 0 = a - 1
      BY <2>1
    <3> QED BY <1>4, <1>9, <2>1, <3>1
  <2>3. ASSUME NEW k \in 0 .. m - 1, k \in G PROVE k + 1 \in G
    <3> DEFINE i == (a - 1) + k
    <3>1. i \in 0 .. Len(s) - 1 /\ i + 1 = (a - 1) + (k + 1) /\ i + 1 = a + (k + 1) - 1 /\ k + 1 \in 0 .. m
      BY <2>1, <2>3 DEF n
    <3>2. f[i] = g[k]
      BY <2>3
    <3>3. t[k + 1] = s[i + 1]
      <4>1. CASE k = 0
        <5>1. i + 1 = a /\ k + 1 = 1
          BY <2>1, <4>1
        <5> QED BY <1>7, <5>1
      <4>2. CASE k # 0
        <5>1. k + 1 \in 2 .. z - a + 1
          BY <1>6, <2>1, <2>3, <4>2
        <5>2. t[k + 1] = s[a + (k + 1) - 1]
          BY <1>2, <5>1
        <5> QED BY <3>1, <5>2
      <4> QED BY <4>1, <4>2
    <3> HIDE DEF i
    <3>4. f[i + 1] = ReadLine(f[i], s[i + 1], strict, trims)
      BY <1>3, <3>1
    <3>5. g[k + 1] = ReadLine(g[k], t[k + 1], strict, trims)
      BY <1>4, <2>3
    <3>6. f[i + 1] = g[k + 1]
      BY <3>2, <3>3, <3>4, <3>5
    <3> QED BY <3>1, <3>6
  <2>4. 0 .. m \subseteq G
    <3>1. \A k \in 0 .. m - 1 : k \in G => k + 1 \in G
      BY <2>3
    <3> HIDE DEF G, m
    <3> QED BY <2>1, <2>2, <3>1, Induction
  <2>5. m \in 0 .. m
    BY <2>1
  <2>6. f[(a - 1) + m] = g[m]
    BY <2>4, <2>5
  <2> QED BY <2>1, <2>6
<1> QED BY <1>5, <1>10 DEF t

LEMMA IndicesAreAlike == ASSUME NEW text \in Seq(Line) PROVE IndicesAgree(text)
<1> DEFINE us == Untrimmed(text)
<1> SUFFICES ASSUME NEW i \in DOMAIN us
    PROVE  LET u == us[i]
               s == Trimmed(u)
           IN /\ ~u[Min(Said(u))].indent /\ ~IsBlank(u[Len(u)])
                   => ParsePackagesIndex(text)[i] = PackagesIndex(text)[i]
              /\ PackagesIndexStrict(text)[i]
                   = (IF ParseParagraph(s, TRUE).failed THEN {} ELSE PackagesIndex(text)[i])
              /\ Get(ParseParagraph(s, FALSE).para, "source") = {}
                   => (SourcesIndex(text)[i] = {} <=> PackagesIndex(text)[i] = {})
              /\ (\A j \in DOMAIN s : \A k \in s[j].keys : ~k.padded)
                   => \A strict \in BOOLEAN : ParseBorrowed(s, strict) = ParseParagraph(s, strict)
  BY DEF IndicesAgree
<1> DEFINE u == us[i]
           s == Trimmed(u)
<1>1. u \in Piece
  BY UntrimmedType, ElementOfSeq
<1>2. s \in Seq(Line)
  BY <1>1, TrimmedFacts
<1>3. DOMAIN SplitStanzas(text) = DOMAIN us /\ SplitStanzas(text)[i] = s
  BY DEF SplitStanzas
<1>4. /\ ParsePackagesIndex(text)[i] = ParseStanza(u) /\ PackagesIndex(text)[i] = ParseStanza(s)
      /\ PackagesIndexStrict(text)[i] = ParseStanzaStrict(s) /\ SourcesIndex(text)[i] = SourceStanza(s)
  BY <1>3 DEF ParsePackagesIndex, PackagesIndex, PackagesIndexStrict, SourcesIndex
<1> HIDE DEF us, u, s
<1>5. ASSUME ~u[Min(Said(u))].indent, ~IsBlank(u[Len(u)]) PROVE ParseStanza(u) = ParseStanza(s)
  <2>1. Read(u, FALSE, TRUE) = Read(s, FALSE, TRUE)
    BY <1>1, <1>5, TrimmedRead DEF s
  <2> QED BY <2>1 DEF ParseStanza, ParseParagraph
<1>6. ParseStanzaStrict(s) = (IF ParseParagraph(s, TRUE).failed THEN {} ELSE ParseStanza(s))
  <2>1. ~ParseParagraph(s, TRUE).failed => ParseParagraph(s, TRUE) = ParseParagraph(s, FALSE)
    BY <1>2, ParsedParagraphs
  <2> QED BY <2>1 DEF ParseStanzaStrict, ParseStanza
<1>7. ASSUME Get(ParseParagraph(s, FALSE).para, "source") = {}
      PROVE  SourceStanza(s) = {} <=> ParseStanza(s) = {}
  BY <1>7 DEF SourceStanza, ParseStanza, BuildBinary
<1>8. ASSUME \A j \in DOMAIN s : \A k \in s[j].keys : ~k.padded, NEW strict \in BOOLEAN
      PROVE  ParseBorrowed(s, strict) = ParseParagraph(s, strict)
  <2>1. Unpadded(s)
    BY <1>8 DEF Unpadded
  <2>2. \A trims, also \in BOOLEAN : Read(s, strict, trims) = Read(s, strict, also)
    BY <1>2, <2>1, BorrowedRead
  <2> QED BY <2>2 DEF ParseBorrowed, ParseParagraph
<1> QED BY <1>4, <1>5, <1>6, <1>7, <1>8 DEF u, s

LEMMA OneIsKept == ASSUME NEW text \in Seq(Line) PROVE OneStanzaKeepsAll(text)
<1> DEFINE ss == SplitStanzas(text)
           s == ss[1]
           n == Len(s)
<1> SUFFICES ASSUME NEW para \in OneStanza(text), NEW i \in Starting(s, n)
    PROVE  LET key == KeyAt(s, i)
           IN /\ \E f \in DOMAIN para : para[f].key = key /\ para[f].value[1].value = s[i].value
              /\ \/ \E j \in Starting(s, n) : j # i /\ KeyAt(s, j).name = key.name
                 \/ Get(para, key.name) = {para[g].value : g \in {f \in DOMAIN para : para[f].key = key}}
  BY DEF OneStanzaKeepsAll
<1>1. Len(ss) = 1 /\ para = ParseParagraph(s, TRUE).para /\ ~ParseParagraph(s, TRUE).failed
  BY DEF OneStanza
<1>2. s \in Seq(Line)
  <2> DEFINE us == Untrimmed(text)
  <2>1. us \in Seq(Piece) /\ ss = [k \in DOMAIN us |-> Trimmed(us[k])]
    BY UntrimmedType DEF SplitStanzas
  <2>2. Len(us) \in Nat /\ DOMAIN us = 1 .. Len(us)
    BY <2>1, LenProperties
  <2> HIDE DEF us, ss
  <2>3. Len(ss) = Len(us)
    BY <2>1, <2>2
  <2>4. 1 \in DOMAIN us
    <3>1. Len(us) = 1
      BY <1>1, <2>3
    <3>2. 1 \in 1 .. 1
      OBVIOUS
    <3> QED BY <2>2, <3>1, <3>2
  <2>5. us[1] \in Piece /\ s = Trimmed(us[1])
    BY <2>1, <2>4, ElementOfSeq
  <2> QED BY <2>5, TrimmedFacts
<1> HIDE DEF ss, s
<1>3. n \in Nat /\ n \in 0 .. Len(s)
  BY <1>2
<1> DEFINE r == ParseParagraph(s, FALSE)
           key == KeyAt(s, i)
<1>4. ReadUpTo(r, s, n) /\ ~Repeats(s, n) /\ para = r.para
  <2>1. /\ ReadUpTo(r, s, n)
        /\ ParseParagraph(s, TRUE).failed <=> Repeats(s, n)
        /\ ~ParseParagraph(s, TRUE).failed => ParseParagraph(s, TRUE) = r
    BY <1>2, ParsedParagraphs
  <2> HIDE DEF r, n
  <2> QED BY <1>1, <2>1
<1> HIDE DEF r, n
<1>5. KeysOf(para) = KeysIn(s, n)
  BY <1>4 DEF ReadUpTo
<1>6. key \in FieldKey /\ key.padded = FALSE
  BY <1>2, <1>3, KeyFacts DEF n
<1>7. PICK f \in DOMAIN para : para[f].key = key
  BY <1>5 DEF KeysOf, KeysIn
<1>8. At(s, key, n) = {i}
  BY <1>4 DEF At, Repeats
<1>9. LastOf(s, key, n) = i
  BY <1>3, <1>8, LastOfFacts
<1> HIDE DEF key
<1>10. para[f].value[1].value = s[i].value
  <2>1. SpeltFrom(para[f].value, s, LastOf(s, para[f].key, n), n)
    BY <1>4 DEF ReadUpTo
  <2>2. para[f].value[1] = Unkeyed(s[i].value)
    BY <1>7, <1>9, <2>1 DEF SpeltFrom
  <2> QED BY <2>2 DEF Unkeyed
<1>11. ASSUME \A j \in Starting(s, n) : KeyAt(s, j).name = key.name => j = i
       PROVE  Get(para, key.name) = {para[g].value : g \in {h \in DOMAIN para : para[h].key = key}}
  <2> DEFINE exact == {h \in DOMAIN para : para[h].key = Usual(key.name)}
             other == {h \in DOMAIN para : para[h].key.name = key.name /\ ~para[h].key.padded}
             mine  == {h \in DOMAIN para : para[h].key = key}
  <2>1. ASSUME NEW h \in DOMAIN para, para[h].key.name = key.name PROVE para[h].key = key
    <3>1. para[h].key \in KeysIn(s, n)
      BY <1>5 DEF KeysOf
    <3>2. PICK j \in Starting(s, n) : para[h].key = KeyAt(s, j)
      BY <3>1 DEF KeysIn
    <3>3. j = i
      BY <1>11, <2>1, <3>2
    <3> QED BY <3>2, <3>3 DEF key
  <2>2. other = mine
    BY <1>6, <2>1
  <2>3. ASSUME exact # {} PROVE exact = mine
    <3>1. PICK h \in DOMAIN para : para[h].key = Usual(key.name)
      BY <2>3
    <3>2. Usual(key.name).name = key.name
      BY DEF Usual
    <3>3. key = Usual(key.name)
      BY <2>1, <3>1, <3>2
    <3> QED BY <3>3
  <2>4. (IF exact # {} THEN exact ELSE other) = mine
    BY <2>2, <2>3
  <2>5. Get(para, key.name) = {para[g].value : g \in IF exact # {} THEN exact ELSE other}
    BY DEF Get
  <2> HIDE DEF exact, other, mine
  <2>6. Get(para, key.name) = {para[g].value : g \in mine}
    BY <2>4, <2>5
  <2> QED BY <2>6 DEF mine
<1>12. \/ \E j \in Starting(s, n) : j # i /\ KeyAt(s, j).name = key.name
       \/ Get(para, key.name) = {para[g].value : g \in {h \in DOMAIN para : para[h].key = key}}
  BY <1>11
<1> QED BY <1>7, <1>10, <1>12 DEF key, n

\* A stanza of a control file or of an index is read as the fields its lines
\* spell, the readers of the crate agree where they should, and a file of one
\* stanza loses none of its fields, whatever its lines are, their keys and
\* their number (control-file 101-609).
THEOREM ControlFilesAreRead == ControlSpec => []ControlReadersAgree
<1> DEFINE TypeInv == part = "control" => input \in ControlTexts
<1>1. NoInput => TypeInv
  BY DEF NoInput
<1>2. TypeInv /\ [ParseControl \/ Elsewhere({"control"})]_inputVars => TypeInv'
  BY DEF ParseControl, Elsewhere, Take, inputVars
<1>3. TypeInv => ControlReadersAgree
  <2> SUFFICES ASSUME part = "control", input \in ControlTexts
               PROVE  /\ LET ss == SplitStanzas(input) IN \A i \in DOMAIN ss : StanzaIsItsFields(ss[i])
                      /\ IndicesAgree(input) /\ OneStanzaKeepsAll(input)
    BY DEF ControlReadersAgree
  <2>1. input \in Seq(Line)
    BY ControlAssumption
  <2>2. ASSUME NEW i \in DOMAIN SplitStanzas(input) PROVE StanzaIsItsFields(SplitStanzas(input)[i])
    <3>1. i \in DOMAIN Untrimmed(input) /\ SplitStanzas(input)[i] = Trimmed(Untrimmed(input)[i])
      BY DEF SplitStanzas
    <3>2. Untrimmed(input)[i] \in Piece
      BY <2>1, <3>1, UntrimmedType, ElementOfSeq
    <3>3. SplitStanzas(input)[i] \in Seq(Line)
      BY <3>1, <3>2, TrimmedFacts
    <3> QED BY <3>3, StanzasAreRead
  <2> QED BY <2>1, <2>2, IndicesAreAlike, OneIsKept
<1> QED BY <1>1, <1>2, <1>3, PTL DEF ControlSpec
=============================================================================
