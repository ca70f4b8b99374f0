------------------------------ MODULE StatusDb ------------------------------
(***************************************************************************)
(* The records of dpkg's status database and what is done with them        *)
(* (crates/tpt-l-dpkg-db/src/lib.rs, StatusDb).                            *)
(*                                                                         *)
(* A record is kept to what the changes look at and set: its name, the     *)
(* architecture (two records of one name are what a multi-arch system      *)
(* has) and the version and status in one value.  A stanza of the file is  *)
(* well formed when it has a name and a status of three known words; open  *)
(* skips the others, and write_atomic writes every record well formed.     *)
(***************************************************************************)
EXTENDS Integers, Sequences

CONSTANTS Name, Arch, Status

Record == [name : Name, arch : Arch, status : Status]
Stanza == [record : Record, wellFormed : BOOLEAN]

\* A StatusChange; Remove carries no architecture and no status.
SetStatus    == [op : {"set"}, name : Name, arch : Arch, status : Status]
Removal      == [op : {"remove"}, name : Name]
StatusChange == SetStatus \cup Removal

\* What a loop keeps of a sequence: the elements at some places, in order.
Kept(seq, places) ==
    LET upTo[i \in 0 .. Len(seq)] ==
            IF i = 0 THEN <<>>
            ELSE IF i \in places THEN Append(upTo[i - 1], seq[i])
                                 ELSE upTo[i - 1]
    IN upTo[Len(seq)]

\* StatusDb::parse_str.
RecordOf(stanza)     == stanza.record
IsWellFormed(stanza) == stanza.wellFormed
Parsed(file) ==
    LET kept == Kept(file, {i \in DOMAIN file : IsWellFormed(file[i])}) IN
    [i \in DOMAIN kept |-> RecordOf(kept[i])]

\* The file write_atomic produces.
Written(db) == [i \in DOMAIN db |-> [record |-> db[i], wellFormed |-> TRUE]]

-----------------------------------------------------------------------------
(* StatusDb::apply_changes, one change. *)

\* The first record of the name, in a set that is empty without one.
Found(db, n) == {i \in DOMAIN db : db[i].name = n /\ \A j \in 1 .. i - 1 : db[j].name # n}

RecordFor(change) == [name |-> change.name, arch |-> change.arch,
                      status |-> change.status]

Upserted(db, change) ==
    IF Found(db, change.name) = {}
    THEN Append(db, RecordFor(change))
    ELSE [i \in DOMAIN db |-> IF i \in Found(db, change.name)
                              THEN RecordFor(change) ELSE db[i]]

Removed(db, change) == Kept(db, {i \in DOMAIN db : db[i].name # change.name})

Changed(db, change) == IF change.op = "set" THEN Upserted(db, change)
                                            ELSE Removed(db, change)

\* The first n changes of a batch.
Batch == Seq(StatusChange)
ChangedBy(db, batch, n) ==
    LET after[k \in 0 .. n] ==
            IF k = 0 THEN db ELSE Changed(after[k - 1], batch[k])
    IN after[n]
ApplyChanges(db, batch) == ChangedBy(db, batch, Len(batch))
=============================================================================
