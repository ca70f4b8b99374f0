----------------------------- MODULE MCStatusDb -----------------------------
(***************************************************************************)
(* Instances of ConcurrentStatusDb for TLC: two packages, one of them with *)
(* a record for each of two architectures.                                 *)
(***************************************************************************)
EXTENDS ConcurrentStatusDb, TLC

CONSTANTS p, q,             \* packages
          amd64, i386,      \* architectures
          unpacked, installed, \* statuses
          w1, w2, r1    \* threads

Names    == {p, q}
Arches   == {amd64, i386}
Statuses == {unpacked, installed}

Rec(n, a, s) == [name |-> n, arch |-> a, status |-> s]
Good(r)      == [record |-> r, wellFormed |-> TRUE]
Bad(r)       == [record |-> r, wellFormed |-> FALSE]
Set(n, a, s) == [op |-> "set", name |-> n, arch |-> a, status |-> s]
Drop(n)      == [op |-> "remove", name |-> n]

\* Files: empty, one package on two architectures, one stanza nobody can read.
SomeFiles == {<<>>,
              <<Good(Rec(p, amd64, installed)), Good(Rec(p, i386, installed)),
                Good(Rec(q, amd64, installed))>>,
              <<Bad(Rec(p, amd64, installed)), Good(Rec(q, amd64, unpacked))>>}

\* Batches of none, one and two changes, an upgrade and a replacement.
SomeBatches == {<<Set(p, amd64, unpacked), Set(q, amd64, installed)>>,
                <<Drop(p), Set(q, i386, unpacked)>>,
                <<Set(p, i386, installed)>>,
                <<>>}
TwoWriters  == {w1, w2}
OneReader   == {r1}
=============================================================================
