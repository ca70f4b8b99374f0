------------------------------ MODULE DebDiff -------------------------------
(***************************************************************************)
(* The comparison of two packages (crates/tpt-l-deb-diff/src/lib.rs).  A   *)
(* package is [fields, files], functions from names to values and from     *)
(* paths to contents, a content standing for its SHA-256.                  *)
(***************************************************************************)
EXTENDS Integers, FiniteSets

At(f, x) == {f[y] : y \in {x} \cap DOMAIN f}

Modified(old, new) ==
    {[path |-> p, old |-> old.files[p], new |-> new.files[p]] :
        p \in {q \in DOMAIN old.files \cap DOMAIN new.files : old.files[q] # new.files[q]}}

Compare(old, new) ==
    [metadata |-> {[field |-> f, old |-> At(old.fields, f), new |-> At(new.fields, f)] :
                     f \in {g \in DOMAIN old.fields \cup DOMAIN new.fields : At(old.fields, g) # At(new.fields, g)}},
     added    |-> DOMAIN new.files \ DOMAIN old.files,
     removed  |-> DOMAIN old.files \ DOMAIN new.files,
     modified |-> Modified(old, new)]
IsEmpty(r) == r.metadata = {} /\ r.added = {} /\ r.removed = {} /\ r.modified = {}
ChangeCount(r) == Cardinality(r.metadata) + Cardinality(r.added)
                  + Cardinality(r.removed) + Cardinality(r.modified)

(***************************************************************************)
(* A report is all that sets the two packages apart: the older one, with   *)
(* its changes made and the added files filled in, is the newer one; and   *)
(* it counts no change exactly when they are equal.                        *)
(***************************************************************************)
The(s) == CHOOSE x \in s : TRUE
Changes(r, f)   == {m \in r.metadata : m.field = f}
Unchanged(f, r) == {x \in DOMAIN f : Changes(r, x) = {}}
Given(r)        == {m.field : m \in {n \in r.metadata : n.new # {}}}
Contents(r, p)  == {m.new : m \in {n \in r.modified : n.path = p}}
PatchedFields(f, r) ==
    [x \in Unchanged(f, r) \cup Given(r) |-> IF x \in Unchanged(f, r) THEN f[x] ELSE The(The(Changes(r, x)).new)]
PatchedFiles(f, new, r) ==
    [p \in (DOMAIN f \ r.removed) \cup r.added |->
        IF p \in r.added THEN new.files[p]
        ELSE IF Contents(r, p) # {} THEN The(Contents(r, p)) ELSE f[p]]
ReportRebuilds(old, new) ==
    LET r == Compare(old, new)
    IN /\ [fields |-> PatchedFields(old.fields, r), files |-> PatchedFiles(old.files, new, r)] = new
       /\ IsEmpty(r) <=> old = new
       /\ (ChangeCount(r) = 0) <=> IsEmpty(r)
=============================================================================
