------------------------------ MODULE MCInstall -----------------------------
EXTENDS AptInstall

CONSTANTS A, B, x, y, out

One == 1..2
AnyOf(n) == [name |-> n, versions |-> One]
Listing(n, v, d, f) ==
    [name |-> n, version |-> v, depends |-> d, conflicts |-> {}, provides |-> {},
     recommends |-> <<>>, filename |-> {f}]
\* A depends on B; the second file has later versions of both.
TwoFiles == << <<Listing(A, 1, {<<AnyOf(B)>>}, "A1"), Listing(B, 1, {}, "B1")>>,
               <<Listing(B, 2, {}, "B2"), Listing(A, 2, {}, "A2")>> >>
Paths     == {x, y, out, PostInst}
LedOut    == {out}
File(p)   == [path |-> p, type |-> "file", link |-> {}]
Link(p, q) == [path |-> p, type |-> "link", link |-> {q}]
HardLink(p) == [path |-> p, type |-> "other", link |-> {}]
\* A file over an older link, a hard link over an older file, and a file that
\* is not in the directory.
DebOf == (<<"a", "A1">> :> <<File(x), File(y)>>)
         @@ (<<"a", "A2">> :> <<File(x), HardLink(y), File(out)>>)
         @@ (<<"a", "B1">> :> <<Link(x, y), File(y)>>)
         @@ (<<"a", "B2">> :> <<File(x), File(y), File(PostInst)>>)
Postinsts == {<<"a", "B1">>}
FirstSource == {"a"}
Calls == {[packages |-> p, dryRun |-> d] : p \in {<<A>>, <<B>>}, d \in BOOLEAN}
=============================================================================
