------------------------------- MODULE Pdiff --------------------------------
(***************************************************************************)
(* Delta updates of an index (crates/tpt-l-apt-transport/src/pdiff.rs) and *)
(* the Release file that names the revision to reach (release.rs).         *)
(*                                                                         *)
(* A revision stands for the bytes of an index and for their hash.  An     *)
(* index of diffs is a sequence of records [old, new] of revisions; what   *)
(* may be absent is a set of at most one element.                          *)
(***************************************************************************)
EXTENDS Integers, Sequences, SequencesExt

\* HashMap::insert, and a file that is written.
Insert(f, key, value) == [k \in DOMAIN f \cup {key} |-> IF k = key THEN value ELSE f[k]]

(***************************************************************************)
(* resolve_chain: breadth first from the cached revision.  `via' maps a    *)
(* revision that was seen to the position of the diff it was reached by.   *)
(***************************************************************************)
\* Fault: a revision that was reached is reached again.
SeenFirst(current, search) == {current}
Seen(current, search) == DOMAIN search.via \cup {current}

\* One edge of the node at the head of the queue.
Edge(index, current, node, s, i) ==
    IF index[i].old # node \/ index[i].new \in Seen(current, s)
    THEN s
    ELSE [queue |-> Append(s.queue, index[i].new),
          via   |-> Insert(s.via, index[i].new, i)]

Visit(index, current, search) ==
    LET seen[i \in 0..Len(index)] ==
            IF i = 0 THEN [queue |-> Tail(search.queue), via |-> search.via]
            ELSE Edge(index, current, Head(search.queue), seen[i - 1], i)
    IN seen[Len(index)]

IsOver(target, search) == search.queue = <<>> \/ Head(search.queue) = target

\* No revision is visited twice: one visit for each diff, and the first.
Search(index, current, target) ==
    LET turn[k \in 0..Len(index) + 1] ==
            IF k = 0 THEN [queue |-> <<current>>, via |-> <<>>]
            ELSE IF IsOver(target, turn[k - 1]) THEN turn[k - 1]
            ELSE Visit(index, current, turn[k - 1])
    IN turn[Len(index) + 1]

\* The positions of the diffs to apply, {} if none lead to the target.
ResolveChain(index, current, target) ==
    LET search == Search(index, current, target)
        chain[r \in Seen(current, search)] ==
          IF r = current THEN <<>>
          ELSE Append(chain[index[search.via[r]].old], search.via[r])
    IN IF target \in Seen(current, search) THEN {chain[target]} ELSE {}

(***************************************************************************)
(* ReleaseIndex::parse, over the kinds of lines it tells apart: everything *)
(* up to the first blank line is the header; hashes are read in a section  *)
(* SHA256 that ends at a blank line or at the next section.                *)
(***************************************************************************)
ReadLine(s, line) ==
    CASE s.header            -> [s EXCEPT !.header = line.kind # "blank"]
      [] ~s.header /\ line.kind \in {"blank", "section"} ->
                                [s EXCEPT !.hashes = line.kind = "section" /\ line.name = "SHA256"]
      [] ~s.header /\ line.kind = "file" /\ s.hashes ->
                                [s EXCEPT !.files = Insert(@, line.path, line.hash)]
      [] OTHER               -> s

ParseRelease(lines) ==
    LET read[k \in 0..Len(lines)] ==
            IF k = 0 THEN [header |-> TRUE, hashes |-> FALSE, files |-> <<>>]
                     ELSE ReadLine(read[k - 1], lines[k])
    IN read[Len(lines)].files

PackagesSha256(files, component) ==
    {files[path] : path \in {component} \cap DOMAIN files}
=============================================================================
