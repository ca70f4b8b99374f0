----------------------------- MODULE AptUpdate ------------------------------
(***************************************************************************)
(* `update' of the command line tool (crates/tpt-l-apt-cli/src/lib.rs):    *)
(* the Release of every enabled binary source is fetched first, then each  *)
(* component's index is brought up to date, by deltas where that works,    *)
(* and written to the cache.  Archives publish meanwhile, every fetch may  *)
(* fail, a write may fail or the program stop in the middle of it.         *)
(*                                                                         *)
(* A fetch is one step here: its retries are in module Transport.          *)
(***************************************************************************)
EXTENDS Pdiff, FiniteSets

CONSTANTS Entries,      \* the sources list, a sequence of records [enabled,
                        \* type, uri, suite, components]
          Host,         \* URI -> the file name url_slug makes of it
          Clearsigned,  \* the URIs that publish an InRelease file
          Torn,         \* a file whose write was cut short
          MaxPublish, MaxUpdates, MaxStops  \* bounds

IsActive(e) == e.enabled /\ e.type = "deb"
Works(i) == IF ~IsActive(Entries[i]) THEN <<>>
            ELSE [j \in DOMAIN Entries[i].components |->
                    [entry |-> i, component |-> Entries[i].components[j]]]
Work == FlattenSeq([i \in DOMAIN Entries |-> Works(i)])

\* The archive's index that a work item asks for, and the file it goes to.
Origin(w) == <<Entries[w.entry].uri, Entries[w.entry].suite, w.component>>
Slug(w)   == <<Host[Entries[w.entry].uri], Entries[w.entry].suite, w.component>>
Origins   == {Origin(Work[i]) : i \in DOMAIN Work}
Slugs     == {Slug(Work[i]) : i \in DOMAIN Work}

MaxRevision == MaxPublish + 1
Content(o, r) == [origin |-> o, rev |-> r]
Contents == {Content(o, r) : o \in Origins, r \in 1..MaxRevision}

ASSUME UpdateAssumption ==
    /\ Entries \in Seq([enabled : BOOLEAN, type : {"deb", "deb-src"}, uri : DOMAIN Host,
                        suite : STRING, components : Seq(STRING)])
    /\ Torn \notin Contents
    /\ MaxPublish \in Nat /\ MaxUpdates \in Nat /\ MaxStops \in Nat

VARIABLES rev,      \* origin -> the revision its archive publishes now
          diffs,    \* origin -> the index of diffs it publishes now
          cache,    \* slug -> content, for the files that exist
          pc,       \* where update is: "idle", "release", "item", "patch",
                    \* "full", "write", "writing", "done", "failed"
          releases, \* the parsed Release of each entry so far
          n,        \* the work item
          chain,    \* diffs still to be applied
          bytes,    \* the index as far as it was rebuilt or fetched
          updates, stops, \* bounded counters
          started, before \* history: rev and cache when update was called

archive == <<rev, diffs>>
local   == <<releases, n, chain, bytes, updates, started, before>>
updateVars == <<archive, cache, pc, local, stops>>

Item   == Work[n]
File   == Slug(Item)
Target == PackagesSha256(releases[Item.entry], Item.component)
Running == pc \notin {"idle", "done", "failed"}

UpdateInit ==
    /\ rev = [o \in Origins |-> 1] /\ diffs = [o \in Origins |-> <<>>]
    /\ cache = <<>> /\ pc = "idle" /\ releases = <<>> /\ n = 1
    /\ chain = <<>> /\ bytes = Torn /\ updates = 0 /\ stops = 0
    /\ started = rev /\ before = cache

(***************************************************************************)
(* An archive publishes: a diff from the last revision, one from every     *)
(* older revision to the new one, which may replace those before, or none. *)
(***************************************************************************)
Publish(o) ==
    /\ FoldFunction(+, 0, rev) < MaxPublish + Cardinality(Origins)
    /\ rev' = [rev EXCEPT ![o] = @ + 1]
    /\ LET to(r) == [old |-> Content(o, r), new |-> Content(o, rev[o] + 1)]
           merged == [r \in 1..rev[o] |-> to(r)]
       IN \E d \in {Append(diffs[o], to(rev[o])), merged, diffs[o] \o merged, <<>>} :
            diffs' = [diffs EXCEPT ![o] = d]
    /\ UNCHANGED <<cache, pc, local, stops>>

Hashes(e) ==
    [j \in DOMAIN e.components |->
        LET o == <<e.uri, e.suite, e.components[j]>>
        IN [kind |-> "file", path |-> e.components[j], hash |-> Content(o, rev[o])]]
OtherHashes(e) == [j \in DOMAIN Hashes(e) |-> [Hashes(e)[j] EXCEPT !.hash = Torn]]

ReleaseLines(e) ==
    LET field == [kind |-> "other"]
        stanza == <<[kind |-> "section", name |-> "SHA256"]>> \o Hashes(e)
                  \o <<[kind |-> "section", name |-> "SHA512"]>> \o OtherHashes(e)
    IN IF e.uri \in Clearsigned
       THEN <<field, [kind |-> "blank"], field>> \o stanza \o <<[kind |-> "blank"], field>>
       ELSE <<field>> \o stanza

\* Fault: the lists are cleared first.
BeginEmpty ==
    /\ ~Running /\ updates < MaxUpdates
    /\ updates' = updates + 1 /\ started' = rev /\ before' = cache /\ cache' = <<>>
    /\ n' = 1 /\ releases' = <<>> /\ pc' = "release"
    /\ UNCHANGED <<archive, chain, bytes, stops>>
Begin ==
    /\ ~Running /\ updates < MaxUpdates
    /\ updates' = updates + 1 /\ started' = rev /\ before' = cache
    /\ n' = 1 /\ releases' = <<>>
    /\ pc' \in {"release", "failed"}   \* or the sources cannot be loaded
    /\ UNCHANGED <<archive, cache, chain, bytes, stops>>

\* An entry that is skipped, and a Release that cannot be fetched or that
\* lists no hash, leave no target.
FetchRelease ==
    /\ pc = "release"
    /\ IF Len(releases) = Len(Entries)
       THEN pc' = (IF Work = <<>> THEN "done" ELSE "item") /\ UNCHANGED releases
       ELSE LET e == Entries[Len(releases) + 1]
            IN /\ \/ releases' = Append(releases, <<>>)
                  \/ IsActive(e) /\ releases' = Append(releases, ParseRelease(ReleaseLines(e)))
               /\ UNCHANGED pc
    /\ UNCHANGED <<archive, cache, n, chain, bytes, updates, started, before, stops>>

(***************************************************************************)
(* One work item, up to its bytes: no target or no cached file means a     *)
(* full fetch, a cached file that is the target is written again as it is, *)
(* and otherwise the index of diffs is fetched and searched.               *)
(***************************************************************************)
ChooseFull ==
    /\ pc = "item" /\ (Target = {} \/ File \notin DOMAIN cache)
    /\ pc' = "full" /\ UNCHANGED <<chain, bytes>>
ChooseCached ==
    /\ pc = "item" /\ File \in DOMAIN cache /\ cache[File] \in Target
    /\ pc' = "write" /\ bytes' = cache[File] /\ UNCHANGED chain
FetchDiffIndex ==
    /\ pc = "item" /\ Target # {} /\ File \in DOMAIN cache /\ cache[File] \notin Target
    /\ LET index == diffs[Origin(Item)]
       IN \/ \* the fetch fails or there is no chain
             pc' = "full" /\ UNCHANGED <<chain, bytes>>
          \/ /\ \E found \in ResolveChain(index, cache[File], CHOOSE t \in Target : TRUE) :
                  chain' = [i \in DOMAIN found |-> index[found[i]]]
             /\ pc' = "patch" /\ bytes' = cache[File]
\* What is left of a patch that was fetched and applied has the hash that the
\* index promises for it.
\* Fault: no hash is compared.
VerifiedNothing(got, promised) == TRUE
Verified(got, promised) == got = promised
FetchPatch ==
    /\ pc = "patch"
    /\ \/ /\ chain = <<>>
          /\ pc' = (IF \A t \in Target : Verified(bytes, t) THEN "write" ELSE "full")
          /\ UNCHANGED <<chain, bytes>>
       \/ /\ chain # <<>>
          /\ \E got \in {Head(chain).new, Torn} :  \* Torn: the patch is damaged
               IF Verified(got, Head(chain).new)
               THEN bytes' = got /\ chain' = Tail(chain) /\ UNCHANGED pc
               ELSE pc' = "full" /\ UNCHANGED <<chain, bytes>>
       \/ /\ chain # <<>> /\ pc' = "full" /\ UNCHANGED <<chain, bytes>>
FetchFull ==
    /\ pc = "full"
    /\ \/ pc' = "write" /\ bytes' = Content(Origin(Item), rev[Origin(Item)])
       \/ pc' = "failed" /\ UNCHANGED bytes
    /\ UNCHANGED chain
Obtain ==
    /\ ChooseFull \/ ChooseCached \/ FetchDiffIndex \/ FetchPatch \/ FetchFull
    /\ UNCHANGED <<archive, cache, releases, n, updates, started, before, stops>>

(***************************************************************************)
(* std::fs::write truncates the cached file and then fills it; an error in *)
(* between ends update.                                                    *)
(***************************************************************************)
Truncate ==
    /\ pc = "write"
    /\ cache' = Insert(cache, File, Torn) /\ pc' = "writing"
    /\ UNCHANGED <<archive, local, stops>>
\* Fault: a failed write is tried again.
WriteAgain ==
    /\ pc = "writing"
    /\ \/ /\ cache' = [cache EXCEPT ![File] = bytes]
          /\ n' = (IF n < Len(Work) THEN n + 1 ELSE n)
          /\ pc' = (IF n < Len(Work) THEN "item" ELSE "done")
       \/ pc' = "write" /\ UNCHANGED <<cache, n>>
    /\ UNCHANGED <<archive, releases, chain, bytes, updates, started, before, stops>>
Write ==
    /\ pc = "writing"
    /\ \/ /\ cache' = [cache EXCEPT ![File] = bytes]
          /\ n' = (IF n < Len(Work) THEN n + 1 ELSE n)
          /\ pc' = (IF n < Len(Work) THEN "item" ELSE "done")
       \/ pc' = "failed" /\ UNCHANGED <<cache, n>>
    /\ UNCHANGED <<archive, releases, chain, bytes, updates, started, before, stops>>

Stop ==
    /\ Running /\ stops < MaxStops
    /\ stops' = stops + 1 /\ pc' = "idle"
    /\ UNCHANGED <<archive, cache, local>>

UpdateStep == FetchRelease \/ Obtain \/ Truncate \/ Write
UpdateNext == Begin \/ UpdateStep \/ Stop \/ \E o \in Origins : Publish(o)
UpdateSpec == UpdateInit /\ [][UpdateNext]_updateVars /\ WF_updateVars(UpdateStep)

-----------------------------------------------------------------------------
\* An item's file holds an index that its own archive has published, no older
\* than what was there when update was called and than what the Release lists.
Fresh(i) ==
    LET w == Work[i]
    IN /\ Slug(w) \in DOMAIN cache
       /\ \E r \in started[Origin(w)]..rev[Origin(w)] :
            /\ cache[Slug(w)] = Content(Origin(w), r)
            /\ \A t \in PackagesSha256(releases[w.entry], w.component) : r >= t.rev

(***************************************************************************)
(* An update that returns Ok has brought every file up to date, whatever   *)
(* mixture of deltas, full fetches and repairs of files that an earlier    *)
(* run left cut short it took, although an index is compared with the      *)
(* Release only on the way of the deltas (lines 205-253).                  *)
(***************************************************************************)
DoneIsFresh == pc = "done" => \A i \in DOMAIN Work : Fresh(i)

(***************************************************************************)
(* One that ends at an item has brought those before it up to date and     *)
(* left those after it as they were (the `?' of lines 246 and 253): the    *)
(* cache is a mixture, never one of its files.                             *)
(***************************************************************************)
FailedIsPrefix ==
    (pc = "failed" /\ Len(releases) = Len(Entries)) =>
        /\ \A i \in 1..n - 1 : Slug(Work[i]) # File => Fresh(i)
        /\ \A s \in Slugs \ {Slug(Work[i]) : i \in 1..n} :
             /\ s \in DOMAIN cache <=> s \in DOMAIN before
             /\ s \in DOMAIN cache => cache[s] = before[s]

(***************************************************************************)
(* The diffs that are applied lead from the cached revision to the one the *)
(* Release lists, no fewer diffs do, and the index is fetched whole for    *)
(* want of a chain only if no diffs lead there (resolve_chain), in the     *)
(* indices that archives publish: diffs from the last revision, merged     *)
(* ones and mixtures of both.                                              *)
(***************************************************************************)
Further(index, near) ==
    near \cup {index[i].new : i \in {j \in DOMAIN index : index[j].old \in near}}
Reached(index, from, k) ==
    LET within[i \in 0..k] == IF i = 0 THEN {from} ELSE Further(index, within[i - 1])
    IN within[k]
IsShortest(index, from, to, c) ==
    /\ Len(c) = 0 => from = to
    /\ Len(c) > 0 => /\ index[c[1]].old = from /\ index[c[Len(c)]].new = to
                     /\ to \notin Reached(index, from, Len(c) - 1)
    /\ \A i \in 1..Len(c) - 1 : index[c[i]].new = index[c[i + 1]].old
ChainIsShortest ==
    (pc = "item" /\ File \in DOMAIN cache /\ Target # {}) =>
        LET index == diffs[Origin(Item)]
            target == CHOOSE t \in Target : TRUE
            found == ResolveChain(index, cache[File], target)
        IN /\ found = {} => target \notin Reached(index, cache[File], MaxPublish)
           /\ \A c \in found : IsShortest(index, cache[File], target, c)

\* update returns: every fetch ends by its timeout and its retries.
UpdateReturns == pc = "release" ~> ~Running
=============================================================================
