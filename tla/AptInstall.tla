----------------------------- MODULE AptInstall -----------------------------
(***************************************************************************)
(* `install' of the command line tool (crates/tpt-l-apt-cli/src/lib.rs):   *)
(* the cached indices are read, the resolver plans, and each package of    *)
(* the plan is downloaded, unpacked into a directory of its own and        *)
(* configured.  Calls follow one another: an older version, or what a call *)
(* that failed left, is in the directory when a package is unpacked.       *)
(*                                                                         *)
(* The cache is what AptUpdate leaves, torn files included.  The plan is   *)
(* any selection that is consistent, as module Resolver has it.            *)
(***************************************************************************)
EXTENDS Universe, SequencesExt

CONSTANTS Indices,   \* the cached files, sequences of entries
          Requests,  \* the calls, sets of [packages, dryRun]
          Source,    \* {} or the URI of the first enabled binary source
          Path,      \* of the entries of an archive, joined to the directory
          Beyond,   \* those that then lead out of it: absolute or by ".."
          Debs,      \* what the archives have: <<uri, file>> -> a sequence of
                     \* entries [path, type, link], link {} or the path linked to
          PostInst,  \* the path DEBIAN/postinst
          Scripted,  \* those of Debs with a postinst in their control.tar
          MaxCalls   \* bound

AtMostOne(S) == \A a, b \in S : a = b

\* A package as in Universe, with its Filename if it has one.
Entry == [name : Name, version : Version, depends : SUBSET DependencyGroup,
          conflicts : SUBSET DependencySpec, provides : SUBSET Name,
          recommends : Seq(DependencyGroup), filename : SUBSET STRING]

\* Hard links, directories, devices and the rest are of type "other".
DebEntry == {e \in [path : Path, type : {"file", "link", "other"}, link : SUBSET Path] :
                e.type # "link" => e.link = {}}

ASSUME InstallAssumption ==
    /\ Indices \in Seq(Seq(Entry)) /\ AtMostOne(Source)
    /\ \A f \in ToSet(Indices) : \A p \in ToSet(f) : AtMostOne(p.filename)
    /\ Beyond \subseteq Path
    /\ \A d \in DOMAIN Debs : Debs[d] \in Seq(DebEntry)

VARIABLES torn,      \* the positions of Indices whose file was cut short
          index,     \* load_index
          asked,     \* the arguments of this call
          pc,        \* "idle", "resolve", "download", "unpack", "configure",
                     \* "done", "failed"
          plan, k,   \* names to install and the position reached
          rest,      \* the entries still to unpack
          dirs,      \* name -> path -> [deb, link], what is on disk
          scripts,   \* <<name, deb>> of the postinsts that ran
          installed, \* the result
          calls,
          before     \* history: dirs when install was called

control     == <<pc, plan, k, rest, installed>>
installVars == <<torn, index, asked, control, dirs, scripts, calls, before>>

Empty == <<>>

InstallInit ==
    /\ torn \in SUBSET DOMAIN Indices
    /\ index = Empty /\ asked = [packages |-> Empty, dryRun |-> TRUE] /\ pc = "idle"
    /\ plan = Empty /\ k = 1 /\ rest = Empty /\ dirs = Empty
    /\ scripts = {} /\ installed = Empty /\ calls = 0 /\ before = dirs

(***************************************************************************)
(* load_index reads the files in the order of the directory, which is any. *)
(* Of a file cut short it sees some packages and of the last of them maybe *)
(* a part: Filename follows the relations, so that is the first to go.     *)
(***************************************************************************)
Cut(p, d)   == [p EXCEPT !.filename = {}, !.depends = d]
CutAt(f, i) == {Append(SubSeq(f, 1, i - 1), Cut(f[i], d)) :
                   d \in UNION {SUBSET p.depends : p \in ToSet(f)}}
Torn(f) == {SubSeq(f, 1, i) : i \in 0..Len(f)} \cup UNION {CutAt(f, i) : i \in DOMAIN f}
Read(i) == IF i \in torn THEN Torn(Indices[i]) ELSE {Indices[i]}

Load(r) ==
    /\ pc \in {"idle", "done", "failed"} /\ calls < MaxCalls
    /\ calls' = calls + 1 /\ asked' = r /\ before' = dirs
    /\ \E order \in SetToSeqs(DOMAIN Indices) :
         \E files \in {f \in [DOMAIN Indices -> UNION {Read(i) : i \in DOMAIN Indices}] :
                         \A i \in DOMAIN f : f[i] \in Read(order[i])} :
           index' = FlattenSeq(files)
    /\ pc' = (IF index' = Empty THEN "failed" ELSE "resolve")
    /\ plan' = Empty /\ k' = 1 /\ rest' = Empty /\ installed' = Empty
    /\ UNCHANGED <<torn, dirs, scripts>>

\* The packages of the plan are in the order of the index.
Planned(m) ==
    LET upTo[i \in 0..Len(index)] ==
            IF i = 0 THEN Empty
            ELSE IF i \in m THEN Append(upTo[i - 1], index[i]) ELSE upTo[i - 1]
    IN upTo[Len(index)]

\* Fault: the directories of the plan are emptied first.
ResolveClears ==
    /\ pc = "resolve"
    /\ \/ \E m \in SUBSET DOMAIN index :
            /\ Consistent(index, asked.packages, m)
            /\ plan' = Planned(m)
            /\ dirs' = [n \in DOMAIN dirs |-> IF n \in {index[i].name : i \in m} THEN Empty ELSE dirs[n]]
            /\ pc' = (IF asked.dryRun \/ plan' = Empty THEN "done" ELSE "download")
       \/ pc' = "failed" /\ UNCHANGED <<plan, dirs>>
    /\ UNCHANGED <<torn, index, asked, k, rest, scripts, installed, calls, before>>
Resolve ==
    /\ pc = "resolve"
    /\ \/ \E m \in SUBSET DOMAIN index :
            /\ Consistent(index, asked.packages, m)
            /\ plan' = Planned(m)
            /\ IF asked.dryRun THEN pc' = "done" /\ installed' = [i \in DOMAIN plan' |-> plan'[i].name]
               ELSE IF plan' = Empty THEN pc' = "done" /\ UNCHANGED installed
               ELSE pc' = "download" /\ UNCHANGED installed
       \/ /\ \A m \in SUBSET DOMAIN index : ~Consistent(index, asked.packages, m)
          /\ pc' = "failed" /\ UNCHANGED <<plan, installed>>
    /\ UNCHANGED <<torn, index, asked, k, rest, dirs, scripts, calls, before>>

Current == plan[k].name
\* What is downloaded is the first of the name, not the version of the plan.
Listed(n) == index[CHOOSE i \in Named(index, n) : \A j \in Named(index, n) : i <= j]
Deb(n)    == {<<u, f>> : u \in Source, f \in Listed(n).filename} \cap DOMAIN Debs

\* A directory that is there stays, a file is written over what was there.
Insert(f, key, value) == [q \in DOMAIN f \cup {key} |-> IF q = key THEN value ELSE f[q]]
CreateDir == dirs' = (IF Current \in DOMAIN dirs THEN dirs ELSE Insert(dirs, Current, Empty))

Fail == pc' = "failed" /\ UNCHANGED <<k, rest, dirs, scripts, installed>>

\* Fault: a package without a file name is passed over.
DownloadPasses ==
    /\ pc = "download"
    /\ \/ /\ Listed(Current).filename = {} /\ pc' = "configure"
          /\ CreateDir /\ UNCHANGED <<k, rest, scripts, installed>>
       \/ /\ \E d \in Deb(Current) : rest' = Debs[d] /\ pc' = "unpack"
          /\ CreateDir /\ UNCHANGED <<k, scripts, installed>>
\* No file name, no source, nothing at the URL or a damaged package end the
\* call; in the last case the directory is there already.
Download ==
    /\ pc = "download"
    /\ \/ Fail
       \/ /\ \E d \in Deb(Current) : rest' = Debs[d] /\ pc' = "unpack"
          /\ CreateDir /\ UNCHANGED <<k, scripts, installed>>

(***************************************************************************)
(* An entry of data.tar.  A link replaces what was there; a file is opened *)
(* and truncated, through a link if one was there.  Hard links and all     *)
(* other entries are passed over without an error, and so is a link that   *)
(* names nothing.  What is written outside the directory no call reads: it *)
(* is not in the state.                                                    *)
(***************************************************************************)
Target(dir, e) ==
    IF e.link # {} THEN e.path
    ELSE IF e.path \in DOMAIN dir THEN CHOOSE p \in dir[e.path].link \cup {e.path} :
                                            dir[e.path].link # {} => p # e.path
    ELSE e.path
Unpacked(d, e)    == [deb |-> d, of |-> e.path, link |-> e.link]
IsWritten(e)      == e.type = "file" \/ e.link # {}

\* Fault: what is there is kept.
ExtractNew(dir, d, e) ==
    IF IsWritten(e) /\ Target(dir, e) \notin Beyond \cup DOMAIN dir
    THEN Insert(dir, Target(dir, e), Unpacked(d, e)) ELSE dir
Extract(dir, d, e) ==
    IF IsWritten(e) /\ Target(dir, e) \notin Beyond
    THEN Insert(dir, Target(dir, e), Unpacked(d, e)) ELSE dir

Unpack ==
    /\ pc = "unpack"
    /\ \/ /\ rest = Empty /\ pc' = "configure" /\ UNCHANGED <<k, rest, dirs, scripts, installed>>
       \/ /\ rest # Empty /\ rest' = Tail(rest)
          /\ \E d \in Deb(Current) :
               dirs' = [dirs EXCEPT ![Current] = Extract(@, d, Head(rest))]
          /\ UNCHANGED <<pc, k, scripts, installed>>
       \/ rest # Empty /\ Fail

\* The postinst runs if the directory has a DEBIAN, whatever brought it
\* there; its outcome is only logged.
Configure ==
    /\ pc = "configure"
    /\ scripts' = (IF PostInst \in DOMAIN dirs[Current]
                   THEN scripts \cup {<<Current, dirs[Current][PostInst].deb>>} ELSE scripts)
    /\ installed' = Append(installed, Current)
    /\ k' = (IF k < Len(plan) THEN k + 1 ELSE k)
    /\ pc' = (IF k < Len(plan) THEN "download" ELSE "done")
    /\ UNCHANGED <<rest, dirs>>

Carry == /\ Download \/ Unpack \/ Configure
         /\ UNCHANGED <<torn, index, asked, plan, calls, before>>

InstallNext == Resolve \/ Carry \/ \E r \in Requests : Load(r)
InstallSpec == InstallInit /\ [][InstallNext]_installVars

-----------------------------------------------------------------------------
Returned == pc = "done" /\ ~asked.dryRun
OneEach  == \A i, j \in DOMAIN index : index[i].name = index[j].name => i = j

(***************************************************************************)
(* A call that returns Ok has, for each package of the plan, every regular *)
(* file and every link of the archive it downloaded in the directory of    *)
(* the package, and over nothing else: hard links and entries of any other *)
(* type are not there, nor is what their path leads out of it, and what an *)
(* older version or a call that failed left at their paths and elsewhere   *)
(* stays (lines 348-352).  A file at the path of an older link goes        *)
(* through it; there this says nothing.                                    *)
(***************************************************************************)
Stays(e) == IsWritten(e) /\ e.path \notin Beyond
Old(n)   == IF n \in DOMAIN before THEN before[n] ELSE Empty
UnpackedWhole ==
    Returned => \A i \in DOMAIN plan : \A d \in Deb(plan[i].name) :
        LET dir   == dirs[plan[i].name]
            old   == Old(plan[i].name)
            put   == {e \in ToSet(Debs[d]) : Stays(e)}
            paths == {e.path : e \in put}
        IN (\A e \in put : e.link = {} /\ e.path \in DOMAIN old => old[e.path].link = {})
           => /\ DOMAIN dir = DOMAIN old \cup paths
              /\ \A e \in put : dir[e.path] = Unpacked(d, e)
              /\ \A p \in DOMAIN old \ paths : dir[p] = old[p]

(***************************************************************************)
(* A call that fails at a package has left the directories of those after  *)
(* it alone, and a dry run every one.                                      *)
(***************************************************************************)
StopsWhereItFails ==
    \A n \in DOMAIN dirs :
        (asked.dryRun \/ (pc = "failed" /\ n \notin {plan[i].name : i \in DOMAIN plan \cap 1..k}))
        => n \in DOMAIN before /\ dirs[n] = before[n]

(***************************************************************************)
(* A call that returns Ok has installed packages as an archive lists them, *)
(* never one whose entry lost its relations with the end of a cached file, *)
(* and while every package is in the indices once what was installed meets *)
(* the dependencies of all of it.                                          *)
(***************************************************************************)
InstalledIsClosed ==
    Returned => \A n \in ToSet(installed) :
        /\ \E f \in ToSet(Indices) : Listed(n) \in ToSet(f)
        /\ OneEach => \A g \in Listed(n).depends :
              \E i \in DOMAIN g : \E o \in ToSet(installed) : Fits(Listed(o), g[i])

(***************************************************************************)
(* "downloads each .deb, extracts it, and runs the postinst maintainer     *)
(* script": of every package installed that has one.                       *)
(***************************************************************************)
PostinstRuns ==
    Returned => \A i \in DOMAIN installed : \A d \in Deb(installed[i]) \cap Scripted :
                    <<installed[i], d>> \in scripts
=============================================================================
