# A verification development for tpt-deb-toolkit

TLA+ models of the parts of the toolkit whose behaviour is hard to test, runs
of the TLC model checker on small instances, and theorems about the models
checked by the TLAPS proof system. Paths are relative to the repository.

## 1. The system

The toolkit is a workspace of fourteen crates (README.md of the repository).

| part | crate | state it keeps | operations | talks to |
|---|---|---|---|---|
| CDCL solver | tpt-l-apt-solver | clauses, assignment, reasons, levels, trail, propagation queue | search: seed, assume, propagate, analyze, backjump, learn, decide | called by the resolver, once per phase and candidate |
| resolver | tpt-l-apt-solver | working universe, pins, kept selection, pulled-in recommendations | resolve_with_installed | universe from the index, plan to install |
| status database | tpt-l-dpkg-db | records in memory behind an RwLock; the status file | open, find, apply_changes, write_atomic | file system, several threads |
| triggers | tpt-l-dpkg-triggers | interests, pending triggers; a directory of files | interest, activate, process, save_dir, load_dir | file system |
| versions | tpt-l-deb-version | none | parse, compare, satisfies | solver, plan |
| transport | tpt-l-apt-transport | partial downloads | fetch with retries, mirrors, resume, fetch_index, fetch_release | HTTP servers |
| PDiff | tpt-l-apt-transport | none | resolve_chain, apply_rdiff_delta, fetch_pdiff | transport, cache |
| command line tool | tpt-l-apt-cli | cache of indices, unpack directory | update, install, search, show, list | all of the above |
| sandbox | tpt-l-linux-sandbox-rs | a tree of processes in namespaces | run | kernel |
| maintainer scripts | tpt-l-maintainer-scripts | none | plan, execute | sandbox |
| keyring | tpt-l-apt-keyring | certificates, keyring file | import, remove, save, verify | OpenPGP library |
| archives, control files, sources lists, configuration, package diff | tpt-l-deb-format, tpt-l-control-file, tpt-l-sources-list, tpt-l-apt-config, tpt-l-deb-diff | none | parse, compare | file system |

What is hard here:

* The solver is a state machine with a dozen coupled structures; its errors
  need several conflicts in one particular decision order.
* The resolver makes a chain of solver calls, each constrained by the answer
  of the one before; answers depend on thread timing.
* The status database persists outside the exclusive lock, writes can fail
  and the process can stop between the change in memory and the file.
* The trigger directory is written as several files.
* update and install go through networks, caches and scripts that fail half
  way.

What makes each part correct: the solver answers sat only with a model and
unsat only if there is none; the resolver returns a consistent selection that
honours pins, installed packages and recommendations; the status file is
always a state the database was in, holds what was acknowledged and never goes
back; a pending trigger is neither lost nor handled twice; an update leaves
whole, verified indices; an installation follows the plan.

## 2. The plan

1. `Cnf`, `SatOracle`, `CdclSolver`: the solver, and that it implements an
   oracle. *Done*, with every safety property of the runs and the refinement
   proved.
2. `Universe`, `Resolver`: the encoding and the phases, over the solver as an
   oracle. *Done*; that the encoding is exact and what each phase promises is
   proved.
3. `StatusDb`, `ConcurrentStatusDb`, `TriggerDb`: locks, failures and
   restarts. *Done*; that the status file and the trigger directory are whole
   and durable is proved.
4. `AptUpdate` over `Pdiff` and `Rdiff`: update over Release files, diffs and
   the cache, with failing fetches and stops. *Done*; what an update leaves,
   done or failed, is proved, and that chains of diffs are shortest.
5. `Transport`: retries, mirrors, resumed downloads. *Done*; what is on the
   disk and what a fetch answers is proved.
6. `AptInstall`: from the plan to unpacked and configured packages. *Done*; that
   packages are whole, closed under dependencies and left alone after a
   failure is proved.
7. `Sandbox`, `Seccomp`, `MaintainerScripts`: the tree of processes a script
   runs in. *Done*; that the command is restricted and that a success is one is
   proved.
8. `Version`, `ControlFile`, `SourcesList`, `AptConfig`, `DebArchive`,
   `DebDiff`, `Keyring`: the readers, each against a reference definition, in
   one run. *Done*; what is stated of the filter, of the keyring, of package
   diffs and deltas, of archives, of versions and of control files is proved.
9. Left: proofs about the readers of sources lists and configuration; two
   processes on one keyring file.

## 3. The modules

### Cnf, SatOracle

Literals, clauses, formulas and what a model of them is. A clause is a set of
literals: no builder in the code produces a duplicate. `SatOracle` is the
promise a call makes: it answers once, and sat comes with a model of the
clauses and the assumptions. It says nothing of unsat, because the code does
not keep that half (see finding 1).

### CdclSolver

One call of `Solver::search`. The variables are the fields of `Solver` by
their names (`trailLim` is `trail_lim`, `propQueue` is `prop_queue`); `reason`
0 stands for `None`. `cursor` and `pc` say where in the loops the code is and
`analysis` holds the locals of `analyze`.

| action | code |
|---|---|
| `SeedUnit`, `SeedDone` | the first two loops of search: unit clauses are assigned in order without looking at one another |
| `Assume`, `AssumeDone` | the assumption loop; a false assumption ends the call |
| `Visit(i)` | one turn of the inner loop of propagate, for the next clause that contains the negation of the queue's head; a falsified clause leaves the rest of the queue behind |
| `PopHead` | the head has no clause left |
| `Resolve(i)` | one turn of the outer loop of analyze: mark, walk back to trail position i, go on with the reason |
| `Learn(i)` | the walk ends at i; cancel_until, add_clause, assign and enqueue, as search does them |
| `Decide(v)` | pick_var and the decision |
| `Satisfied` | everything is assigned |

Abstracted: the activities, their decay and the seed only order the
decisions, and `Decide` takes any unassigned variable, so a run covers every
seed and therefore every worker of solve_parallel. Watch lists hold every
clause of a variable, so a visit goes through the clauses in index order.

### Universe, Resolver

`Universe` holds packages, `Matching` (matching_package_indices),
`BestSatisfying` (best_satisfying) and `Encode` (encode_clauses); and, said of
the packages and not of the clauses, what a `Consistent` selection is. Names
are model values, versions numbers, a constraint is the set of versions that
satisfy it. Pre-Depends are encoded as Depends and Breaks as Conflicts, so a
package has one field for each pair.

`Resolver` is one call of `resolve_with_installed`. Each of its solver calls is
one step that answers as the oracle does, with any model, so this module
composes with the solver through `SatOracle`: what a search returns depends on
the seeds and on which thread of solve_parallel is first. A session has a flag
`doubtful`: when it is set the solver may answer unsat to a satisfiable call,
as finding 1 shows that it can. The properties that need right answers say so.

| action | code |
|---|---|
| `CheckRequests` | the loop over unknown names |
| `NextRequest`, `Pin(c)` | the pin loop: versions from the newest, with the earlier pins as assumptions |
| `FirstSelection` | solve_parallel; the solver of a pin is solved already |
| `Keep(k)`, `KeepDone` | the keep-set loop |
| `Recommend`, `RecommendDone` | one Recommends group; after a success the loop starts over |
| `Minimise(v)`, `MinimiseDone` | the loop over the copy of the model |

`PlanInstall` and `PlanRemove` are the plan, `recommended` is what its list of
that name is made from. The early return for an empty universe is left out:
without packages and requests the phases give the same empty plan.

### StatusDb, ConcurrentStatusDb

`StatusDb` holds the records and what open (`Parsed`), write_atomic (`Written`)
and one change (`Changed`: `Upserted` or `Removed`) do to them. A record is a
name, an architecture and one value for version and status: with two records
of one name an upsert takes the first and a removal both, as the code does. A
stanza without a name or a readable status is `wellFormed = FALSE`; open skips
it. The other fields of a stanza are left out.

`ConcurrentStatusDb` is the lock and the threads around it. `file` and `db`
are the file and the database behind the lock, `writing` and `guards` the two
sides of the RwLock, `pc` where each call is; `log`, `made`, `tempMade`,
`saved` and `base` are history that the properties need.

| action | code |
|---|---|
| `LockWrite`, `ApplyChange`, `UnlockWrite` | the scope of the exclusive lock in apply_changes, change by change |
| `LockRead`, `WriteTemp`, `Persist` | `self.read().write_atomic(path)`: the guard lives to the end of the call, the temporary file is written and synced, then renamed |
| `Fail` | any error of write_atomic; the change in memory stays |
| `TakeGuard`, `DropGuard` | read, for as long as the caller keeps the guard |
| `Restart` | the process stops and another one opens the file |

All calls name the same path. A panic of a caller while it writes would poison
the lock; nothing inside the lock panics.

### TriggerDb

Programs that run one after another over one directory. `interests` and
`pending` are the fields of `TriggerDb`; `lines` and `malformed` are the
Interests file, `files` the pending files. save_dir is `StartSave`,
`WriteInterests`, one `WritePending(p)` for each pending package in any order
(a hash map's) and `EndSave`. `Interrupt` is an error or a stop between two
files; `CutInterests` and `CutPending(p)` are an error or a stop within one,
which leave a part of it, since std::fs::write truncates and then fills. The
last line of that part may be the beginning of a name, and the beginning of a
name may be a name too: `Beginnings` says of each what its line may read as, and
in the instance one name begins another.
`Load` is load_dir, `LoadFails` its two errors. The history `lastSave`
and `processed` say what the last save that returned Ok held and what was done
since, `cutLines` and `cutFiles` which files were ever cut short.

### Pdiff, Rdiff, AptUpdate

`AptUpdate` is `Apt::update` over every enabled binary source and its
components. A revision stands for the bytes of an index and for their hash;
`rev` and `diffs` are what each archive publishes now and `cache` is the
directory of indices. `Pdiff` has `resolve_chain` (its breadth-first search)
and `PackagesSha256` (the line of the Release file an index is compared with);
`Rdiff` has the delta format in both directions, checked by itself.

| action | code |
|---|---|
| `Publish(o)` | the archive: a new index, with a new set of diffs |
| `Begin` | update starts with a cache of any age |
| `FetchRelease` | the loop over the entries, which fetches and parses one Release file for each; an entry that is disabled or of sources is passed over (`IsActive`) and leaves no work |
| `Obtain` | one step towards the index of a component: `ChooseFull`, `ChooseCached`, then `FetchDiffIndex`, `FetchPatch` one by one with the hash check after each, or the fallback `FetchFull` |
| `Truncate`, `Write` | std::fs::write, which truncates and then fills |
| `Stop` | the process ends anywhere, a file it was writing included |

The cache file of an index is named by `url_slug`, an external function of the
instance (`Host`): it drops the scheme and maps `/` and `:` to `_`, so that two
addresses can share a name. The instance has none that do; `DoneIsFresh` is not
true of two that do.

### Transport

The client of tpt-l-apt-transport with its server. `world` is what each URL
offers and changes with `Publish`; `tries` counts the attempts at `url`; `dest`
is the file on disk in chunks. `Begin(k)` starts a fetch of an index (three
URLs), of a Release file (two), of a list of mirrors, of bytes or a range, or a
download. `Attempt` is one request of a fetch with whatever answer the server
or the network gives: a retry, the next URL, or the end (`MovesOn`, `GiveUp`).
An index is decompressed by the extension of its URL: of a damaged one the
compressed URLs give an error, while the bytes of the plain one, the last of
the three, are passed on as they are (`IsCompressed`). `Request`, `Download`,
`Resume`, `Respond` and `Receive` are a download: the status decides whether
the file is emptied or continued, chunks arrive one by one, and the connection
can end after any of them.

Two things the code does are left out of `OnDiskIsPrefix` by the history
variable `mixed`, since they put other bytes on the disk in every run: a
resume after the server replaced the file glues two versions together, and any
answer to a resume that is not 206, a 416 or a 404 with its page included,
overwrites the file and counts as success.

### AptInstall

One or more calls of `Apt::install`. `Load` is load_index, which reads every
file of the cache (`Torn`: one that was cut short yields the stanzas before
the cut, perhaps with one that lost its last fields); `Resolve` is the
resolver as `Universe` specifies it, any consistent selection (`Planned`: in the
order of the index); `Download`, `Unpack` and `Configure` are the loop
over the plan, one entry of the payload at a time. `Extract` is an entry of
extract_data_tar: a regular file is written through a link that is in the way,
as the file system does, a link replaces what is there, and hard links,
directories, devices and links that name nothing are passed over without an
error (`IsWritten`). Absolute paths and those with `..` that leave the directory
of the package are in `Beyond`: they are written elsewhere, where no call reads
them. Install takes the first index entry
of a name and the first enabled source for every package, ignores the status
database, never cleans the unpack directory and passes over the outcome of a
script; the model does the same.

### Sandbox, Seccomp, MaintainerScripts

`Sandbox` is `Sandbox::run`: the caller forks a middle process, which unshares
the namespaces, maps the ids and forks the child, which mounts, installs the
filter and executes the command. Each process is a program counter (`caller`,
`middle`, `child`); `pipe` carries the tag of the step that failed, `status`
the exit statuses waitpid reads. What may fail are both forks, unshare, each
mount, the filter and the exec, the start of a command without restrictions,
and the wait of the caller, which goes on after EINTR and otherwise returns an
error while its processes run on (`WaitMiddle`). The command may be removed
between the plan and its execution (`Remove`), each process may be killed
(`Kill`), and the wait of the middle process, which is not in a loop, may be
interrupted (`WaitInterrupted`). `MaintainerScripts` is plan and execute on top
of it, with the environment of the script. Failures to write the id maps are
only logged, so `MapIds` has no error path; the pipe is taken to carry what is
written to it.

`Seccomp` is `build_program` and the kernel's machine for it. The number of a
rule, an i64, and the value it asks for, a u64, are cut to their lower halves
when the program is built (`Low`), and the machine loads the lower half of an
argument.

| action | code |
|---|---|
| `Run`, `RunDirectEnds` | run_impl, run_direct for a configuration without restrictions |
| `Unshare`, `MapIds`, `ForkChild`, `WaitChild` | the middle process |
| `MakePrivate`, `BindMount`, `Remount`, `InstallSeccomp`, `Exec`, `Command` | the child |
| `WaitMiddle`, `ReadTag` | the caller |
| `Plan`, `Execute`, `Conclude` | ScriptRunner |

### The readers

Pure functions, evaluated on every input of a small grammar by `MCFormats`,
whose one action from the initial state picks a reader (`part`) and an input.
Each module states what its reader is for, apart from how it goes about it. The
modules that theorems are about (`Seccomp`, `Keyring`, `Differences`,
`DebArchive`, `Version`, `ControlFile`) stand on `Reader`: their inputs are
constants, a step is `Take` of one of them, and each has a specification of its
own in which every other reader is a step `Elsewhere`. So a theorem about one
of them holds of the run over all. The others are instances in `MCFormats`.

| module | models | stated of it |
|---|---|---|
| `Version` | parse, Display, deb_str_cmp with numbers that wrap, cmp, satisfies | `OrderIsPolicy`: the order is the one of Debian policy, by runs of other characters and of digits (`Key`); a constraint takes the versions before, at or after its own in that order; Display and parse agree |
| `ControlFile` | the owned, strict and borrowed paragraphs, the two index readers, one-stanza files | a stanza is its fields, each spelt by its last line and the indented lines after it (`SpeltFrom`); the readers agree |
| `SourcesList` | both formats, read and written, values of several lines (`Break`) included, the files of a directory | entries come back, except that a list with an option of several lines cannot be read again; the active ones are those not commented out |
| `AptConfig` | parser, scopes, appended lists, includes, merge | nested and scoped syntax mean the same; includes add what their files hold, to a depth of `MaxDepth` |
| `DebArchive` | the streaming ar reader with its positions, metadata, extract | members stay aligned however little of one is read; a cut is noticed; what is extracted is what is listed |
| `DebDiff`, `Rdiff`, under `Differences` | compare; encode and apply of deltas | the report, or the delta, makes the new from the old |
| `Keyring` | load, import, remove, add_to_keyring_file, verify | keys that were added stay; a verdict does not depend on the order of keys |
| `Seccomp` | build_program | a call that a rule names is allowed, and no other that differs from it in a lower half; all others meet the action of the profile |

Where a reference holds only in part, the module says so at the property: for
instance a block of digits beyond u64, which panics in one build and wraps in
another, a truncated archive whose cut is before data.tar, which is accepted
without payload, or a keyring emptied by removals, which can be saved but not
loaded.

## 4. The runs

| run | instance | states | shows |
|---|---|---|---|
| CdclSmall | 3 variables, every choice of 4 clauses of 2 or 3 literals, formulas with units, 4 assumption lists; fair | 476 000 | types, sat answers are models, assumptions stay forced, propagation complete at every decision, analysis stays on the trail, unsat right if learning was, every call returns |
| CdclDeep | 6 variables, 2 formulas | | conflicts several levels deep; backjumps gain; refinement of the oracle |
| CdclLost | 3 variables, 1 formula | | violation: finding 1 |
| ResolvePlan | 5 candidates; calls with any model, and doubtful ones; fair | 147 000 | consistent plans, right errors, newest versions, maximal keep set, nothing wanted is dropped, every call ends |
| StatusDbTwo | 2 writers, 1 reader, 4 batches, 3 files, failures, 1 restart; fair | | the file and what guards see are whole batches, what was acknowledged stays, the file never goes back, every call returns |
| TriggerSave | 2 packages, 2 names of which one begins the other, 4 registrations, 2 saves, files cut short | 400 000 | what was saved comes back; interests and pending files agree, and nothing is pending twice unless a file was cut |
| Update | 2 archives, one of them listed twice, a source entry and a disabled one, one archive without InRelease; 2 publications, 2 updates, 1 stop; fair | 164 000 | an update that is done left every index as new as the Release file it read; one that failed replaced exactly those before the failure; shortest chains; every update returns |
| Transport | 1 retry, 2 chunks, 1 change of the server, 3 calls | 238 000 | fetches answer what a mirror offered and fail only if none could; downloads are prefixes |
| Install | 2 packages, each in two versions, 2 index files, archives that are broken, have links, hard links or paths that lead out of the directory, 2 calls | 184 000 | what extraction writes is there as a whole, over what was there, and nothing else; the call stops where it fails; what is installed is closed under dependencies |
| Scripts | 3 lists of mounts with every choice of network and filter, 3 exit codes, 2 signals; fair | 7 600 | the command runs restricted, success is real, every script returns |
| Formats | every reader over a small grammar | 158 000 | the table of the readers above |
| InstallPostinst | as Install | | violation: finding 2 |

Bounds. Three variables and four clauses are the smallest instance in which a
conflict above level 1 happens with a literal of an earlier level in the
learnt clause; six variables add backjumps over several levels. Five
candidates give two versions of one name, a dependency with an alternative, a
virtual package with a provider that conflicts with it, and one installed
package. Two writers are what it takes for two temporary files at once or a
save between another's change and save; the batches have none, one and two
changes, so that one is half made, and name a package with two records. One
restart (`MaxRestarts`) separates two processes. Two calls of save_dir
(`MaxSaves`) give a complete save and a later one that stops at any file, with
any number of stops and loads; a file is cut short once at most.

Two publications (`MaxPublish`) make three revisions: a cached one, one that is
reached over a chain of two diffs or one, and one that appears while the update
runs. Two updates (`MaxUpdates`) with a stop (`MaxStops`) let the second find
what the first left half written. One retry has a first and a last attempt at
each URL, two chunks a download that ends in the middle, three calls
(`MaxCalls`) a download, a resume and a resume of that, with a publication
(`MaxChanges`) anywhere. Two calls of install let the second unpack over the
first. Two signals (`MaxSignals`) kill two processes of the tree of three or
one process and interrupt a wait. The grammars of `Formats` have strings of
three or four characters, four lines, five words or three members: enough for
every pair of neighbours that a reader treats in a special way. Radix 4 and
numbers of two bytes stand for 256 and four in `Rdiff`, and words are small
enough for numbers to wrap in `Version` and for arguments to have two halves
in `Seccomp`.

Fairness. `FairSpec` of the solver and the resolver, and `UpdateSpec`, are weak
fairness of the step of the call, not of the environment: the calls are
sequential code, and their only assumption is that the thread runs (every
request of update ends, since a failing one is an answer). In
`ConcurrentStatusDb` it is weak fairness of the threads' steps together, not of
each, and not of a restart: some thread that can run runs. Each makes one
call, so this is enough, and no fairness of the lock is assumed. `ScriptSpec`
is weak fairness of each of the three processes, as the kernel schedules them,
and of the two steps of the runner; nothing is assumed of signals. `Transport`
states no liveness: the number of attempts is part of its safety properties.

Deadlock is checked for the solver and the resolver: a call that has returned
stutters. It is not for the others, where the calls, publications and stops
are bounded and the last has nothing after it; that no thread and no process
waits for ever is `AllReturn` and `ScriptReturns`.

## 5. Findings

1. `analyze` pushes the negation of a literal of an earlier level, so a learnt
   clause need not follow from the formula, and a satisfiable formula can be
   answered unsat (CdclLost). The resolver then takes an older version or
   reports that there is no solution.
2. install looks for a postinst at DEBIAN/postinst of the unpacked payload,
   where extract never puts it: the script is a member of control.tar, so no
   postinst runs (InstallPostinst).

Plain disagreements of a doc or comment with the code, which the models follow
and no run is spent on. Each shows in one call or a few in a row:

* Solver and resolver: `best_satisfying` returns the lowest version, its doc
  says the highest; the comment on `path_c` in `analyze` does not count the
  resolved variable that its reason clause marks again; minimising can leave an
  unneeded package in the plan, since one that a later model brings in is not
  tried (comment at lib.rs:826); `recommended` lists versions that a later
  phase replaced (lib.rs:1055); an installed package can be removed for an
  unneeded one (lib.rs:850, comment 759).
* Status and triggers: `StatusDb::apply_changes` does not write the file; a
  processed trigger is pending again after save_dir and load_dir, because its
  file stays (tpt-l-dpkg-triggers lib.rs:196, doc 179). A pending file that is
  cut after "a\na" where "a\nab" was pending is loaded with a twice.
* Transport: a damaged plain Packages is no error of `fetch_index`
  (tpt-l-apt-transport lib.rs:442), and a damaged compressed one is an error
  although the plain one may be whole.
* Install: extraction returns Ok without the hard links of an archive
  (tpt-l-deb-format lib.rs:562).
* Update: `ReleaseIndex::parse` skips to the first blank line, so a plain
  Release file has no hashes (its doc names one) and the index is always
  fetched in full. Install downloads the first index entry of a name, which
  need not be the version of the plan.
* Sandbox: `execute` documents `Err(Signaled)` for a script that dies of a
  signal; in the namespaces it returns Ok with 128 and the signal. An
  interrupted wait of the middle process is reported as exit code 0. The
  comment on other architectures in seccomp.rs is not what the jumps do:
  the jump at instruction 1 lands on the next jump. A rule with an argument is
  documented to ask for a u64 (seccomp.rs:58, `AllowSyscallIfArg`); the program
  asks for its lower half (seccomp.rs:425).
* Readers: the two index readers differ in an indented first line and a
  trailing blank one; a commented entry keeps the words of a trailing comment
  as components; `write_deb822` keeps two of the options, and writes one of
  several lines without indenting them (tpt-l-sources-list lib.rs:361), so that
  a list with a Signed-By of two lines is refused once it was written; a stray
  `}` at the top of a configuration ends the file; deb-diff does not compare
  links and modes; add_to_keyring_file fails for ever on a keyring that
  removals emptied.

## 6. The proofs

All theorems hold for every value of the constants that the named assumptions
allow: any number of variables, formulas, sessions, threads, files, retries,
chunks and mounts.

* `CdclSolverProofs` (`NumVarsAssumption`, `FormulasAssumption`,
  `AssumptionSetsAssumption`: clauses are not empty): `TypeCorrect`, Spec =>
  []TypeOK. Not inductive alone: indices of the trail need `TrailOK` (the
  trail holds the assigned variables and trail_lim cuts it by level) and
  `PhasesOK`. `UnsatIsSoundUpToLearning` rests on `RootIsImplied`: what is
  assigned at level 0 holds in every model of the clauses, so a falsified
  clause there means that the clauses have no model; if the learnt ones follow
  from the formula, the formula has none. The finding is thereby located: the
  learnt clause is the only place where a wrong answer can come from.

  For the other theorems of this module: the code abandons a half-visited
  literal at a conflict and never clears the queue. What makes that right is
  one invariant about every clause, `NoneForgotten`: it is quiet (`QuietAt`: a
  literal is true, or two are open), or a literal of it that became false is
  still queued and the visit of this clause to come (`WillBeVisited`), or it is
  a unit that the seeding has still to reach (`WillBeSeeded`). `QuietBelow`
  says that every clause was quiet at each level below the current one, which
  is the state a backjump returns to. From them follow `DecidesAtFixpoint`,
  `SatAnswersAreModels` and, with `AssumedSoFar`, `AssumptionsStayForced`. For
  the analysis, the clause behind an assignment above level 0 has a literal
  assigned earlier at the same level (`ReasonReachesBack`), and so has the
  clause being resolved (`AnalysisReachesBack`), which gives
  `AnalysisFindsItsWay` (the walk does not run off the trail, path_c does not
  underflow) and `BackjumpsGain`. `SearchImplementsOracle` is the refinement:
  every step is a step of `SatOracle` or leaves its variables alone.
* `ResolverProofs` (`SessionsAssumption`: every candidate is a variable):
  `EncodingIsExact` says that the clauses of encode_clauses are satisfied by
  exactly the consistent sets of candidates, one lemma for each of their four
  parts. Over it, `SelectionsAreConsistent`, `NoSolutionIsTrue`,
  `KeptAreMaximal` and `DropsAreUnwanted` follow from `ResolverInv`: the
  clauses stay those of the call, a selection solves them from the first pin
  on (`SelectionSolves`), and what the keep phase has passed by does not go
  with the selection (`KeepTried`), which is inductive because the selection
  only grows until minimising starts. `NewestIsSelected` rests on `PinInv`: every
  version of a request that was handled, or passed over so far, is reached by a
  pin of its name, or it does not go with the pins of the requests before
  (`IsSettled`); pins are only added, so what did not go with them never will.
  The theorems take the answers of the solver as
  `SatOracle` does: sat with a model, which
  `SearchImplementsOracle` proves of it.
* `StatusDbProofs` (`ThreadsAssumption`): `AcknowledgedCallsAreSaved`,
  `FileNeverGoesBackHolds` and `BatchesAreWhole`. The save is outside the
  exclusive lock; what makes it right is `GuardExcludesWriter` and
  `TempIsCurrent`: as long as a thread holds its guard no batch is added, so
  that a temporary file holds the whole log until it is renamed. For
  `BatchesAreWhole` the invariant `WholeInv` says what the database, each
  temporary file and the file are made of: the log replayed over what was
  opened, and the writer's batch up to the change it is at. That replaying a
  log with one more batch is one more batch on what the log gives, and that the
  parser returns what was written, are lemmas by induction over the sequence.

  `VersionsAreOrderedAndRead` and `CmpIsTotalOrder` (`VersionAssumption`: the
  codes are ASCII as far as they are looked at) are about the versions of
  those packages. deb_str_cmp walks two strings at once and the policy
  compares two keys made of one string each; `WalkedTo` ties them together:
  after every turn the walk stands at places of the two strings that the same
  number of key entries lies before (`Aligned`), entries which agree, or it
  has found the order of the keys. A turn moves on by a character at least
  (`TurnWalks`), so it ends. The keys of two strings, continued by zeros,
  differ first at one entry, from which antisymmetry and transitivity follow.
  All of this asks that numbers fit into 64 bits (`Fits`), as the property
  does: with numbers that wrap the order is not the one of the policy. For
  Display and parse, an epoch in decimal spells that epoch (`DecimalSpells`),
  the first colon is the one after it and the last dash the one before the
  revision. Versions such as 1.0 and 1.00 compare as equal and are not equal
  for the derived `Eq`, which none of this is about.

  `ControlFilesAreRead` (`ControlAssumption`: a line has at most one key) goes
  line by line: `ReadUpTo` says what the paragraph, the current field and the
  value of each field are after k lines, in terms of where fields start and of
  which indented lines belong to them. A value is as long as these are many and
  has each at its place among them, so that nothing is lost, invented or out of
  order. Reading strictly is the same up to the first key that repeats
  (`StrictlyRead`), reading what is between empty lines untrimmed is the same
  unless trim takes an indent or a last line (`TrimmedRead`). The comparison
  with the index of sources is about the trimmed stanza: an indented first line
  that reads Source: is no field for parse_packages_index and is one for the
  others.
* `TriggerDbProofs` (`TriggersAssumption`): `SavesAreRestored` and
  `PendingAreInteresting`. A save replaces several files one after another;
  what makes it safe at each of them is that the interests are written first
  and only grow (`LinesAreKnown`, `FilesHaveLines`), that the directory holds
  what the last complete save held whatever a later one has replaced
  (`SavedIsOnDisk`), and that a file written in this save is what is pending
  (`SaveIsUnderWay`). What is pending is a name or what a cut
  line reads as (`Words`); that something is pending twice, or is no trigger of
  its package, comes only of a file that was cut.

  `ArchivesAreRead` is about archives of any members (`ArchiveAssumption`: they
  are sequences). `ArchiveIsLaid` says at which positions the header, the body
  and the pad of each member are. Over that, `ReadsMembers` follows the reader
  turn by turn: after k turns it is at the header of the next member and has
  shown k entries, whatever was read of each. For an archive that is cut, the
  reader does the same up to the member the cut is in, and stops there with a
  part of it or nothing (`CutBetween`, `CutInside`, `ReadsCut`). A compressed
  member of which a part is missing is refused (`DecompressedIsWhole`), so what
  parse collects (`Collected`: the last member of each name) is of whole
  members. `TarExtracted` carries along that the directory holds a file or a
  link exactly where the entries so far have one of that type.
* `AptUpdateProofs` (`UpdateAssumption`): `UpdatesAreFresh` and
  `FailuresArePrefixes`, both for every world in which no two indices go to one
  file (`OneIndexPerFile`), a hypothesis of the theorems because `url_slug`
  does not see to it. `FreshInv` says of each Release what it lists
  (`ReleasesTell`: revisions published since the call began, which are at least
  what the hash check accepts) and that a later one of the same archive lists
  no older ones (`ReleasesAscend`; without it an archive that is listed twice
  could have its index put back); the bytes about to be written are as new as
  all of that (`BytesAreFresh`), the items before are done (`FreshBefore`) and
  those after untouched (`LeftAlone`). `ReleaseYields` (the parser finds the
  hash a Release was made with) and `WorkFacts` (the list of the work, entry by
  entry) are inductions over their loops. `ChainsAreShortest` is about
  `ResolveChain` alone, for every index of diffs: the proof carries along for
  each revision the search has seen the chain that `via` tells of
  (`AreChains`). The queue is ascending by the length of those chains and spans
  two lengths (`Ascends`), and what left it was followed (`IsFollowed`), so
  that when the search ends whatever can be reached in fewer steps than the
  head was seen (`NearIsSeen`). `TurnsAreEnough` counts the turns the model
  gives the loop, one for each diff and one more: each revision seen but the
  first has a diff of its own. `WalkFindsChain` is the walk back from the
  target. `ChainsOfUpdateAreShortest` is the same of the indices that archives
  publish, in every state of an update, and needs no condition on files.
* `AptInstallProofs` (`InstallAssumption`: types, one Filename and one source).
  A plan holds at each position an entry of the index, in its order, each
  selected one once (`PlanFacts`, by induction over the index), so its names
  differ (`OnePerName`) and it is closed (`PlanIsClosed`).
  `InstallStopsWhereItFails` is what `LeftAlone` says of the directories of
  names the loop has not come to, `WritesToCurrent` why a step keeps it.
  `InstalledAreClosed` rests on what load_index can see (`Listing`: an entry of
  an archive, or one that has lost its Filename, `ReadIsListing`,
  `FlattenedIsListing`) and on `Downloaded`: every package passed had a
  Filename. `InstallsAreWhole` holds of archives with one file or link at each
  path they write (`OneFilePerPath`, a hypothesis of the theorem: tar allows
  more, and the last one wins). It says of the directory what it holds, an
  overlay of the archive on what was there, and so that what extraction passes
  over is not there unless an older version had it. `UnderWay` says in the
  middle of a package which files are in place (`IsUnpacked`), and that each
  link in the directory came with one of them; so the next file is not written
  through a link, nor over one of those before it (`OneMoreFile`).

  `AllDifferencesRebuild` (`RdiffAssumption`: a radix above 1, one to four
  bytes; `DifferenceAssumption`) has two halves. `ReportsRebuild` is about the
  report of two packages. `DeltasAreTheirOps` is about bytes: a number written
  in as many bytes as it needs is read back, and a delta decodes to the
  operations it was encoded from, cut short to those of them that are whole.
* `SandboxProofs` (`SandboxAssumption`): `CommandsAreRestricted` and
  `SuccessesAreReal`. The restrictions are made by two processes in six steps,
  so the invariant says what holds after each: the namespaces from the step
  after unshare (`InNamespaces`), the mounts up to the one the child is at, one
  of them perhaps still writable (`MountsMade`), and everything before the
  command (`ReadyToExec`); `NotBegun` keeps the child from starting before its
  parent is done. For success the invariant is the way the exit code takes
  back, through two wait statuses and a pipe (`MiddleTells`, `ReturnTells`,
  `OutcomeTells`): a code that is passed on is the command's, one of a failed
  step comes with its tag on the pipe.

  `FiltersAreAllowlists` (`FilterAssumption`: a rule is one of the two forms of
  `SeccompRule`, with no argument or with one, a word has a size, and the number
  of a call fits in one) is about the program itself: each rule is laid out in
  instructions of its own, one after another, and the machine leaves it to the
  next rule exactly if it does not match as far as a word tells (`Matches`,
  `FilterAllows`); that it ends does not depend on the architecture. What that
  means for the rules as they are written, with numbers and values of any size,
  is `FilterTells`.
* `TransportProofs` (`TransportAssumption`): `FetchesAreRight`: the invariant
  `FetchInv` says that a URL the fetch is past was asked as often as it may be
  and was left for the reason its kind of fetch allows (`WasLeft`), that at the
  present one the tries are the answers had so far (`FetchGoesOn`), and how it
  ends from there (`FetchEnds`), so a failure has asked every URL it should.
  `DownloadsArePrefixes`. `OneVersion`: there is
  one version such that the chunks on disk are its first and those still to
  come its rest; `DoneIsWhole`: a download that returned Ok left a whole file,
  which a resume then finds.

  `KeyringsAreKept` (`KeyringAssumption`): by induction over a series of
  additions and removals the keyring file holds each certificate as often as
  was added since its last removal; a file that removals emptied cannot be
  added to any more, which the count of successful additions leaves out. The
  verdict is a function of the set of keys (`VerdictIs`), and the files of a
  directory add up to it (`DirectoryIsKeys`).

Only model-checked: the readers of sources lists and configuration. Termination
and the other liveness properties hold under fairness, which is out of the
prover's reach.

What a loop over a sequence computes is proved where a theorem needs it, by
induction over its turns: `Induction` in the modules that do so states the
least element of what is left, since a theorem that takes a predicate as a
parameter cannot be used by the provers. The operators of the community modules
that take an operator (folds, `SelectSeq`) and the function operators `@@` and
`:>` are opaque to them, so the modules under a theorem spell such a loop out
as a recursive function (`Kept`, `ParseRelease`, `Search`, `Planned`,
`BuildProgram`, `Verdict`, `Verify`, `Encoded`, `ApplyRdiffDelta`, `Archive`,
`ReadArchive`, `Extract`, `DebStrCmp`, `Decimal`,
`Untrimmed`, `Read`) and name what inserts into a map (`Insert`). That such a
function exists, and how its values follow from each other, are two lemmas for
each. The readers that are left are written with folds and recursive operators and
stay with TLC.

## 7. Not modelled

* Text and bytes below the level at which the properties tell them apart: the
  lexer and the typed getters of the configuration, the form and validation of a
  URI, the text of relations, the tar and compression formats, the stanza
  fields of the status file other than name, architecture, version and status.
* The status database loses what it does not parse when it rewrites the file,
  and an upsert leaves the relations of the version before. Both are one step
  of code without an order that matters; the hazards list them.
* Of an extraction: entries whose path leads into the directory of another
  package or through a link to a directory, and the file that a failure leaves
  half written. In the sandbox, a pipe that cannot be read or written.
* Cryptography, the kernel, HTTP and the file system, which are external
  actions or verdicts.
* search, show and list of the command line tool and its argument parser,
  which print what load_index returns; the advisory lists of a plan (Suggests).
* Two processes that write one keyring file, and two calls of update at once:
  the code has no lock against either.
