------------------------------ MODULE Resolver ------------------------------
(***************************************************************************)
(* One call of Resolver::resolve_with_installed                            *)
(* (crates/tpt-l-apt-solver/src/lib.rs): a series of calls of the solver   *)
(* over the same clauses, each with its own assumptions, that pins the     *)
(* newest versions of the requests, keeps installed packages, pulls in     *)
(* recommendations and drops what is not needed.                           *)
(*                                                                         *)
(* A call of the solver is one step that answers as SatOracle does, with   *)
(* whichever model.  In the doubtful sessions it may answer unsat to a     *)
(* satisfiable call, as CdclSolver shows it can.                           *)
(***************************************************************************)
EXTENDS Universe

CONSTANT Sessions  \* the universes, installed packages and requests, and
                   \* whether the solver may be wrong about unsat

Installed == [name : Name, version : Version]
Session   == [packages : Seq(Package), installed : Seq(Installed),
              requests : Seq(Name), doubtful : BOOLEAN]

\* Every candidate is a variable of the solver.
ASSUME SessionsAssumption ==
    /\ Sessions \subseteq Session
    /\ \A s \in Sessions : Len(s.packages) + Len(s.installed) = NumVars

VARIABLES session,     \* the arguments of the call
          work,        \* the universe with the installed packages added
          clauses,     \* encode_clauses(work, requests)
          pc,          \* the phase
          request,     \* the request whose versions are being tried
          left,        \* candidates the loop of the phase has not tried yet
          wishes,      \* Recommends groups not looked at yet
          pinned,      \* the versions that were pinned
          selected,    \* the packages the solver's assignment makes true
          recommended  \* recommended_set: (name, version) pairs

vars == <<session, work, clauses, pc, request, left, wishes, pinned,
          selected, recommended>>

Phase == {"check", "pin", "solve", "keep", "recommend", "minimise"}
Ended == {"planned", "unknown", "nosolution"}

-----------------------------------------------------------------------------
(* The solver, over the clauses of the call.                               *)

IsAnswer(assumed, m) == /\ m \subseteq Var
                        /\ \A c \in clauses : Satisfies(m, c)
                        /\ \A l \in assumed : Holds(l, m)
Sat(assumed, m) == IsAnswer(assumed, m)
Unsat(assumed)  == session.doubtful \/ \A m \in SUBSET Var : ~IsAnswer(assumed, m)

Positive(s) == {Pos(i) : i \in s}

-----------------------------------------------------------------------------
(* The installed packages become candidates without any relations.         *)
Bare(p) == [name |-> p.name, version |-> p.version, depends |-> {},
            conflicts |-> {}, provides |-> {}, recommends |-> <<>>]
WithInstalled(s) == s.packages \o [k \in DOMAIN s.installed |-> Bare(s.installed[k])]

\* Fault: the last installed package is left out.
InstalledVarsButLast == {Len(session.packages) + k :
                            k \in 1 .. Len(session.installed) - 1}
InstalledVars == {Len(session.packages) + k : k \in DOMAIN session.installed}

PairOf(i) == [name |-> work[i].name, version |-> work[i].version]

Known(n) == Named(session.packages, n) # {} \/ Providers(session.packages, n) # {}

Init ==
    /\ session \in Sessions
    /\ work = WithInstalled(session)
    /\ clauses = Encode(work, session.requests)
    /\ pc = "check"
    /\ request = 0
    /\ left = {}
    /\ wishes = <<>>
    /\ pinned = {}
    /\ selected = {}
    /\ recommended = {}

\* A request nobody names or provides ends the call; the installed packages
\* do not count.
CheckRequests ==
    /\ pc = "check"
    /\ pc' = IF \A r \in DOMAIN session.requests : Known(session.requests[r])
             THEN "pin" ELSE "unknown"
    /\ UNCHANGED <<session, work, clauses, request, left, wishes, pinned,
                   selected, recommended>>

-----------------------------------------------------------------------------
(* Each request is pinned to its newest version that goes with the pins    *)
(* made so far.                                                            *)

NextRequest ==
    /\ pc = "pin" /\ left = {}
    /\ \/ /\ request < Len(session.requests)
          /\ request' = request + 1
          /\ left' = Named(work, session.requests[request + 1])
          /\ UNCHANGED pc
       \/ /\ request = Len(session.requests)
          /\ pc' = "solve"
          /\ UNCHANGED <<request, left>>
    /\ UNCHANGED <<session, work, clauses, wishes, pinned, selected, recommended>>

\* Fault: the versions are tried from the oldest.
IsOldest(c) == c \in left /\ \A d \in left :
                   \/ work[c].version < work[d].version
                   \/ work[c].version = work[d].version /\ c <= d
\* The candidates are sorted by version, the sort is stable.
IsNewest(c) == c \in left /\ \A d \in left :
                   \/ work[c].version > work[d].version
                   \/ work[c].version = work[d].version /\ c <= d

Pin(c) ==
    /\ pc = "pin"
    /\ IsNewest(c)
    /\ \/ \E m \in SUBSET Var :
            /\ Sat(Positive(pinned \cup {c}), m)
            /\ selected' = m
            /\ pinned' = pinned \cup {c}
            /\ left' = {}
       \/ /\ Unsat(Positive(pinned \cup {c}))
          /\ left' = left \ {c}
          /\ UNCHANGED <<selected, pinned>>
    /\ UNCHANGED <<session, work, clauses, pc, request, wishes, recommended>>

\* solve_parallel starts from the solver of the last pin, which is solved
\* already; without a pin it is the first call.
FirstSelection ==
    /\ pc = "solve"
    /\ \/ /\ pinned # {} /\ pc' = "keep"
          /\ UNCHANGED selected
       \/ \E m \in SUBSET Var :
            /\ pinned = {} /\ Sat({}, m) /\ pc' = "keep"
            /\ selected' = m
       \/ /\ pinned = {} /\ Unsat({}) /\ pc' = "nosolution"
          /\ UNCHANGED selected
    /\ left' = IF pc' = "keep" THEN InstalledVars ELSE {}
    /\ UNCHANGED <<session, work, clauses, request, wishes, pinned, recommended>>

-----------------------------------------------------------------------------
(* Installed packages are kept where the selection allows.                 *)

IsFirst(k) == k \in left /\ \A j \in left : k <= j

Keep(k) ==
    /\ pc = "keep"
    /\ IsFirst(k)
    /\ \/ k \in selected /\ UNCHANGED selected
       \/ \E m \in SUBSET Var :
            /\ k \notin selected
            /\ Sat(Positive(selected \cup {k}), m)
            /\ selected' = m
       \/ /\ k \notin selected /\ Unsat(Positive(selected \cup {k}))
          /\ UNCHANGED selected
    /\ left' = left \ {k}
    /\ UNCHANGED <<session, work, clauses, pc, request, wishes, pinned,
                   recommended>>

-----------------------------------------------------------------------------
(* Recommends are pulled in one at a time; after each the loop over the     *)
(* selected packages starts again.                                          *)

\* The Recommends groups of the selected packages, in index order.
WishesAfter[s \in SUBSET Var, i \in 0 .. NumVars] ==
    IF i = 0 THEN <<>>
    ELSE WishesAfter[s, i - 1] \o (IF i \in s THEN work[i].recommends ELSE <<>>)
WishesOf(s) == WishesAfter[s, NumVars]

KeepDone ==
    /\ pc = "keep" /\ left = {}
    /\ pc' = "recommend"
    /\ wishes' = WishesOf(selected)
    /\ UNCHANGED <<session, work, clauses, request, left, pinned, selected,
                   recommended>>

\* Fault: the packages selected so far are not forced.
ForcedWithout(j) == Positive({j})
ForcedWith(j)    == Positive(selected \cup {j})

Recommend ==
    /\ pc = "recommend" /\ wishes # <<>>
    /\ LET best == BestSatisfying(work, Head(wishes)) IN
         \/ /\ best = {}
            /\ wishes' = Tail(wishes)
            /\ UNCHANGED <<selected, recommended>>
         \/ \E j \in best :
            /\ j \in selected
            /\ recommended' = recommended \cup {PairOf(j)}
            /\ wishes' = Tail(wishes)
            /\ UNCHANGED selected
         \/ \E j \in best, m \in SUBSET Var :
            /\ j \notin selected
            /\ Sat(ForcedWith(j), m)
            /\ recommended' = recommended \cup {PairOf(j)}
            /\ selected' = m
            /\ wishes' = WishesOf(m)
         \/ \E j \in best :
            /\ j \notin selected
            /\ Unsat(ForcedWith(j))
            /\ wishes' = Tail(wishes)
            /\ UNCHANGED <<selected, recommended>>
    /\ UNCHANGED <<session, work, clauses, pc, request, left, pinned>>

RecommendDone ==
    /\ pc = "recommend" /\ wishes = <<>>
    /\ pc' = "minimise"
    /\ left' = selected
    /\ UNCHANGED <<session, work, clauses, request, wishes, pinned, selected,
                   recommended>>

-----------------------------------------------------------------------------
(* What nobody needs is dropped: the packages of the model the phase        *)
(* started from, in index order; one that a later model brings in is not    *)
(* tried.                                                                   *)

\* Fault: what Recommends pulled in may go.
IsEssentialUnlessRecommended(v) ==
    \/ \E r \in DOMAIN session.requests : work[v].name = session.requests[r]
    \/ v \in InstalledVars
IsEssential(v) ==
    \/ \E r \in DOMAIN session.requests : work[v].name = session.requests[r]
    \/ v \in InstalledVars
    \/ PairOf(v) \in recommended

Without(v) == Positive(selected \ {v}) \cup {Neg(v)}

Minimise(v) ==
    /\ pc = "minimise"
    /\ IsFirst(v)
    /\ \/ IsEssential(v) /\ UNCHANGED selected
       \/ \E m \in SUBSET Var :
            /\ ~IsEssential(v)
            /\ Sat(Without(v), m)
            /\ selected' = m
       \/ /\ ~IsEssential(v) /\ Unsat(Without(v))
          /\ UNCHANGED selected
    /\ left' = left \ {v}
    /\ UNCHANGED <<session, work, clauses, pc, request, wishes, pinned,
                   recommended>>

MinimiseDone ==
    /\ pc = "minimise" /\ left = {}
    /\ pc' = "planned"
    /\ UNCHANGED <<session, work, clauses, request, left, wishes, pinned,
                   selected, recommended>>

Returned == pc \in Ended /\ UNCHANGED vars

Step ==
    \/ CheckRequests
    \/ NextRequest
    \/ FirstSelection
    \/ \E v \in Var : Pin(v) \/ Keep(v) \/ Minimise(v)
    \/ KeepDone \/ Recommend \/ RecommendDone
    \/ MinimiseDone

Next == Step \/ Returned

Spec     == Init /\ [][Next]_vars
FairSpec == Spec /\ WF_vars(Step)

-----------------------------------------------------------------------------
(* The plan. *)

InstalledPairs == {session.installed[k] : k \in DOMAIN session.installed}
SelectedPairs  == {PairOf(i) : i \in selected}
PlanInstall    == SelectedPairs \ InstalledPairs
PlanRemove     == InstalledPairs \ SelectedPairs

-----------------------------------------------------------------------------
(* Correctness. *)

IsConsistent(m) == Consistent(work, session.requests, m)
Solved == pc \in {"keep", "recommend", "minimise", "planned"}
Wanted(i) == \/ \E r \in DOMAIN session.requests :
                   work[i].name = session.requests[r]
             \/ i > Len(session.packages)
             \/ PairOf(i) \in recommended

\* From the first answer on, through keeping, recommending and dropping, the
\* selection is one a package manager may install: it meets the requests,
\* has one version of each name, has the dependencies of every package and no
\* conflict.  It is said of the packages, not of the clauses.  And the plan
\* leaves exactly that: what was installed, less what it removes, with what
\* it installs (lines 859-878).
AfterPlan == (InstalledPairs \ PlanRemove) \cup PlanInstall
SelectionIsConsistent ==
    /\ Solved => IsConsistent(selected)
    /\ pc = "planned" => AfterPlan = SelectedPairs

\* "no consistent package selection satisfies all constraints": when unsat
\* answers are right, the error is raised only if that is the case.
NoSolutionIsRight ==
    pc = "nosolution" /\ ~session.doubtful => \A m \in SUBSET Var : ~IsConsistent(m)

\* "Lower versions are tried as a fallback only when the newest cannot be
\* satisfied": beside the versions chosen for the requests before it, no
\* higher version of a request is consistent.
EarlierChoices(r) == {i \in selected : \E q \in 1 .. r - 1 :
                         work[i].name = session.requests[q]}
NewestSelected ==
    pc = "planned" /\ ~session.doubtful =>
        \A r \in DOMAIN session.requests :
            \A c \in Named(work, session.requests[r]) :
                (\E m \in SUBSET Var : /\ IsConsistent(m)
                                       /\ EarlierChoices(r) \cup {c} \subseteq m)
                => \E i \in selected : /\ work[i].name = work[c].name
                                       /\ work[i].version >= work[c].version

\* Once there is a selection, no later phase loses what it was to keep: the
\* keep and recommend phases lose nothing, minimising never loses a package
\* that was requested, installed or pulled in.
OnlyUnwantedDropped ==
    [][ Solved => \A i \in selected \ selected' : pc = "minimise" /\ ~Wanted(i) ]_vars

\* "Greedily retain as many installed packages as possible": when the phase
\* is over, no installed package left out goes with the selection.
KeptIsMaximal ==
    pc = "recommend" /\ ~session.doubtful =>
        \A k \in Var : k > Len(session.packages) /\ k \notin selected =>
            ~\E m \in SUBSET Var : IsConsistent(m) /\ selected \cup {k} \subseteq m

\* The call ends, although the recommend loop starts over after each success.
Terminates == <>(pc \in Ended)
=============================================================================
