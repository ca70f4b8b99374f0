-------------------------- MODULE ResolverProofs ---------------------------
(***************************************************************************)
(* What a resolution promises, for every universe, every installed system  *)
(* and every list of requests: its selection is consistent, the clauses    *)
(* saying exactly what the packages ask for, it has the newest versions of *)
(* the requests, keeps as many installed packages as it can, and loses     *)
(* only what nobody wants.                                                 *)
(***************************************************************************)
EXTENDS Resolver, TLAPS

Solution(m) == m \subseteq Var /\ \A c \in clauses : Satisfies(m, c)

Fixed == /\ session \in Sessions
         /\ work = WithInstalled(session)
         /\ clauses = Encode(work, session.requests)

\* A pin is a selection too, the one the first selection may start from.
SelectionSolves == Solved \/ pinned # {} => Solution(selected)

UnsatIsRight ==
    pc = "nosolution" => session.doubtful \/ \A m \in SUBSET Var : ~Solution(m)

\* An installed package the keep phase has passed by does not go with the
\* selection, and it will not go with what the selection grows to.
KeepTried ==
    /\ pc = "recommend" => left = {}
    /\ pc \in {"keep", "recommend"} =>
         \A k \in InstalledVars \ left :
            k \in selected \/ Unsat(Positive(selected \cup {k}))

ResolverInv == Fixed /\ SelectionSolves /\ UnsatIsRight /\ KeepTried

\* Each pin is a version of a request, and each version of a request that was
\* dealt with is no newer than what is pinned for it, or does not go with the
\* versions pinned for the requests before it.
IsRequestedBy(i, r) == \E q \in 1 .. r : work[i].name = session.requests[q]
PinnedBefore(r) == {i \in pinned : IsRequestedBy(i, r - 1)}
IsReached(c) == \E i \in pinned : /\ work[i].name = work[c].name
                                  /\ work[i].version >= work[c].version
IsSettled(r, c) == IsReached(c) \/ Unsat(Positive(PinnedBefore(r) \cup {c}))

PinsAreRequested ==
    /\ request \in 0 .. Len(session.requests)
    /\ pc = "solve" \/ Solved => request = Len(session.requests)
    /\ pinned \subseteq selected /\ pinned \subseteq Var
    /\ \A i \in pinned : IsRequestedBy(i, request)
LeftToTry ==
    pc \in {"check", "pin"} /\ left # {} =>
        /\ request # 0 /\ left \subseteq Named(work, session.requests[request])
        /\ pinned = PinnedBefore(request)
PinTried ==
    \A r \in 1 .. request : \A c \in Named(work, session.requests[r]) :
        (pc = "pin" /\ r = request /\ c \in left) \/ IsSettled(r, c)

PinInv == PinsAreRequested /\ LeftToTry /\ PinTried

-----------------------------------------------------------------------------
(* The encoding.                                                           *)

LEMMA HoldsOf ==
    ASSUME NEW i, NEW m
    PROVE  (Holds(Pos(i), m) <=> i \in m) /\ (Holds(Neg(i), m) <=> i \notin m)
  BY DEF Holds, Pos, Neg

LEMMA MatchingFits ==
    ASSUME NEW u, NEW s, NEW j \in DOMAIN u
    PROVE  j \in Matching(u, s) <=> Fits(u[j], s)
  BY DEF Matching, MatchingReal, Named, Providers, Fits

LEMMA RequestsEncoded ==
    ASSUME NEW u, NEW requests, NEW m, m \subseteq DOMAIN u
    PROVE  (\A c \in RequestClauses(u, requests) : Satisfies(m, c))
             <=> RequestsMet(u, requests, m)
<1> DEFINE Offer(r) == Named(u, requests[r]) \cup Providers(u, requests[r])
           Cl(r)    == {Pos(i) : i \in Offer(r)}
<1>1. ASSUME NEW r \in DOMAIN requests
      PROVE  Satisfies(m, Cl(r))
               <=> \E i \in m : u[i].name = requests[r] \/ requests[r] \in u[i].provides
  <2>1. Satisfies(m, Cl(r)) <=> \E i \in Offer(r) : Holds(Pos(i), m)
    BY DEF Satisfies
  <2>2. Satisfies(m, Cl(r)) <=> \E i \in Offer(r) : i \in m
    BY <2>1, HoldsOf
  <2> QED
    BY <2>2 DEF Named, Providers
<1>2. (\A c \in RequestClauses(u, requests) : Satisfies(m, c))
        <=> \A r \in DOMAIN requests : Satisfies(m, Cl(r))
  BY DEF RequestClauses
<1> QED
  BY <1>1, <1>2 DEF RequestsMet

LEMMA OneVersionEncoded ==
    ASSUME NEW u, NEW n \in Nat, DOMAIN u = 1 .. n, NEW m, m \subseteq DOMAIN u
    PROVE  (\A c \in OneVersionClauses(u) : Satisfies(m, c)) <=> OneVersionEach(u, m)
<1>1. ASSUME NEW i, NEW j
      PROVE  Satisfies(m, {Neg(i), Neg(j)}) <=> i \notin m \/ j \notin m
  BY HoldsOf DEF Satisfies
<1>2. (\A c \in OneVersionClauses(u) : Satisfies(m, c))
        <=> \A i, j \in DOMAIN u : i < j /\ u[i].name = u[j].name
                => Satisfies(m, {Neg(i), Neg(j)})
  <2> DEFINE Pairs == {q \in (DOMAIN u) \X (DOMAIN u) :
                          q[1] < q[2] /\ u[q[1]].name = u[q[2]].name}
  <2>1. \A i, j \in DOMAIN u : i < j /\ u[i].name = u[j].name
            => <<i, j>> \in Pairs
    OBVIOUS
  <2>2. \A q \in Pairs : /\ q[1] \in DOMAIN u /\ q[2] \in DOMAIN u
                         /\ q[1] < q[2] /\ u[q[1]].name = u[q[2]].name
    OBVIOUS
  <2>3. (\A c \in OneVersionClauses(u) : Satisfies(m, c))
          <=> \A q \in Pairs : Satisfies(m, {Neg(q[1]), Neg(q[2])})
    BY DEF OneVersionClauses
  <2>4. \A i, j : <<i, j>>[1] = i /\ <<i, j>>[2] = j
    OBVIOUS
  <2> HIDE DEF Pairs
  <2> QED
    BY <2>1, <2>2, <2>3, <2>4
<1>3. (\A c \in OneVersionClauses(u) : Satisfies(m, c))
        <=> \A i, j \in DOMAIN u : i < j /\ u[i].name = u[j].name
                => i \notin m \/ j \notin m
  BY <1>1, <1>2
<1> QED
  BY <1>3 DEF OneVersionEach

LEMMA DependsEncoded ==
    ASSUME NEW u, NEW m, m \subseteq DOMAIN u
    PROVE  (\A c \in DependClauses(u) : Satisfies(m, c)) <=> DependsMet(u, m)
<1> DEFINE Cl(i, g) == {Neg(i)} \cup {Pos(j) : j \in SatisfyingVars(u, g)}
<1>1. ASSUME NEW i, NEW g
      PROVE  Satisfies(m, Cl(i, g))
               <=> i \notin m \/ \E k \in DOMAIN g : \E j \in m : Fits(u[j], g[k])
  <2>1. Satisfies(m, Cl(i, g))
          <=> i \notin m \/ \E j \in SatisfyingVars(u, g) : j \in m
    BY HoldsOf DEF Satisfies
  <2>2. \A j \in m : j \in SatisfyingVars(u, g)
                       <=> \E k \in DOMAIN g : Fits(u[j], g[k])
    BY MatchingFits DEF SatisfyingVars
  <2> QED
    BY <2>1, <2>2
<1>2. (\A c \in DependClauses(u) : Satisfies(m, c))
        <=> \A i \in DOMAIN u : \A g \in u[i].depends : Satisfies(m, Cl(i, g))
  BY DEF DependClauses
<1> HIDE DEF Cl
<1> QED
  BY <1>1, <1>2 DEF DependsMet

LEMMA ConflictsEncoded ==
    ASSUME NEW u, NEW m, m \subseteq DOMAIN u
    PROVE  (\A c \in ConflictClauses(u) : Satisfies(m, c)) <=> NoConflicts(u, m)
<1>1. ASSUME NEW i, NEW j
      PROVE  Satisfies(m, {Neg(i), Neg(j)}) <=> i \notin m \/ j \notin m
  BY HoldsOf DEF Satisfies
<1>2. (\A c \in ConflictClauses(u) : Satisfies(m, c))
        <=> \A i \in DOMAIN u : \A s \in u[i].conflicts :
              \A j \in Matching(u, s) \ {i} : Satisfies(m, {Neg(i), Neg(j)})
  BY DEF ConflictClauses
<1>3. (\A c \in ConflictClauses(u) : Satisfies(m, c))
        <=> \A i \in m : \A s \in u[i].conflicts :
              \A j \in m : j \in Matching(u, s) => j = i
  BY <1>1, <1>2
<1> QED
  BY <1>3, MatchingFits DEF NoConflicts

\* The encoding is exact: a set of candidates satisfies the clauses of
\* encode_clauses if and only if it meets the requests, has one version of
\* each name, has every dependency and no conflict, for every universe and
\* every list of requests.
THEOREM EncodingIsExact ==
    ASSUME NEW u, NEW n \in Nat, DOMAIN u = 1 .. n, NEW requests,
           NEW m, m \subseteq DOMAIN u
    PROVE  (\A c \in Encode(u, requests) : Satisfies(m, c))
             <=> Consistent(u, requests, m)
<1>1. (\A c \in Encode(u, requests) : Satisfies(m, c)) <=>
        /\ \A c \in RequestClauses(u, requests) : Satisfies(m, c)
        /\ \A c \in OneVersionClauses(u) : Satisfies(m, c)
        /\ \A c \in DependClauses(u) : Satisfies(m, c)
        /\ \A c \in ConflictClauses(u) : Satisfies(m, c)
  BY DEF Encode
<1> QED
  BY <1>1, RequestsEncoded, OneVersionEncoded, DependsEncoded, ConflictsEncoded
  DEF Consistent

LEMMA ShiftedRange ==
    ASSUME NEW p \in Nat, NEW l \in Nat
    PROVE  {p + k : k \in 1 .. l} = {v \in 1 .. p + l : v > p}
<1>1. ASSUME NEW v \in 1 .. p + l, v > p PROVE v \in {p + k : k \in 1 .. l}
  <2>1. v - p \in 1 .. l /\ v = p + (v - p)
    BY <1>1
  <2> QED
    BY <2>1
<1> QED
  BY <1>1

\* Every candidate of the call is a variable of the solver.
LEMMA CandidatesAreVars ==
    ASSUME Fixed
    PROVE  DOMAIN work = Var /\ InstalledVars = {v \in Var : v > Len(session.packages)}
<1>1. /\ session.packages \in Seq(Package) /\ session.installed \in Seq(Installed)
      /\ Len(session.packages) + Len(session.installed) = NumVars
  BY SessionsAssumption DEF Fixed, Session
<1> DEFINE b == [k \in DOMAIN session.installed |-> Bare(session.installed[k])]
           p == session.packages
           l == Len(session.installed)
<1>2. DOMAIN session.installed = 1 .. l /\ l \in Nat /\ Len(p) \in Nat
  BY <1>1
<1>3. DOMAIN b = 1 .. l
  BY <1>2
<1>4. b \in Seq({Bare(session.installed[k]) : k \in DOMAIN session.installed}) /\ Len(b) = l
  BY <1>2
<1>5. p \o b = work
  BY DEF Fixed, WithInstalled
<1>6. DOMAIN (p \o b) = 1 .. Len(p) + Len(b)
  <2> DEFINE S == Package \cup {Bare(session.installed[k]) : k \in DOMAIN session.installed}
  <2>1. p \in Seq(S) /\ b \in Seq(S)
    BY <1>1, <1>4
  <2> HIDE DEF p, b, S
  <2> QED
    BY <2>1
<1>7. DOMAIN work = Var
  BY <1>1, <1>4, <1>5, <1>6 DEF Var
<1>8. InstalledVars = {v \in Var : v > Len(p)}
  <2>1. InstalledVars = {Len(p) + k : k \in 1 .. l}
    BY <1>2 DEF InstalledVars
  <2>2. Var = 1 .. Len(p) + l
    BY <1>1 DEF Var
  <2> HIDE DEF p, l
  <2> QED
    BY <1>2, <2>1, <2>2, ShiftedRange
<1> QED
  BY <1>7, <1>8

LEMMA SolutionsAreConsistent ==
    ASSUME Fixed, NEW m, m \subseteq Var
    PROVE  Solution(m) <=> IsConsistent(m)
<1>1. DOMAIN work = 1 .. NumVars /\ NumVars \in Nat
  BY CandidatesAreVars, NumVarsAssumption DEF Var
<1>2. (\A c \in Encode(work, session.requests) : Satisfies(m, c))
        <=> Consistent(work, session.requests, m)
  BY <1>1, EncodingIsExact DEF Var
<1> QED
  BY <1>2 DEF Fixed, Solution, IsConsistent

-----------------------------------------------------------------------------
(* The phases.                                                             *)

LEMMA AnswerOf ==
    ASSUME NEW assumed, NEW m
    PROVE  IsAnswer(assumed, m)
             <=> Solution(m) /\ \A l \in assumed : Holds(l, m)
  BY DEF IsAnswer, Solution

LEMMA PositiveAnswer ==
    ASSUME NEW s, NEW m
    PROVE  IsAnswer(Positive(s), m) <=> Solution(m) /\ s \subseteq m
  BY AnswerOf, HoldsOf DEF Positive

\* What does not go with a selection does not go with a larger one.
LEMMA UnsatGrows ==
    ASSUME NEW s, NEW t, s \subseteq t, Unsat(Positive(s))
    PROVE  Unsat(Positive(t))
  BY PositiveAnswer DEF Unsat

LEMMA FixedStays ==
    ASSUME Fixed, UNCHANGED <<session, work, clauses>>
    PROVE  /\ Fixed'
           /\ \A m : Solution(m)' <=> Solution(m)
           /\ \A a : Unsat(a)' <=> Unsat(a)
           /\ InstalledVars' = InstalledVars
<1>1. Fixed'
  BY DEF Fixed
<1>2. \A m : Solution(m)' <=> Solution(m)
  BY DEF Solution
<1>3. \A a : Unsat(a)' <=> Unsat(a)
  BY DEF Unsat, IsAnswer
<1>4. InstalledVars' = InstalledVars
  BY DEF InstalledVars
<1> QED
  BY <1>1, <1>2, <1>3, <1>4

LEMMA ResolverInit == Init => ResolverInv
<1> SUFFICES ASSUME Init PROVE ResolverInv
  OBVIOUS
<1>1. Fixed
  BY DEF Init, Fixed
<1> QED
  BY <1>1 DEF Init, ResolverInv, SelectionSolves, UnsatIsRight, KeepTried, Solved

LEMMA CheckKeeps ==
    ASSUME ResolverInv, CheckRequests
    PROVE  ResolverInv'
<1> USE DEF ResolverInv
<1>1. UNCHANGED <<session, work, clauses>>
  BY DEF CheckRequests
<1>2. pc' \in {"pin", "unknown"} /\ selected' = selected /\ pinned' = pinned
  BY DEF CheckRequests
<1>3. SelectionSolves'
  BY <1>1, <1>2, FixedStays DEF SelectionSolves, Solved
<1> QED
  BY <1>1, <1>2, <1>3, FixedStays DEF UnsatIsRight, KeepTried

LEMMA PinKeeps ==
    ASSUME ResolverInv, NEW c, NextRequest \/ Pin(c)
    PROVE  ResolverInv'
<1> USE DEF ResolverInv
<1>1. UNCHANGED <<session, work, clauses>> /\ pc' \in {"pin", "solve"}
  BY DEF NextRequest, Pin
<1>2. SelectionSolves'
  <2>1. CASE pinned' = pinned /\ selected' = selected
    BY <1>1, <2>1, FixedStays DEF SelectionSolves, Solved
  <2>2. CASE Sat(Positive(pinned \cup {c}), selected')
    BY <1>1, <2>2, PositiveAnswer, FixedStays DEF SelectionSolves, Sat
  <2> QED
    BY <2>1, <2>2 DEF NextRequest, Pin
<1> QED
  BY <1>1, <1>2, FixedStays DEF UnsatIsRight, KeepTried

LEMMA FirstKeeps ==
    ASSUME ResolverInv, FirstSelection
    PROVE  ResolverInv'
<1> USE DEF ResolverInv
<1>1. UNCHANGED <<session, work, clauses, pinned>> /\ pc' \in {"keep", "nosolution"}
  BY DEF FirstSelection
<1>2. SelectionSolves'
  <2>1. CASE pinned # {} /\ selected' = selected
    BY <1>1, <2>1, FixedStays DEF SelectionSolves
  <2>2. CASE Sat({}, selected')
    BY <1>1, <2>2, AnswerOf, FixedStays DEF SelectionSolves, Sat
  <2>3. CASE pinned = {} /\ pc' = "nosolution"
    BY <1>1, <2>3 DEF SelectionSolves, Solved
  <2> QED
    BY <2>1, <2>2, <2>3 DEF FirstSelection
<1>3. UnsatIsRight'
  <2>1. pc' = "nosolution" => Unsat({})
    BY DEF FirstSelection
  <2>2. Unsat({}) => session.doubtful \/ \A m \in SUBSET Var : ~Solution(m)
    BY AnswerOf DEF Unsat
  <2> QED
    BY <1>1, <2>1, <2>2, FixedStays DEF UnsatIsRight
<1>4. KeepTried'
  <2>1. pc' = "keep" => left' = InstalledVars
    BY DEF FirstSelection
  <2> QED
    BY <1>1, <2>1, FixedStays DEF KeepTried
<1> QED
  BY <1>1, <1>2, <1>3, <1>4, FixedStays

\* In the keep and recommend phases the selection only grows.
LEMMA GrowKeeps ==
    ASSUME ResolverInv, NEW gone,
           UNCHANGED <<session, work, clauses, pinned>>, Solved,
           pc' \in {"keep", "recommend"}, pc \in {"keep", "recommend"},
           pc' = "recommend" => left' = {},
           selected \subseteq selected', Solution(selected'),
           left \subseteq left' \cup gone,
           \A k \in gone : k \in selected' \/ Unsat(Positive(selected' \cup {k}))
    PROVE  ResolverInv'
<1> USE DEF ResolverInv
<1>1. SelectionSolves'
  BY FixedStays DEF SelectionSolves
<1>2. ASSUME NEW k \in InstalledVars \ left'
      PROVE  k \in selected' \/ Unsat(Positive(selected' \cup {k}))
  <2>1. CASE k \in left
    BY <1>2, <2>1
  <2>2. CASE k \notin left
    <3>1. k \in selected \/ Unsat(Positive(selected \cup {k}))
      BY <2>2 DEF KeepTried
    <3>2. selected \cup {k} \subseteq selected' \cup {k}
      OBVIOUS
    <3> QED
      BY <3>1, <3>2, UnsatGrows
  <2> QED
    BY <2>1, <2>2
<1>3. (\A k \in InstalledVars \ left :
          k \in selected \/ Unsat(Positive(selected \cup {k})))'
  <2>1. \A k \in InstalledVars \ left' :
           k \in selected' \/ Unsat(Positive(selected' \cup {k}))
    BY <1>2
  <2>2. InstalledVars' = InstalledVars
    BY FixedStays
  <2> QED
    BY <2>1, <2>2 DEF Unsat, IsAnswer, Positive
<1>4. KeepTried'
  BY <1>3 DEF KeepTried
<1> QED
  BY <1>1, <1>4, FixedStays DEF UnsatIsRight

LEMMA KeepKeeps ==
    ASSUME ResolverInv, NEW k, Keep(k)
    PROVE  ResolverInv'
<1> USE DEF ResolverInv
<1>1. /\ UNCHANGED <<session, work, clauses, pinned>>
      /\ pc = "keep" /\ pc' = "keep" /\ left' = left \ {k}
  BY DEF Keep
<1>2. Solved /\ Solution(selected)
  BY <1>1 DEF Solved, SelectionSolves
<1>3. CASE Sat(Positive(selected \cup {k}), selected')
  <2>1. Solution(selected') /\ selected \cup {k} \subseteq selected'
    BY <1>3, PositiveAnswer DEF Sat
  <2> QED
    BY <1>1, <1>2, <2>1, GrowKeeps
<1>4. CASE selected' = selected /\ (k \in selected \/ Unsat(Positive(selected \cup {k})))
  BY <1>1, <1>2, <1>4, GrowKeeps
<1> QED
  BY <1>3, <1>4 DEF Keep

LEMMA RecommendKeeps ==
    ASSUME ResolverInv, KeepDone \/ Recommend
    PROVE  ResolverInv'
<1> USE DEF ResolverInv
<1>1. /\ UNCHANGED <<session, work, clauses, pinned>>
      /\ pc \in {"keep", "recommend"} /\ pc' = "recommend" /\ left = {} /\ left' = left
  BY DEF KeepDone, Recommend, KeepTried
<1>2. Solved /\ Solution(selected)
  BY <1>1 DEF Solved, SelectionSolves
<1>3. CASE selected' = selected
  BY <1>1, <1>2, <1>3, GrowKeeps
<1>4. CASE \E j : Sat(ForcedWith(j), selected')
  <2>1. Solution(selected') /\ selected \subseteq selected'
    BY <1>4, PositiveAnswer DEF Sat, ForcedWith
  <2> QED
    BY <1>1, <1>2, <2>1, GrowKeeps
<1> QED
  BY <1>3, <1>4 DEF KeepDone, Recommend

LEMMA MinimiseKeeps ==
    ASSUME ResolverInv, NEW v,
           RecommendDone \/ Minimise(v) \/ MinimiseDone
    PROVE  ResolverInv'
<1> USE DEF ResolverInv
<1>1. /\ UNCHANGED <<session, work, clauses, pinned>>
      /\ pc \in {"recommend", "minimise"} /\ pc' \in {"minimise", "planned"}
  BY DEF RecommendDone, Minimise, MinimiseDone
<1>2. SelectionSolves'
  <2>1. CASE selected' = selected
    BY <1>1, <2>1, FixedStays DEF SelectionSolves, Solved
  <2>2. CASE Sat(Without(v), selected')
    BY <1>1, <2>2, AnswerOf, FixedStays DEF SelectionSolves, Sat
  <2> QED
    BY <2>1, <2>2 DEF RecommendDone, Minimise, MinimiseDone
<1> QED
  BY <1>1, <1>2, FixedStays DEF UnsatIsRight, KeepTried

LEMMA ResolverNext == ResolverInv /\ [Next]_vars => ResolverInv'
<1> SUFFICES ASSUME ResolverInv, [Next]_vars PROVE ResolverInv'
  OBVIOUS
<1>1. CASE CheckRequests
  BY <1>1, CheckKeeps
<1>2. CASE NextRequest \/ \E c \in Var : Pin(c)
  BY <1>2, PinKeeps
<1>3. CASE FirstSelection
  BY <1>3, FirstKeeps
<1>4. CASE \E k \in Var : Keep(k)
  BY <1>4, KeepKeeps
<1>5. CASE KeepDone \/ Recommend
  BY <1>5, RecommendKeeps
<1>6. CASE RecommendDone \/ MinimiseDone \/ \E v \in Var : Minimise(v)
  BY <1>6, MinimiseKeeps
<1>7. CASE UNCHANGED vars
  <2>1. UNCHANGED <<session, work, clauses, pc, left, pinned, selected>>
    BY <1>7 DEF vars
  <2>2. Fixed' /\ SelectionSolves' /\ UnsatIsRight'
    BY <2>1, FixedStays DEF ResolverInv, SelectionSolves, UnsatIsRight, Solved
  <2>3. \A k : Unsat(Positive(selected \cup {k}))' <=> Unsat(Positive(selected \cup {k}))
    BY <2>1, FixedStays DEF ResolverInv, Positive
  <2>4. KeepTried'
    BY <2>1, <2>3, FixedStays DEF ResolverInv, KeepTried
  <2> QED
    BY <2>2, <2>4 DEF ResolverInv
<1> QED
  BY <1>1, <1>2, <1>3, <1>4, <1>5, <1>6, <1>7 DEF Next, Step, Returned

\* The invariant of every resolution.
LEMMA ResolverInvariant == Spec => []ResolverInv
<1>1. Init => ResolverInv
  BY ResolverInit
<1>2. ResolverInv /\ [Next]_vars => ResolverInv'
  BY ResolverNext
<1> QED
  BY <1>1, <1>2, PTL DEF Spec

-----------------------------------------------------------------------------
(* The versions of the requests.                                           *)

LEMMA VersionsAreNumbers ==
    ASSUME Fixed
    PROVE  \A i \in Var : work[i].version \in Nat
<1> DEFINE b == [k \in DOMAIN session.installed |-> Bare(session.installed[k])]
           p == session.packages
<1>1. p \in Seq(Package) /\ session.installed \in Seq(Installed)
  BY SessionsAssumption DEF Fixed, Session
<1>2. ASSUME NEW k \in DOMAIN session.installed
      PROVE  Bare(session.installed[k]) \in Package
  <2>1. session.installed[k] \in Installed
    BY <1>1
  <2>2. <<>> \in Seq(DependencyGroup)
    OBVIOUS
  <2> QED
    BY <2>1, <2>2 DEF Installed, Bare, Package
<1>3. b \in Seq(Package)
  BY <1>1, <1>2
<1>4. work = p \o b
  BY DEF Fixed, WithInstalled
<1>5. work \in Seq(Package)
  <2> HIDE DEF p, b
  <2> QED
    BY <1>1, <1>3, <1>4
<1>6. \A i \in DOMAIN work : work[i] \in Package
  BY <1>5
<1> QED
  BY <1>6, CandidatesAreVars, VersionAssumption DEF Package

\* What was settled stays so, whatever is pinned after it.
LEMMA SettledStays ==
    ASSUME Fixed, UNCHANGED <<session, work, clauses>>, pinned \subseteq pinned',
           NEW r, NEW c, IsSettled(r, c)
    PROVE  IsSettled(r, c)'
<1>1. IsReached(c) => IsReached(c)'
  BY DEF IsReached
<1>2. PinnedBefore(r) \subseteq PinnedBefore(r)'
  BY DEF PinnedBefore, IsRequestedBy
<1>3. ASSUME Unsat(Positive(PinnedBefore(r) \cup {c}))
      PROVE  Unsat(Positive(PinnedBefore(r) \cup {c}))'
  <2>1. PinnedBefore(r) \cup {c} \subseteq PinnedBefore(r)' \cup {c}
    BY <1>2
  <2>2. Unsat(Positive(PinnedBefore(r)' \cup {c}))
    BY <1>3, <2>1, UnsatGrows
  <2> QED
    BY <2>2 DEF Unsat, IsAnswer, Positive
<1> QED
  BY <1>1, <1>3 DEF IsSettled

\* After the pins nothing is pinned, and no pin is lost.
LEMMA PinsStay ==
    ASSUME Fixed, PinInv, UNCHANGED <<session, work, clauses, request, pinned>>,
           pc \in {"check", "pin"} => left = {},
           pc' \in {"check", "pin"} => left' = {},
           pc' = "solve" \/ Solved' => request = Len(session.requests),
           pinned \subseteq selected'
    PROVE  PinInv'
<1>1. PinsAreRequested'
  BY DEF PinInv, PinsAreRequested, IsRequestedBy
<1>2. LeftToTry'
  BY DEF LeftToTry
<1>3. PinTried'
  <2> SUFFICES ASSUME NEW r \in 1 .. request, NEW c \in Named(work, session.requests[r])
               PROVE  IsSettled(r, c)'
    BY DEF PinTried
  <2>1. IsSettled(r, c)
    BY DEF PinInv, PinTried
  <2> QED
    BY <2>1, SettledStays
<1> QED
  BY <1>1, <1>2, <1>3 DEF PinInv

LEMMA NextRequestTries ==
    ASSUME Fixed, PinInv, NextRequest
    PROVE  PinInv'
<1>1. /\ UNCHANGED <<session, work, clauses, pinned, selected>>
      /\ pc = "pin" /\ left = {}
  BY DEF NextRequest
<1>2. CASE request = Len(session.requests) /\ pc' = "solve" /\ UNCHANGED <<request, left>>
  BY <1>1, <1>2, PinsStay DEF PinInv, PinsAreRequested
<1>3. CASE /\ request < Len(session.requests) /\ request' = request + 1
           /\ left' = Named(work, session.requests[request + 1]) /\ UNCHANGED pc
  <2>1. request \in Nat /\ Len(session.requests) \in Nat
    BY SessionsAssumption DEF Fixed, Session, PinInv, PinsAreRequested
  <2>2. request' - 1 = request /\ request' # 0
    BY <1>3, <2>1
  <2>3. \A i \in pinned : IsRequestedBy(i, request)
    BY DEF PinInv, PinsAreRequested
  <2>4. PinsAreRequested'
    <3>1. request' \in 0 .. Len(session.requests)
      BY <1>3, <2>1
    <3>2. \A i \in pinned : IsRequestedBy(i, request')
      BY <1>3, <2>1, <2>3 DEF IsRequestedBy
    <3>3. \A i \in pinned' : IsRequestedBy(i, request)'
      BY <1>1, <3>2 DEF IsRequestedBy
    <3> QED
      BY <1>1, <1>3, <3>1, <3>3 DEF PinInv, PinsAreRequested, Solved
  <2>5. LeftToTry'
    <3>1. \A i \in pinned' : IsRequestedBy(i, request - 1)'
      BY <1>1, <2>2, <2>3 DEF IsRequestedBy
    <3>2. pinned' = PinnedBefore(request)'
      BY <3>1 DEF PinnedBefore
    <3>3. left' = Named(work, session.requests[request])'
      BY <1>1, <1>3 DEF Named
    <3> QED
      BY <2>2, <3>2, <3>3 DEF LeftToTry
  <2>6. PinTried'
    <3> SUFFICES ASSUME NEW r \in 1 .. request', r # request',
                        NEW c \in Named(work, session.requests[r])
                 PROVE  IsSettled(r, c)'
      BY <1>1, <1>3 DEF PinTried
    <3>1. r \in 1 .. request
      BY <1>3, <2>1
    <3>2. IsSettled(r, c)
      BY <1>1, <3>1 DEF PinInv, PinTried
    <3> QED
      BY <1>1, <3>2, SettledStays
  <2> QED
    BY <2>4, <2>5, <2>6 DEF PinInv
<1> QED
  BY <1>2, <1>3 DEF NextRequest

LEMMA PinTries ==
    ASSUME Fixed, PinInv, NEW c \in Var, Pin(c)
    PROVE  PinInv'
<1>1. /\ UNCHANGED <<session, work, clauses, request, pc>>
      /\ pc = "pin" /\ IsNewest(c) /\ c \in left
  BY DEF Pin, IsNewest
<1>2. /\ request \in 1 .. Len(session.requests) /\ request \in Nat
      /\ left \subseteq Named(work, session.requests[request])
      /\ pinned = PinnedBefore(request)
  BY <1>1 DEF PinInv, PinsAreRequested, LeftToTry
<1>3. pinned \subseteq pinned' /\ left' \subseteq left
  BY DEF Pin
<1>4. ASSUME NEW r \in 1 .. request, NEW d \in Named(work, session.requests[r]),
             ~(r = request /\ d \in left)
      PROVE  IsSettled(r, d)'
  <2>1. IsSettled(r, d)
    BY <1>4 DEF PinInv, PinTried
  <2> QED
    BY <1>1, <1>3, <2>1, SettledStays
<1>5. CASE /\ Sat(Positive(pinned \cup {c}), selected')
           /\ pinned' = pinned \cup {c} /\ left' = {}
  <2>1. pinned' \subseteq selected'
    BY <1>5, PositiveAnswer DEF Sat
  <2>2. work[c].name = session.requests[request]
    BY <1>1, <1>2 DEF Named
  <2>3. PinsAreRequested'
    <3>1. \A i \in pinned' : IsRequestedBy(i, request)
      BY <1>2, <1>5, <2>2 DEF PinInv, PinsAreRequested, IsRequestedBy
    <3>2. \A i \in pinned' : IsRequestedBy(i, request)'
      BY <1>1, <3>1 DEF IsRequestedBy
    <3> QED
      BY <1>1, <1>5, <2>1, <3>2 DEF PinInv, PinsAreRequested, Solved
  <2>4. ASSUME NEW d \in left PROVE IsReached(d)'
    <3>1. work[d].name = work[c].name /\ d \in Var
      BY <1>2, <2>2, CandidatesAreVars DEF Named
    <3>2. work[c].version >= work[d].version
      BY <1>1, <3>1, VersionsAreNumbers DEF IsNewest
    <3> QED
      BY <1>1, <1>5, <3>1, <3>2 DEF IsReached
  <2>5. PinTried'
    BY <1>1, <1>4, <2>4 DEF PinTried, IsSettled
  <2> QED
    BY <1>5, <2>3, <2>5 DEF PinInv, LeftToTry
<1>6. CASE /\ Unsat(Positive(pinned \cup {c})) /\ left' = left \ {c}
           /\ UNCHANGED <<selected, pinned>>
  <2>1. PinsAreRequested'
    BY <1>1, <1>6 DEF PinInv, PinsAreRequested, IsRequestedBy, Solved
  <2>2. LeftToTry'
    BY <1>1, <1>2, <1>6 DEF LeftToTry, Named, PinnedBefore, IsRequestedBy
  <2>3. IsSettled(request, c)
    BY <1>2, <1>6 DEF IsSettled
  <2>4. IsSettled(request, c)'
    BY <1>1, <1>3, <2>3, SettledStays
  <2>5. PinTried'
    BY <1>1, <1>4, <1>6, <2>4 DEF PinTried
  <2> QED
    BY <2>1, <2>2, <2>5 DEF PinInv
<1> QED
  BY <1>5, <1>6 DEF Pin

\* Minimising forces what was selected, but for one package that nobody
\* requested.
LEMMA DropsNoRequest ==
    ASSUME Fixed, PinInv, NEW v, Minimise(v)
    PROVE  pinned \subseteq selected'
<1>1. CASE selected' = selected
  BY <1>1 DEF PinInv, PinsAreRequested
<1>2. CASE ~IsEssential(v) /\ Sat(Without(v), selected')
  <2>1. selected \ {v} \subseteq selected'
    BY <1>2, AnswerOf, HoldsOf DEF Sat, Without, Positive
  <2>2. v \notin pinned
    <3>1. Len(session.requests) \in Nat /\ DOMAIN session.requests = 1 .. Len(session.requests)
      BY SessionsAssumption DEF Fixed, Session
    <3> QED
      BY <1>2, <3>1 DEF PinInv, PinsAreRequested, IsRequestedBy, IsEssential
  <2> QED
    BY <2>1, <2>2 DEF PinInv, PinsAreRequested
<1> QED
  BY <1>1, <1>2 DEF Minimise

LEMMA PinInit == Init => PinInv
<1> SUFFICES ASSUME Init PROVE PinInv
  OBVIOUS
<1>1. /\ pc = "check" /\ request = 0 /\ left = {} /\ pinned = {}
      /\ Len(session.requests) \in Nat
  BY SessionsAssumption DEF Init, Session
<1> QED
  BY <1>1 DEF PinInv, PinsAreRequested, LeftToTry, PinTried, Solved

LEMMA PinNext == Fixed /\ PinInv /\ [Next]_vars => PinInv'
<1> SUFFICES ASSUME Fixed, PinInv, [Next]_vars PROVE PinInv'
  OBVIOUS
<1>1. pinned \subseteq selected /\ (pc = "solve" \/ Solved => request = Len(session.requests))
  BY DEF PinInv, PinsAreRequested
<1>2. CASE CheckRequests
  <2>1. /\ UNCHANGED <<session, work, clauses, request, left, pinned, selected>>
        /\ pc = "check" /\ pc' \in {"pin", "unknown"}
    BY <1>2 DEF CheckRequests
  <2>2. PinsAreRequested'
    BY <2>1 DEF PinInv, PinsAreRequested, IsRequestedBy, Solved
  <2>3. LeftToTry'
    BY <2>1 DEF PinInv, LeftToTry, PinnedBefore, IsRequestedBy, Named
  <2>4. PinTried'
    <3> SUFFICES ASSUME NEW r \in 1 .. request, NEW c \in Named(work, session.requests[r])
                 PROVE  IsSettled(r, c)'
      BY <2>1 DEF PinTried
    <3>1. IsSettled(r, c)
      BY <2>1 DEF PinInv, PinTried
    <3> QED
      BY <2>1, <3>1, SettledStays
  <2> QED
    BY <2>2, <2>3, <2>4 DEF PinInv
<1>3. CASE FirstSelection
  BY <1>1, <1>3, PinsStay DEF FirstSelection
<1>4. ASSUME NEW k \in Var, Keep(k) PROVE PinInv'
  <2>1. selected \subseteq selected'
    BY <1>4, PositiveAnswer DEF Keep, Sat
  <2> QED
    BY <1>1, <1>4, <2>1, PinsStay DEF Keep, Solved
<1>5. CASE Recommend
  <2>1. selected \subseteq selected'
    <3>1. CASE selected' = selected
      BY <3>1
    <3>2. CASE \E j : Sat(ForcedWith(j), selected')
      BY <3>2, PositiveAnswer DEF Sat, ForcedWith
    <3> QED
      BY <1>5, <3>1, <3>2 DEF Recommend
  <2> QED
    BY <1>1, <1>5, <2>1, PinsStay DEF Recommend, Solved
<1>6. ASSUME NEW v \in Var, Minimise(v) PROVE PinInv'
  BY <1>1, <1>6, DropsNoRequest, PinsStay DEF Minimise, Solved
<1>7. CASE KeepDone \/ RecommendDone \/ MinimiseDone
  BY <1>1, <1>7, PinsStay DEF KeepDone, RecommendDone, MinimiseDone, Solved
<1>8. CASE UNCHANGED vars
  BY <1>8, FixedStays DEF vars, PinInv, PinsAreRequested, LeftToTry, PinTried, Solved,
     IsRequestedBy, PinnedBefore, IsSettled, IsReached, Named, Positive
<1> QED
  BY <1>2, <1>3, <1>4, <1>5, <1>6, <1>7, <1>8, NextRequestTries, PinTries
  DEF Next, Step, Returned

-----------------------------------------------------------------------------
(* The theorems.                                                           *)

\* From the first answer of the solver on, whatever the phases try, the
\* selection meets the requests, has one version of each name, every
\* dependency and no conflict, and the plan leads exactly to it.
THEOREM SelectionsAreConsistent == Spec => []SelectionIsConsistent
<1>1. ResolverInv => SelectionIsConsistent
  <2> SUFFICES ASSUME ResolverInv PROVE SelectionIsConsistent
    OBVIOUS
  <2>1. ASSUME Solved PROVE IsConsistent(selected)
    <3>1. Solution(selected) /\ selected \subseteq Var
      BY <2>1 DEF ResolverInv, SelectionSolves, Solution
    <3> QED
      BY <3>1, SolutionsAreConsistent DEF ResolverInv
  <2>2. AfterPlan = SelectedPairs
    <3> HIDE DEF InstalledPairs, SelectedPairs
    <3> QED
      BY DEF AfterPlan, PlanRemove, PlanInstall
  <2> QED
    BY <2>1, <2>2 DEF SelectionIsConsistent
<1> QED
  BY <1>1, ResolverInvariant, PTL

\* A solver whose unsat answers are right lets the resolution say that there
\* is no solution only when no selection of the candidates is consistent.
THEOREM NoSolutionIsTrue == Spec => []NoSolutionIsRight
<1>1. ResolverInv => NoSolutionIsRight
  BY SolutionsAreConsistent DEF ResolverInv, UnsatIsRight, NoSolutionIsRight
<1> QED
  BY <1>1, ResolverInvariant, PTL

\* When the keep phase is over, and until the recommendations are in, every
\* installed package that was left out is one that no consistent selection
\* has beside what is selected.
THEOREM KeptAreMaximal == Spec => []KeptIsMaximal
<1>1. ResolverInv => KeptIsMaximal
  <2> SUFFICES ASSUME ResolverInv, pc = "recommend", ~session.doubtful,
                      NEW k \in Var, k > Len(session.packages), k \notin selected,
                      NEW m \in SUBSET Var, IsConsistent(m), selected \cup {k} \subseteq m
               PROVE  FALSE
    BY DEF KeptIsMaximal
  <2>1. k \in InstalledVars \ left
    BY CandidatesAreVars DEF ResolverInv, KeepTried
  <2>2. ~IsAnswer(Positive(selected \cup {k}), m)
    BY <2>1 DEF ResolverInv, KeepTried, Unsat
  <2>3. Solution(m)
    BY SolutionsAreConsistent DEF ResolverInv
  <2> QED
    BY <2>2, <2>3, PositiveAnswer
<1> QED
  BY <1>1, ResolverInvariant, PTL

\* No phase loses what it was to keep: only minimising drops a package, and
\* never one that was requested, installed or pulled in.
THEOREM DropsAreUnwanted == Spec => OnlyUnwantedDropped
<1>1. ResolverInv /\ [Next]_vars =>
        [Solved => \A i \in selected \ selected' : pc = "minimise" /\ ~Wanted(i)]_vars
  <2> SUFFICES ASSUME ResolverInv, Next, Solved, NEW i \in selected \ selected'
               PROVE  pc = "minimise" /\ ~Wanted(i)
    OBVIOUS
  <2>0. i \in Var
    BY DEF ResolverInv, SelectionSolves, Solution
  <2>1. pc \in {"keep", "recommend", "minimise", "planned"}
    BY DEF Solved
  <2>2. selected' # selected
    OBVIOUS
  <2>3. ASSUME NEW k, Keep(k) PROVE FALSE
    <3>1. Sat(Positive(selected \cup {k}), selected')
      BY <2>2, <2>3 DEF Keep
    <3> QED
      BY <3>1, PositiveAnswer DEF Sat
  <2>4. ASSUME Recommend PROVE FALSE
    <3>1. PICK j : Sat(ForcedWith(j), selected')
      BY <2>2, <2>4 DEF Recommend
    <3> QED
      BY <3>1, PositiveAnswer DEF Sat, ForcedWith
  <2>5. ASSUME NEW v \in Var, Minimise(v) PROVE pc = "minimise" /\ ~Wanted(i)
    <3>1. pc = "minimise" /\ ~IsEssential(v) /\ Sat(Without(v), selected')
      BY <2>2, <2>5 DEF Minimise
    <3>2. selected \ {v} \subseteq selected'
      BY <3>1, AnswerOf, HoldsOf DEF Sat, Without, Positive
    <3>3. i = v
      BY <3>2
    <3>4. v \in InstalledVars <=> v > Len(session.packages)
      BY <2>5, CandidatesAreVars DEF ResolverInv
    <3> QED
      BY <3>1, <3>3, <3>4 DEF IsEssential, Wanted
  <2>6. PICK v \in Var : Keep(v) \/ Recommend \/ Minimise(v)
    <3>1. ~(CheckRequests \/ NextRequest \/ FirstSelection \/ \E c \in Var : Pin(c))
      BY <2>1 DEF CheckRequests, NextRequest, FirstSelection, Pin
    <3>2. ~(KeepDone \/ RecommendDone \/ MinimiseDone \/ Returned)
      BY <2>2 DEF KeepDone, RecommendDone, MinimiseDone, Returned, vars
    <3> QED
      BY <2>0, <3>1, <3>2 DEF Next, Step
  <2> QED
    BY <2>3, <2>4, <2>5, <2>6
<1> QED
  BY <1>1, ResolverInvariant, PTL DEF Spec, OnlyUnwantedDropped

\* With a solver whose unsat answers are right, the plan has the newest version
\* of each request that any consistent selection has beside the versions
\* chosen for the requests before it: older versions are a fallback only.
THEOREM NewestIsSelected == Spec => []NewestSelected
<1>1. ResolverInv /\ PinInv => NewestSelected
  <2> SUFFICES ASSUME ResolverInv, PinInv, pc = "planned", ~session.doubtful,
                      NEW r \in DOMAIN session.requests,
                      NEW c \in Named(work, session.requests[r]),
                      NEW m \in SUBSET Var, IsConsistent(m),
                      EarlierChoices(r) \cup {c} \subseteq m
               PROVE  \E i \in selected : /\ work[i].name = work[c].name
                                          /\ work[i].version >= work[c].version
    BY DEF NewestSelected
  <2>1. r \in 1 .. request
    BY SessionsAssumption DEF ResolverInv, Fixed, Session, PinInv, PinsAreRequested, Solved
  <2>2. IsSettled(r, c)
    BY <2>1 DEF PinInv, PinTried
  <2>3. pinned \subseteq selected
    BY DEF PinInv, PinsAreRequested
  <2>4. PinnedBefore(r) \cup {c} \subseteq m
    BY <2>3 DEF PinnedBefore, IsRequestedBy, EarlierChoices
  <2>5. Solution(m)
    BY SolutionsAreConsistent DEF ResolverInv
  <2>6. ~Unsat(Positive(PinnedBefore(r) \cup {c}))
    BY <2>4, <2>5, PositiveAnswer DEF Unsat
  <2> QED
    BY <2>2, <2>3, <2>6 DEF IsSettled, IsReached
<1>2. ResolverInv => Fixed
  BY DEF ResolverInv
<1> QED
  BY <1>1, <1>2, PinInit, PinNext, ResolverInvariant, PTL DEF Spec
=============================================================================
