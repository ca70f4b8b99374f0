------------------------------ MODULE Universe ------------------------------
(***************************************************************************)
(* The packages a resolution chooses from, and their encoding as clauses   *)
(* (crates/tpt-l-apt-solver/src/lib.rs).  Names are model values; versions *)
(* are numbers, in the order of Version; a version constraint is the set   *)
(* of versions that satisfy it.                                            *)
(*                                                                         *)
(* The encoding treats Pre-Depends as Depends and Breaks as Conflicts, so  *)
(* a package has one field for each pair.  An alternative of a Conflicts   *)
(* group conflicts on its own, so conflicts is a set of specs.  Suggests   *)
(* only fill an informational list of the plan and are left out.           *)
(***************************************************************************)
EXTENDS Cnf, FiniteSets

CONSTANTS Name,   \* names, real and virtual
          Version \* versions

ASSUME VersionAssumption == Version \subseteq Nat

DependencySpec  == [name : Name, versions : SUBSET Version]
DependencyGroup == Seq(DependencySpec)
Package == [name : Name, version : Version,
            depends : SUBSET DependencyGroup,
            conflicts : SUBSET DependencySpec,
            provides : SUBSET Name,
            recommends : Seq(DependencyGroup)]

-----------------------------------------------------------------------------
(* A universe u is the sequence of its packages. *)

Named(u, n)     == {i \in DOMAIN u : u[i].name = n}
Providers(u, n) == {i \in DOMAIN u : n \in u[i].provides}

\* matching_package_indices: a provider matches whatever the constraint.
MatchingReal(u, s) == {i \in Named(u, s.name) : u[i].version \in s.versions}
Matching(u, s)     == MatchingReal(u, s) \cup Providers(u, s.name)

SatisfyingVars(u, g) == UNION {Matching(u, g[k]) : k \in DOMAIN g}

\* best_satisfying walks the alternatives in order, real packages before
\* providers, and replaces its choice only by a strictly lower version.
OfferOrder(u, g, k, i) ==
    (2 * k + IF i \in MatchingReal(u, g[k]) THEN 0 ELSE 1) * (Len(u) + 1) + i
BestSatisfying(u, g) ==
    LET offers == {o \in (DOMAIN g) \X (DOMAIN u) : o[2] \in Matching(u, g[o[1]])}
        first  == CHOOSE o \in offers : \A q \in offers :
                     \/ u[o[2]].version < u[q[2]].version
                     \/ /\ u[o[2]].version = u[q[2]].version
                        /\ OfferOrder(u, g, o[1], o[2]) <= OfferOrder(u, g, q[1], q[2])
    IN {first[2] : o \in offers}

-----------------------------------------------------------------------------
(* encode_clauses.  The order of the clauses is left out: one part of it    *)
(* follows the iteration order of a HashMap.                                *)

RequestClauses(u, requests) ==
    {{Pos(i) : i \in Named(u, requests[r]) \cup Providers(u, requests[r])} :
        r \in DOMAIN requests}

\* Fault: the second version of a pair starts one too far.
OneVersionSkipsNext(u) ==
    {{Neg(p[1]), Neg(p[2])} : p \in
        {q \in (DOMAIN u) \X (DOMAIN u) : q[1] + 1 < q[2] /\ u[q[1]].name = u[q[2]].name}}
OneVersionClauses(u) ==
    {{Neg(p[1]), Neg(p[2])} : p \in
        {q \in (DOMAIN u) \X (DOMAIN u) : q[1] < q[2] /\ u[q[1]].name = u[q[2]].name}}

DependClauses(u) ==
    UNION {{{Neg(i)} \cup {Pos(j) : j \in SatisfyingVars(u, g)} :
                g \in u[i].depends} : i \in DOMAIN u}

\* Fault: a package conflicts with the virtual name it provides itself.
ConflictsWithItself(u) ==
    UNION {UNION {{{Neg(i), Neg(j)} : j \in Matching(u, s)} :
                     s \in u[i].conflicts} : i \in DOMAIN u}
ConflictClauses(u) ==
    UNION {UNION {{{Neg(i), Neg(j)} : j \in Matching(u, s) \ {i}} :
                     s \in u[i].conflicts} : i \in DOMAIN u}

Encode(u, requests) == RequestClauses(u, requests) \cup OneVersionClauses(u)
                         \cup DependClauses(u) \cup ConflictClauses(u)

-----------------------------------------------------------------------------
(* What the clauses stand for, said of the packages. *)

Fits(p, s) == \/ p.name = s.name /\ p.version \in s.versions
              \/ s.name \in p.provides

RequestsMet(u, requests, m) ==
    \A r \in DOMAIN requests :
        \E i \in m : u[i].name = requests[r] \/ requests[r] \in u[i].provides
OneVersionEach(u, m) ==
    \A i, j \in m : u[i].name = u[j].name => i = j
DependsMet(u, m) ==
    \A i \in m : \A g \in u[i].depends :
        \E k \in DOMAIN g : \E j \in m : Fits(u[j], g[k])
NoConflicts(u, m) ==
    \A i \in m : \A s \in u[i].conflicts :
        \A j \in m : Fits(u[j], s) => j = i

Consistent(u, requests, m) ==
    /\ RequestsMet(u, requests, m)
    /\ OneVersionEach(u, m)
    /\ DependsMet(u, m)
    /\ NoConflicts(u, m)
=============================================================================
