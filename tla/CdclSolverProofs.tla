-------------------------- MODULE CdclSolverProofs --------------------------
(***************************************************************************)
(* Theorems about CdclSolver, for every formula, every list of assumptions *)
(* and every order of decisions: types; that unsat is right up to what was *)
(* learnt; then what propagation keeps, and what follows from it: a        *)
(* decision is taken at a fixpoint, the conflict analysis finds its way,   *)
(* every backjump gains, and the answer sat is right.                      *)
(***************************************************************************)
EXTENDS CdclSolver, TLAPS, FiniteSetTheorems, SequenceTheorems

-----------------------------------------------------------------------------
(* Literals and truth values. *)

\* A literal and its negation: the facts every step uses.
LEMMA NegateFacts ==
    ASSUME NEW l \in Literal
    PROVE  /\ Negate(l) \in Literal
           /\ Negate(l).var = l.var
           /\ l.var \in Var
           /\ Negate(Negate(l)) = l
           /\ TruthOf(l) \in {"true", "false"}
           /\ TruthOf(l) # TruthOf(Negate(l))
<1>1. l = [var |-> l.var, negated |-> l.negated] /\ l.var \in Var
         /\ l.negated \in BOOLEAN
  BY DEF Literal
<1>2. CASE l.negated
  BY <1>1, <1>2 DEF Literal, Negate, TruthOf
<1>3. CASE ~l.negated
  BY <1>1, <1>3 DEF Literal, Negate, TruthOf
<1> QED BY <1>2, <1>3

\* Two literals of one variable are equal or opposite.
LEMMA SameVar ==
    ASSUME NEW k \in Literal, NEW l \in Literal, k.var = l.var
    PROVE  /\ k = l \/ k = Negate(l)
           /\ TruthOf(k) = TruthOf(l) => k = l
<1>1. /\ k = [var |-> k.var, negated |-> k.negated]
      /\ l = [var |-> l.var, negated |-> l.negated]
      /\ k.negated \in BOOLEAN /\ l.negated \in BOOLEAN
  BY DEF Literal
<1>2. CASE k.negated = l.negated
  BY <1>1, <1>2
<1>3. CASE k.negated # l.negated
  <2>1. k.negated = ~l.negated
    BY <1>1, <1>3
  <2>2. k = Negate(l)
    BY <1>1, <2>1 DEF Negate
  <2> QED BY <2>2, NegateFacts
<1> QED BY <1>2, <1>3

\* A literal of a clause of the solver.
LEMMA ClauseLiterals ==
    ASSUME TypeOK, NEW i \in DOMAIN clauses, NEW l \in clauses[i]
    PROVE  l \in Literal /\ i \in 1 .. Len(clauses)
BY DEF TypeOK, Formula, Clause

-----------------------------------------------------------------------------
(* Solver::assign. *)

\* The trail and its limits as functions on intervals.
LEMMA TrailTypes ==
    ASSUME TypeOK
    PROVE  /\ Len(trailLim) \in Nat /\ Len(trail) \in Nat
           /\ DOMAIN trailLim = 1 .. Len(trailLim)
           /\ DOMAIN trail = 1 .. Len(trail)
           /\ \A k \in 1 .. Len(trailLim) : trailLim[k] \in 0 .. Len(trail)
           /\ \A t \in 1 .. Len(trail) : trail[t] \in Literal
<1>1. trail \in Seq(Literal) /\ trailLim \in Seq(0 .. Len(trail))
  BY DEF TypeOK
<1> QED BY <1>1, LenProperties, ElementOfSeq

\* What one assignment does to the trail, its levels and the types.  A
\* variable may be assigned again only while nothing is decided (the contrary
\* unit clauses of the seeding).
LEMMA AssignFacts ==
    ASSUME TypeOK, TrailOK,
           NEW l \in Literal, NEW r \in 0 .. Len(clauses),
           IsUnset(l) \/ trailLim = <<>>,
           Assign(l, r),
           UNCHANGED <<clauses, trailLim>>
    PROVE  /\ assignment' \in [Var -> {"unset", "true", "false"}]
           /\ reason' \in [Var -> 0 .. Len(clauses')]
           /\ level' \in [Var -> 0 .. Len(trailLim')]
           /\ trail' \in Seq(Literal)
           /\ trailLim' \in Seq(0 .. Len(trail'))
           /\ TrailOK'
<1>1. /\ trail' \in Seq(Literal) /\ Len(trail') = Len(trail) + 1
      /\ \A t \in 1 .. Len(trail) : trail'[t] = trail[t]
      /\ trail'[Len(trail) + 1] = l
      /\ DOMAIN trail' = 1 .. Len(trail) + 1 /\ DOMAIN trail = 1 .. Len(trail)
  BY AppendProperties, LenProperties DEF Assign, TypeOK
<1>2. l.var \in Var /\ TruthOf(l) \in {"true", "false"}
  BY NegateFacts
<1>3. /\ assignment' \in [Var -> {"unset", "true", "false"}]
      /\ assignment'[l.var] # "unset"
      /\ \A v \in Var : v # l.var => assignment'[v] = assignment[v]
  BY <1>2 DEF Assign, TypeOK
<1>4. reason' \in [Var -> 0 .. Len(clauses')]
  BY <1>2 DEF Assign, TypeOK
<1>5. /\ level' \in [Var -> 0 .. Len(trailLim')]
      /\ level'[l.var] = Len(trailLim)
      /\ \A v \in Var : v # l.var => level'[v] = level[v]
  BY <1>2 DEF Assign, TypeOK, DecisionLevel
<1>6. /\ trailLim' \in Seq(0 .. Len(trail'))
      /\ DOMAIN trailLim = 1 .. Len(trailLim)
      /\ \A k \in DOMAIN trailLim : trailLim[k] \in 0 .. Len(trail)
  <2>1. trailLim \in Seq(0 .. Len(trail)) /\ trailLim' = trailLim
    BY DEF TypeOK
  <2>2. Len(trail) \in Nat /\ 0 .. Len(trail) \subseteq 0 .. Len(trail')
    BY <1>1, TrailTypes
  <2>3. trailLim' \in Seq(0 .. Len(trail'))
    BY <2>1, <2>2
  <2> QED BY <2>3, TrailTypes
<1>7. \A t \in DOMAIN trail : trail[t].var \in Var
  BY <1>1, NegateFacts DEF TypeOK
<1>8. TrailOnlyAssigned'
  BY <1>1, <1>3, <1>7 DEF TrailOK, TrailOnlyAssigned
<1>9. AssignedOnTrail'
  <2> SUFFICES ASSUME NEW v \in Var
               PROVE  IF assignment'[v] = "unset"
                      THEN level'[v] = 0
                      ELSE \E t \in DOMAIN trail' : trail'[t].var = v
    BY DEF AssignedOnTrail
  <2>0. CASE assignment'[v] = "unset"
    <3>1. v # l.var /\ assignment[v] = "unset"
      BY <2>0, <1>3
    <3>2. level[v] = 0
      BY <3>1 DEF TrailOK, AssignedOnTrail
    <3> QED BY <2>0, <3>1, <3>2, <1>5
  <2>1. CASE v = l.var
    <3>1. Len(trail) + 1 \in DOMAIN trail'
      BY <1>1, TrailTypes
    <3> QED BY <2>1, <3>1, <1>1, <1>3
  <2>2. CASE v # l.var /\ assignment'[v] # "unset"
    <3>1. assignment[v] # "unset"
      BY <2>2, <1>3
    <3>2. PICK t \in DOMAIN trail : trail[t].var = v
      BY <3>1 DEF TrailOK, AssignedOnTrail
    <3>3. t \in DOMAIN trail' /\ trail'[t] = trail[t]
      BY <1>1, <3>2, TrailTypes
    <3> QED BY <2>2, <3>2, <3>3
  <2> QED BY <2>0, <2>1, <2>2
<1>10. LevelsOnTrail'
  <2> SUFFICES ASSUME NEW k \in DOMAIN trailLim, NEW t \in DOMAIN trail'
               PROVE  trailLim[k] < t <=> k <= level'[trail'[t].var]
    BY DEF LevelsOnTrail
  <2>1. CASE t = Len(trail) + 1
    BY <2>1, <1>1, <1>5, <1>6
  <2>2. CASE t # Len(trail) + 1 /\ trail[t].var # l.var
    BY <2>2, <1>1, <1>5, <1>7 DEF TrailOK, LevelsOnTrail
  <2>3. CASE t # Len(trail) + 1 /\ trail[t].var = l.var
    <3>1. t \in DOMAIN trail
      BY <2>3, <1>1
    <3>2. trailLim = <<>>
      BY <2>3, <3>1 DEF TrailOK, TrailOnlyAssigned, IsUnset
    <3> QED BY <3>2
  <2> QED BY <2>1, <2>2, <2>3
<1>11. LimitsAscend'
  BY DEF TrailOK, LimitsAscend
<1> QED BY <1>1, <1>3, <1>4, <1>5, <1>6, <1>8, <1>9, <1>10, <1>11 DEF TrailOK

-----------------------------------------------------------------------------
(* Solver::cancel_until and what follows it. *)

\* The variables a backjump to level bt undoes are those above level bt.
LEMMA UndoneIsAbove ==
    ASSUME TypeOK, TrailOK,
           NEW bt \in 0 .. Len(trailLim) - 1, NEW v \in Var
    PROVE  v \in Undone(bt) <=> level[v] > bt
<1>1. /\ bt + 1 \in DOMAIN trailLim
      /\ trailLim[bt + 1] \in 0 .. Len(trail)
      /\ DOMAIN trail = 1 .. Len(trail)
      /\ Len(trail) \in Nat
  BY TrailTypes
<1>2. level[v] \in Nat
  BY DEF TypeOK
<1>3. ASSUME v \in Undone(bt) PROVE level[v] > bt
  <2>1. PICK t \in trailLim[bt + 1] + 1 .. Len(trail) : v = trail[t].var
    BY <1>3 DEF Undone
  <2>2. t \in DOMAIN trail /\ trailLim[bt + 1] < t
    BY <1>1
  <2>3. bt + 1 <= level[v]
    BY <1>1, <2>1, <2>2 DEF TrailOK, LevelsOnTrail
  <2> QED BY <1>2, <2>3
<1>4. ASSUME level[v] > bt PROVE v \in Undone(bt)
  <2>1. PICK t \in DOMAIN trail : trail[t].var = v
    BY <1>4 DEF TrailOK, AssignedOnTrail
  <2>2. trailLim[bt + 1] < t
    BY <1>1, <1>2, <1>4, <2>1 DEF TrailOK, LevelsOnTrail
  <2>3. t \in trailLim[bt + 1] + 1 .. Len(trail)
    BY <1>1, <2>2
  <2> QED BY <2>1, <2>3 DEF Undone
<1> QED BY <1>3, <1>4

\* The state after Learn in terms of the levels before it: p, the negation of
\* the literal the walk stopped at, is asserted at a level below its old one.
BackjumpedTo(bt, p) ==
    /\ Len(trailLim') = bt
    /\ LearntNow \subseteq Literal
    /\ clauses' = Append(clauses, LearntNow \cup {p})
    /\ propQueue' = Append(propQueue, p)
    /\ assignment'[p.var] = TruthOf(p)
    /\ level'[p.var] = bt
    /\ level[p.var] > bt
    /\ \A v \in Var \ {p.var} :
         IF level[v] <= bt
         THEN assignment'[v] = assignment[v] /\ level'[v] = level[v]
         ELSE assignment'[v] = "unset" /\ level'[v] = 0

\* The clause of the turn, its marks and the learnt literals are well typed.
LEMMA AnalysisTypes ==
    ASSUME TypeOK, analysis.c \in DOMAIN clauses
    PROVE  /\ LearntNow \subseteq Literal
           /\ SeenNow \subseteq Var
           /\ Cardinality(MarkedHere) \in Nat
           /\ PathC \in Int
<1>1. Marked \subseteq Literal
  BY ClauseLiterals DEF Marked
<1>2. LearntNow \subseteq Literal
  BY <1>1, NegateFacts DEF LearntNow, TypeOK
<1>3. SeenNow \subseteq Var
  BY <1>1, NegateFacts DEF SeenNow, TypeOK
<1>4. IsFiniteSet(Var)
  BY FS_Interval, NumVarsAssumption DEF Var
<1>5. Cardinality(MarkedHere) \in Nat
  BY <1>4, FS_Subset, FS_CardinalityType DEF MarkedHere
<1>6. PathC \in Int
  BY <1>5 DEF PathC, TypeOK
<1> QED BY <1>2, <1>3, <1>5, <1>6

\* Learn backjumps: the facts the invariants need of it.
LEMMA LearnFacts ==
    ASSUME TypeOK, TrailOK, PhasesOK, NEW i \in DOMAIN trail, Learn(i)
    PROVE  /\ Negate(trail[i]) \in Literal
           /\ \E bt \in 0 .. Len(trailLim) - 1 :
                /\ BackjumpedTo(bt, Negate(trail[i]))
                /\ \A l \in LearntNow : level[l.var] <= bt
                /\ bt = 0 \/ \E l \in LearntNow : level[l.var] = bt
                /\ reason' \in [Var -> 0 .. Len(clauses')]
                /\ assignment' \in [Var -> {"unset", "true", "false"}]
                /\ level' \in [Var -> 0 .. Len(trailLim')]
                /\ trail' = Append(SubSeq(trail, 1, trailLim[bt + 1]),
                                   Negate(trail[i]))
                /\ trailLim' = SubSeq(trailLim, 1, bt)
                /\ \A v \in Var : v # trail[i].var /\ level[v] <= bt
                                    => reason'[v] = reason[v]
                /\ reason'[trail[i].var] = Len(clauses) + 1
<1> DEFINE p == Negate(trail[i])
<1>1. trail[i] \in Literal /\ p \in Literal /\ p.var = trail[i].var
         /\ p.var \in Var /\ TruthOf(p) \in {"true", "false"}
  <2>1. trail[i] \in Literal
    BY DEF TypeOK
  <2> QED BY <2>1, NegateFacts
<1>2. level[p.var] >= Len(trailLim)
  BY <1>1 DEF Learn, IsLatest, Candidates, DecisionLevel
<1>3. PICK bt \in 0 .. Len(trailLim) - 1 :
         /\ \A l \in LearntNow : level[l.var] <= bt
         /\ bt = 0 \/ \E l \in LearntNow : level[l.var] = bt
         /\ clauses' = Append(clauses, LearntNow \cup {p})
         /\ assignment' = [[v \in Var |-> IF v \in Undone(bt) THEN "unset"
                                          ELSE assignment[v]]
                             EXCEPT ![p.var] = TruthOf(p)]
         /\ reason' = [v \in Var |-> IF v = p.var THEN Len(clauses) + 1
                                ELSE IF v \in Undone(bt) THEN 0
                                ELSE reason[v]]
         /\ level' = [v \in Var |-> IF v = p.var THEN bt
                               ELSE IF v \in Undone(bt) THEN 0
                               ELSE level[v]]
         /\ trail' = Append(SubSeq(trail, 1, trailLim[bt + 1]), p)
         /\ trailLim' = SubSeq(trailLim, 1, bt)
         /\ propQueue' = Append(propQueue, p)
  BY DEF Learn, BackjumpTo, DecisionLevel
<1>4. LearntNow \subseteq Literal
  BY AnalysisTypes DEF PhasesOK, Learn
<1>5. Len(clauses') = Len(clauses) + 1 /\ Len(clauses) \in Nat
  <2>1. clauses \in Seq(Clause) /\ LearntNow \cup {p} \in Clause
    BY <1>1, <1>4 DEF TypeOK, Formula, Clause
  <2> QED BY <1>3, <2>1, AppendProperties, LenProperties
<1>6. /\ Len(trailLim) \in Nat
      /\ Len(trailLim') = bt
  <2>1. trailLim \in Seq(0 .. Len(trail)) /\ Len(trailLim) \in Nat
    BY TrailTypes DEF TypeOK
  <2>2. bt \in 0 .. Len(trailLim)
    BY <2>1
  <2> QED BY <1>3, <2>1, <2>2, SubSeqProperties
<1>7. reason' \in [Var -> 0 .. Len(clauses')]
  <2>1. \A v \in Var : reason[v] \in 0 .. Len(clauses)
    BY DEF TypeOK
  <2> SUFFICES ASSUME NEW v \in Var PROVE reason'[v] \in 0 .. Len(clauses')
    BY <1>3
  <2> QED BY <1>3, <1>5, <2>1
<1>8. assignment' \in [Var -> {"unset", "true", "false"}]
  BY <1>1, <1>3 DEF TypeOK
<1>9. \A v \in Var : v \in Undone(bt) <=> level[v] > bt
  BY UndoneIsAbove
<1>10. \A v \in Var : level[v] \in 0 .. Len(trailLim)
  BY DEF TypeOK
<1>11. level' \in [Var -> 0 .. bt]
  <2> SUFFICES ASSUME NEW v \in Var PROVE level'[v] \in 0 .. bt
    BY <1>3
  <2> QED BY <1>1, <1>3, <1>6, <1>9, <1>10
<1>12. BackjumpedTo(bt, p)
  <2>1. \A v \in Var \ {p.var} :
         IF level[v] <= bt
         THEN assignment'[v] = assignment[v] /\ level'[v] = level[v]
         ELSE assignment'[v] = "unset" /\ level'[v] = 0
    <3> SUFFICES ASSUME NEW v \in Var, v # p.var
                 PROVE  IF level[v] <= bt
                        THEN assignment'[v] = assignment[v] /\ level'[v] = level[v]
                        ELSE assignment'[v] = "unset" /\ level'[v] = 0
      OBVIOUS
    <3>1. assignment'[v] = IF v \in Undone(bt) THEN "unset" ELSE assignment[v]
      BY <1>1, <1>3
    <3>2. level'[v] = IF v \in Undone(bt) THEN 0 ELSE level[v]
      BY <1>1, <1>3
    <3>3. v \in Undone(bt) <=> ~(level[v] <= bt)
      BY <1>6, <1>9, <1>10
    <3> QED BY <3>1, <3>2, <3>3
  <2>2. assignment'[p.var] = TruthOf(p) /\ level'[p.var] = bt
    BY <1>1, <1>3
  <2>3. level[p.var] > bt
    BY <1>1, <1>2, <1>6, <1>10
  <2> QED BY <1>3, <1>4, <1>6, <2>1, <2>2, <2>3 DEF BackjumpedTo
<1>13. /\ \A v \in Var : v # trail[i].var /\ level[v] <= bt
                           => reason'[v] = reason[v]
       /\ reason'[trail[i].var] = Len(clauses) + 1
  <2>1. \A v \in Var : level[v] <= bt => v \notin Undone(bt)
    BY <1>6, <1>9, <1>10
  <2> QED BY <1>1, <1>3, <2>1
<1> QED BY <1>1, <1>3, <1>6, <1>7, <1>8, <1>11, <1>12, <1>13

\* What a backjump keeps: the trail up to the limit of the first level undone,
\* with the levels, values and reasons of its variables.
TruncatedTo(bt, top, p) ==
    /\ top = trailLim[bt + 1]
    /\ trailLim' = SubSeq(trailLim, 1, bt)
    /\ trail' \in Seq(Literal)
    /\ Len(trail') = top + 1
    /\ DOMAIN trail' = 1 .. top + 1
    /\ trail'[top + 1] = p
    /\ reason'[p.var] = Len(clauses) + 1
    /\ \A t \in 1 .. top :
         /\ trail'[t] = trail[t]
         /\ trail[t].var \in Var
         /\ trail[t].var # p.var
         /\ level[trail[t].var] \in 0 .. bt
         /\ assignment[trail[t].var] # "unset"
         /\ assignment'[trail[t].var] = assignment[trail[t].var]
         /\ level'[trail[t].var] = level[trail[t].var]
         /\ reason'[trail[t].var] = reason[trail[t].var]

LEMMA LearnKeeps ==
    ASSUME TypeOK, TrailOK, PhasesOK, NEW i \in DOMAIN trail, Learn(i)
    PROVE  \E bt \in 0 .. Len(trailLim) - 1 : \E top \in 0 .. Len(trail) :
             /\ BackjumpedTo(bt, Negate(trail[i]))
             /\ bt = 0 \/ \E l \in LearntNow : level[l.var] = bt
             /\ level' \in [Var -> 0 .. Len(trailLim')]
             /\ TruncatedTo(bt, top, Negate(trail[i]))
<1> DEFINE p == Negate(trail[i])
<1>1. PICK bt \in 0 .. Len(trailLim) - 1 :
         /\ p \in Literal /\ p.var \in Var /\ p.var = trail[i].var
         /\ BackjumpedTo(bt, p)
         /\ bt = 0 \/ \E l \in LearntNow : level[l.var] = bt
         /\ level' \in [Var -> 0 .. Len(trailLim')]
         /\ trail' = Append(SubSeq(trail, 1, trailLim[bt + 1]), p)
         /\ trailLim' = SubSeq(trailLim, 1, bt)
         /\ \A v \in Var : v # trail[i].var /\ level[v] <= bt
                             => reason'[v] = reason[v]
         /\ reason'[trail[i].var] = Len(clauses) + 1
  <2>1. trail[i] \in Literal
    BY DEF TypeOK
  <2> QED BY <2>1, LearnFacts, NegateFacts
<1> DEFINE top == trailLim[bt + 1]
<1>2. /\ Len(trailLim) \in Nat /\ Len(trail) \in Nat
      /\ DOMAIN trailLim = 1 .. Len(trailLim)
      /\ DOMAIN trail = 1 .. Len(trail)
      /\ \A k \in 1 .. Len(trailLim) : trailLim[k] \in 0 .. Len(trail)
      /\ \A t \in 1 .. Len(trail) : trail[t] \in Literal
      /\ bt \in Nat /\ bt + 1 \in DOMAIN trailLim
      /\ top \in 0 .. Len(trail)
  BY TrailTypes
<1>3. /\ SubSeq(trail, 1, top) \in Seq(Literal)
      /\ Len(SubSeq(trail, 1, top)) = top
      /\ \A t \in 1 .. top : SubSeq(trail, 1, top)[t] = trail[t]
  BY <1>2, SubSeqProperties
<1>4. /\ trail' \in Seq(Literal)
      /\ Len(trail') = top + 1
      /\ \A t \in 1 .. top : trail'[t] = trail[t]
      /\ trail'[top + 1] = p
      /\ DOMAIN trail' = 1 .. top + 1
  <2> DEFINE kept == SubSeq(trail, 1, top)
  <2>1. kept \in Seq(Literal) /\ Len(kept) = top /\ trail' = Append(kept, p)
           /\ top \in Nat
    BY <1>1, <1>2, <1>3
  <2>2. \A t \in 1 .. top : kept[t] = trail[t]
    BY <1>3
  <2>p. p \in Literal
    BY <1>1
  <2> HIDE DEF kept, top, p
  <2>3. /\ trail' \in Seq(Literal) /\ Len(trail') = top + 1
        /\ \A t \in 1 .. top : trail'[t] = kept[t]
        /\ trail'[top + 1] = p
    BY <2>p, <2>1, AppendProperties
  <2>4. DOMAIN trail' = 1 .. top + 1
    BY <2>3, LenProperties
  <2> QED BY <2>2, <2>3, <2>4
<1>5. \A t \in 1 .. top : /\ trail[t].var \in Var
                          /\ level[trail[t].var] \in 0 .. bt
                          /\ trail[t].var # p.var
                          /\ assignment[trail[t].var] # "unset"
  <2> SUFFICES ASSUME NEW t \in 1 .. top
               PROVE /\ trail[t].var \in Var
                     /\ level[trail[t].var] \in 0 .. bt
                     /\ trail[t].var # p.var
                     /\ assignment[trail[t].var] # "unset"
    OBVIOUS
  <2>1. t \in DOMAIN trail /\ ~(trailLim[bt + 1] < t)
    BY <1>2
  <2>2. trail[t].var \in Var /\ level[trail[t].var] \in Nat
    BY <1>2, <2>1, NegateFacts DEF TypeOK
  <2>3. ~(bt + 1 <= level[trail[t].var])
    BY <1>2, <2>1 DEF TrailOK, LevelsOnTrail
  <2>4. level[p.var] > bt
    BY <1>1 DEF BackjumpedTo
  <2> QED BY <1>2, <2>1, <2>2, <2>3, <2>4 DEF TrailOK, TrailOnlyAssigned
<1> DEFINE Kept(v) == assignment'[v] = assignment[v] /\ level'[v] = level[v]
<1>6. \A t \in 1 .. top : Kept(trail[t].var)
  <2>1. \A v \in Var : v # p.var /\ level[v] <= bt => Kept(v)
    BY <1>1 DEF BackjumpedTo
  <2>2. \A t \in 1 .. top : level[trail[t].var] <= bt
    BY <1>2, <1>5
  <2> QED BY <1>5, <2>1, <2>2
<1>7. \A t \in 1 .. top : reason'[trail[t].var] = reason[trail[t].var]
  <2>1. \A t \in 1 .. top : level[trail[t].var] <= bt
    BY <1>2, <1>5
  <2> QED BY <1>1, <1>5, <2>1
<1>8. TruncatedTo(bt, top, p)
  BY <1>1, <1>4, <1>5, <1>6, <1>7 DEF TruncatedTo
<1> QED BY <1>1, <1>2, <1>8

\* After a backjump the trail still holds the assigned variables by level.
LEMMA LearnTrail ==
    ASSUME TypeOK, TrailOK, PhasesOK, NEW i \in DOMAIN trail, Learn(i)
    PROVE  /\ trail' \in Seq(Literal)
           /\ trailLim' \in Seq(0 .. Len(trail'))
           /\ TrailOK'
<1> DEFINE p == Negate(trail[i])
<1>0. p \in Literal /\ p.var \in Var /\ p.var = trail[i].var
  <2>1. trail[i] \in Literal
    BY DEF TypeOK
  <2> QED BY <2>1, NegateFacts
<1>1. PICK bt \in 0 .. Len(trailLim) - 1 : \E t \in 0 .. Len(trail) :
         /\ BackjumpedTo(bt, p)
         /\ level' \in [Var -> 0 .. Len(trailLim')]
         /\ TruncatedTo(bt, t, p)
  BY LearnKeeps
<1> DEFINE top == trailLim[bt + 1]
<1>t. /\ trailLim' = SubSeq(trailLim, 1, bt)
      /\ trail' \in Seq(Literal)
      /\ Len(trail') = top + 1
      /\ DOMAIN trail' = 1 .. top + 1
      /\ trail'[top + 1] = p
      /\ \A t \in 1 .. top :
           /\ trail'[t] = trail[t]
           /\ trail[t].var \in Var
           /\ trail[t].var # p.var
           /\ level[trail[t].var] \in 0 .. bt
           /\ assignment[trail[t].var] # "unset"
           /\ assignment'[trail[t].var] = assignment[trail[t].var]
           /\ level'[trail[t].var] = level[trail[t].var]
  BY <1>1 DEF TruncatedTo
<1>2. /\ Len(trailLim) \in Nat /\ Len(trail) \in Nat
      /\ DOMAIN trailLim = 1 .. Len(trailLim)
      /\ DOMAIN trail = 1 .. Len(trail)
      /\ \A k \in 1 .. Len(trailLim) : trailLim[k] \in 0 .. Len(trail)
      /\ \A t \in 1 .. Len(trail) : trail[t] \in Literal
      /\ bt \in Nat /\ bt + 1 \in DOMAIN trailLim
      /\ top \in 0 .. Len(trail)
  BY TrailTypes
<1>5. \A k \in 1 .. bt : trailLim[k] \in 0 .. top
  <2> SUFFICES ASSUME NEW k \in 1 .. bt PROVE trailLim[k] \in 0 .. top
    OBVIOUS
  <2>1. k \in DOMAIN trailLim /\ k <= bt + 1
    BY <1>2
  <2>2. trailLim[k] <= top
    BY <1>2, <2>1 DEF TrailOK, LimitsAscend
  <2> QED BY <1>2, <2>1, <2>2
<1>6. /\ trailLim' \in Seq(0 .. top)
      /\ Len(trailLim') = bt
      /\ \A k \in 1 .. bt : trailLim'[k] = trailLim[k]
      /\ DOMAIN trailLim' = 1 .. bt
  <2>1. /\ SubSeq(trailLim, 1, bt) \in Seq(0 .. top)
        /\ Len(SubSeq(trailLim, 1, bt)) = bt
        /\ \A k \in 1 .. bt : SubSeq(trailLim, 1, bt)[k] = trailLim[k]
    BY <1>2, <1>5, SubSeqProperties
  <2> QED BY <1>0, <1>1, <1>t, <1>2, <2>1, LenProperties
<1>7. trailLim' \in Seq(0 .. Len(trail'))
  BY <1>0, <1>1, <1>2, <1>t, <1>6
<1>9. TrailOnlyAssigned'
  <2> SUFFICES ASSUME NEW t \in 1 .. top + 1
               PROVE  assignment'[trail'[t].var] # "unset"
    BY <1>0, <1>1, <1>t DEF TrailOnlyAssigned
  <2>1. CASE t = top + 1
    BY <1>0, <1>1, <1>t, <2>1, NegateFacts DEF BackjumpedTo
  <2>2. CASE t \in 1 .. top
    BY <1>0, <1>1, <1>t, <2>2
  <2> QED BY <1>2, <2>1, <2>2
<1>10. AssignedOnTrail'
  <2> SUFFICES ASSUME NEW v \in Var
               PROVE  IF assignment'[v] = "unset" THEN level'[v] = 0
                      ELSE \E t \in DOMAIN trail' : trail'[t].var = v
    BY DEF AssignedOnTrail
  <2>1. CASE v = p.var
    <3>1. top + 1 \in DOMAIN trail' /\ trail'[top + 1].var = v
      BY <1>0, <1>1, <1>2, <1>t, <2>1
    <3>2. assignment'[v] # "unset"
      BY <1>0, <1>1, <1>t, <2>1, NegateFacts DEF BackjumpedTo
    <3> QED BY <3>1, <3>2
  <2>2. CASE v # p.var /\ ~(level[v] <= bt)
    BY <1>0, <1>1, <1>t, <2>2 DEF BackjumpedTo
  <2>3. CASE v # p.var /\ level[v] <= bt /\ assignment[v] = "unset"
    BY <1>0, <1>1, <1>t, <2>3 DEF BackjumpedTo, TrailOK, AssignedOnTrail
  <2>4. CASE v # p.var /\ level[v] <= bt /\ assignment[v] # "unset"
    <3>1. PICK t \in DOMAIN trail : trail[t].var = v
      BY <2>4 DEF TrailOK, AssignedOnTrail
    <3>2. ~(trailLim[bt + 1] < t)
      <4>1. level[v] \in Nat
        BY DEF TypeOK
      <4> QED BY <1>2, <2>4, <3>1, <4>1 DEF TrailOK, LevelsOnTrail
    <3>3. t \in 1 .. top
      BY <1>2, <3>1, <3>2
    <3>4. t \in DOMAIN trail' /\ trail'[t].var = v
      BY <1>0, <1>1, <1>2, <1>t, <3>1, <3>3
    <3>5. assignment'[v] # "unset"
      BY <1>0, <1>1, <1>t, <2>4 DEF BackjumpedTo
    <3> QED BY <3>4, <3>5
  <2> QED BY <2>1, <2>2, <2>3, <2>4
<1>11. LevelsOnTrail'
  <2> SUFFICES ASSUME NEW k \in 1 .. bt, NEW t \in 1 .. top + 1
               PROVE  trailLim[k] < t <=> k <= level'[trail'[t].var]
    BY <1>0, <1>1, <1>t, <1>6 DEF LevelsOnTrail
  <2>1. CASE t = top + 1
    <3>1. level'[trail'[t].var] = bt
      BY <1>0, <1>1, <1>t, <2>1 DEF BackjumpedTo
    <3> QED BY <1>2, <1>5, <2>1, <3>1
  <2>2. CASE t \in 1 .. top
    <3>1. level'[trail'[t].var] = level[trail[t].var]
      BY <1>0, <1>1, <1>t, <2>2
    <3>2. t \in DOMAIN trail /\ k \in DOMAIN trailLim
      BY <1>2, <2>2
    <3> QED BY <3>1, <3>2 DEF TrailOK, LevelsOnTrail
  <2> QED BY <1>2, <2>1, <2>2
<1>12. LimitsAscend'
  BY <1>2, <1>6 DEF TrailOK, LimitsAscend
<1> QED BY <1>0, <1>1, <1>t, <1>7, <1>9, <1>10, <1>11, <1>12 DEF TrailOK

-----------------------------------------------------------------------------
(* Type correctness, with the phases and the trail it depends on. *)

TypeInv == TypeOK /\ PhasesOK /\ TrailOK

\* The variables the trail invariant and its types speak of.
trailVars == <<clauses, assignment, reason, level, trail, trailLim>>

\* A step that leaves the trail and the clauses alone.
LEMMA TrailUnchanged ==
    ASSUME TypeInv, UNCHANGED trailVars
    PROVE  /\ TrailOK'
           /\ clauses' \in Formula
           /\ assignment' \in [Var -> {"unset", "true", "false"}]
           /\ reason' \in [Var -> 0 .. Len(clauses')]
           /\ level' \in [Var -> 0 .. Len(trailLim')]
           /\ trail' \in Seq(Literal)
           /\ trailLim' \in Seq(0 .. Len(trail'))
<1>1. TrailOK'
  BY DEF TypeInv, trailVars, TrailOK, TrailOnlyAssigned, AssignedOnTrail,
         LevelsOnTrail, LimitsAscend
<1> QED BY <1>1 DEF TypeInv, TypeOK, trailVars

\* No variable is assigned at the start.
LEMMA InitTypes == Init => TypeInv
<1> SUFFICES ASSUME Init PROVE TypeInv
  OBVIOUS
<1>1. formula \in Formula /\ assumptions \in Seq(Literal)
  BY FormulasAssumption, AssumptionSetsAssumption DEF Init
<1>2. Len(formula) \in Nat
  BY <1>1 DEF Formula
<1>3. reason \in [Var -> 0 .. Len(clauses)] /\ level \in [Var -> 0 .. 0]
  BY <1>2 DEF Init
<1>4. trail \in Seq(Literal) /\ trailLim \in Seq(0 .. Len(trail))
         /\ Len(trailLim) = 0 /\ propQueue \in Seq(Literal)
         /\ DOMAIN trail = {} /\ DOMAIN trailLim = {}
  BY EmptySeq DEF Init
<1>5. analysis \in [c : 0 .. Len(clauses), seen : SUBSET Var,
                    learnt : SUBSET Literal, pathC : Int, index : Nat]
  BY <1>2 DEF Init, NoAnalysis
<1>6. TypeOK
  BY <1>1, <1>3, <1>4, <1>5 DEF Init, TypeOK
<1>7. PhasesOK
  BY DEF Init, PhasesOK, Seeding
<1>8. TrailOK
  BY <1>4 DEF Init, TrailOK, TrailOnlyAssigned, AssignedOnTrail,
              LevelsOnTrail, LimitsAscend
<1> QED BY <1>6, <1>7, <1>8 DEF TypeInv

\* Seeding assigns at level 0, twice if two unit clauses disagree.
LEMMA SeedUnitTypes ==
    ASSUME TypeInv, SeedUnit
    PROVE  TypeInv'
<1>1. /\ UNCHANGED <<formula, assumptions, clauses, trailLim, pc, analysis>>
      /\ pc = "seed" /\ trailLim = <<>>
      /\ cursor' = cursor + 1 /\ cursor' \in Nat
  BY DEF SeedUnit, TypeInv, TypeOK, PhasesOK, Seeding
<1>2. PhasesOK'
  BY <1>1 DEF PhasesOK, Seeding
<1>3. CASE UNCHANGED <<assignment, reason, level, trail, propQueue>>
  BY <1>1, <1>2, <1>3, TrailUnchanged DEF TypeInv, TypeOK, trailVars
<1>4. CASE \E l \in Literal : /\ Assign(l, cursor + 1)
                              /\ propQueue' = Append(propQueue, l)
  <2>1. PICK l \in Literal : /\ Assign(l, cursor + 1)
                             /\ propQueue' = Append(propQueue, l)
    BY <1>4
  <2>2. cursor + 1 \in 0 .. Len(clauses) /\ TypeOK /\ TrailOK
    <3>1. TypeOK /\ TrailOK /\ cursor \in Nat /\ clauses \in Seq(Clause)
      BY DEF TypeInv, TypeOK, Formula
    <3>2. cursor < Len(clauses) /\ Len(clauses) \in Nat
      BY <3>1, LenProperties DEF SeedUnit
    <3> QED BY <3>1, <3>2
  <2>3. propQueue' \in Seq(Literal)
    BY <2>1, <2>2, AppendProperties DEF TypeOK
  <2> QED BY <1>1, <1>2, <2>1, <2>2, <2>3, AssignFacts DEF TypeInv, TypeOK
<1> QED BY <1>3, <1>4 DEF SeedUnit

\* An assumption is assigned only while its variable is unset.
LEMMA AssumeTypes ==
    ASSUME TypeInv, Assume
    PROVE  TypeInv'
<1> DEFINE a == assumptions[cursor + 1]
<1>1. /\ UNCHANGED <<formula, assumptions, clauses, trailLim, analysis>>
      /\ pc = "assume" /\ trailLim = <<>>
      /\ cursor' = cursor + 1 /\ cursor' \in Nat
      /\ cursor' <= Len(assumptions)
      /\ pc' \in {"assume", "unsat"}
      /\ a \in Literal
  BY DEF Assume, TypeInv, TypeOK, PhasesOK, Seeding
<1>2. PhasesOK'
  BY <1>1 DEF PhasesOK, Seeding
<1>3. CASE UNCHANGED <<assignment, reason, level, trail, propQueue>>
  BY <1>1, <1>2, <1>3, TrailUnchanged DEF TypeInv, TypeOK, trailVars
<1>4. CASE Assign(a, 0) /\ propQueue' = Append(propQueue, a)
  <2>1. 0 \in 0 .. Len(clauses) /\ TypeOK /\ TrailOK
    BY DEF TypeInv, TypeOK, Formula
  <2>2. propQueue' \in Seq(Literal)
    BY <1>1, <1>4, <2>1, AppendProperties DEF TypeOK
  <2> QED BY <1>1, <1>2, <1>4, <2>1, <2>2, AssignFacts DEF TypeInv, TypeOK
<1> QED BY <1>3, <1>4 DEF Assume

\* A visit assigns an unset literal, or hands a conflict to the analysis.
LEMMA VisitTypes ==
    ASSUME TypeInv, NEW i \in DOMAIN clauses, Visit(i)
    PROVE  TypeInv'
<1>1. /\ UNCHANGED <<formula, assumptions, clauses, trailLim>>
      /\ pc = "propagate"
      /\ i \in 1 .. Len(clauses) /\ Len(clauses) \in Nat /\ Len(trail) \in Nat
      /\ DOMAIN clauses = 1 .. Len(clauses)
      /\ propQueue \in Seq(Literal) /\ propQueue # <<>>
      /\ TypeOK /\ TrailOK
  <2>1. TypeOK /\ TrailOK /\ pc = "propagate" /\ propQueue # <<>>
           /\ UNCHANGED <<formula, assumptions, clauses, trailLim>>
    BY DEF Visit, TypeInv
  <2>2. clauses \in Seq(Clause) /\ propQueue \in Seq(Literal)
    BY <2>1 DEF TypeOK, Formula
  <2> QED BY <2>1, <2>2, TrailTypes, LenProperties
<1>2. CASE /\ cursor' = i
           /\ UNCHANGED <<assignment, reason, level, trail, propQueue, pc,
                          analysis>>
  <2>1. PhasesOK'
    BY <1>1, <1>2 DEF PhasesOK, Seeding
  <2> QED BY <1>1, <1>2, <2>1, TrailUnchanged DEF TypeInv, TypeOK, trailVars
<1>3. CASE \E l \in clauses[i] :
              /\ IsUnit(clauses[i]) /\ IsUnset(l)
              /\ Assign(l, i)
              /\ propQueue' = Append(propQueue, l)
              /\ cursor' = i
              /\ UNCHANGED <<pc, analysis>>
  <2>1. PICK l \in clauses[i] : /\ IsUnset(l)
                                /\ Assign(l, i)
                                /\ propQueue' = Append(propQueue, l)
                                /\ cursor' = i
                                /\ UNCHANGED <<pc, analysis>>
    BY <1>3
  <2>2. l \in Literal /\ i \in 0 .. Len(clauses)
    BY <1>1, ClauseLiterals
  <2>3. propQueue' \in Seq(Literal) /\ propQueue' # <<>>
    BY <1>1, <2>1, <2>2, AppendProperties
  <2>4. PhasesOK'
    BY <1>1, <2>1, <2>3 DEF PhasesOK, Seeding
  <2>5. /\ assignment' \in [Var -> {"unset", "true", "false"}]
        /\ reason' \in [Var -> 0 .. Len(clauses')]
        /\ level' \in [Var -> 0 .. Len(trailLim')]
        /\ trail' \in Seq(Literal)
        /\ trailLim' \in Seq(0 .. Len(trail'))
        /\ TrailOK'
    BY <1>1, <2>1, <2>2, AssignFacts
  <2>6. TypeOK'
    BY <1>1, <2>1, <2>3, <2>5 DEF TypeOK
  <2> QED BY <2>4, <2>5, <2>6 DEF TypeInv
<1>4. CASE /\ propQueue' = Tail(propQueue)
           /\ cursor' = 0
           /\ pc' = IF trailLim = <<>> THEN "unsat" ELSE "analyze"
           /\ analysis' = AnalysisOf(i)
           /\ UNCHANGED <<assignment, reason, level, trail>>
  <2>1. propQueue' \in Seq(Literal)
    BY <1>1, <1>4, HeadTailProperties
  <2>2. /\ analysis'.c = i
        /\ analysis' \in [c : 0 .. Len(clauses'), seen : SUBSET Var,
                          learnt : SUBSET Literal, pathC : Int, index : Nat]
    BY <1>1, <1>4 DEF AnalysisOf
  <2>3. PhasesOK'
    BY <1>1, <1>4, <2>2 DEF PhasesOK, Seeding
  <2> QED
    BY <1>1, <1>4, <2>1, <2>2, <2>3, TrailUnchanged
    DEF TypeInv, TypeOK, trailVars
<1> QED BY <1>2, <1>3, <1>4 DEF Visit

\* The turns of analyze touch its locals only.
LEMMA ResolveTypes ==
    ASSUME TypeInv, NEW i \in DOMAIN trail, Resolve(i)
    PROVE  TypeInv'
<1>1. /\ UNCHANGED <<formula, assumptions, clauses, assignment, reason, level,
                     trail, trailLim, propQueue, cursor, pc>>
      /\ pc = "analyze" /\ TypeOK /\ PhasesOK
      /\ analysis.c \in DOMAIN clauses
  BY DEF Resolve, TypeInv, PhasesOK
<1>2. /\ trail[i] \in Literal /\ i \in Nat /\ trail[i].var \in Var
  BY <1>1, TrailTypes, NegateFacts
<1>3. /\ reason[trail[i].var] \in 0 .. Len(clauses)
      /\ reason[trail[i].var] # 0
      /\ DOMAIN clauses = 1 .. Len(clauses)
      /\ Len(clauses) \in Nat
  BY <1>1, <1>2 DEF TypeOK, Formula, Resolve, StopsAt
<1>4. /\ LearntNow \subseteq Literal /\ SeenNow \subseteq Var
      /\ PathC \in Int
  BY <1>1, AnalysisTypes
<1>5. /\ analysis'.c = reason[trail[i].var]
      /\ analysis' \in [c : 0 .. Len(clauses'), seen : SUBSET Var,
                        learnt : SUBSET Literal, pathC : Int, index : Nat]
  BY <1>1, <1>2, <1>3, <1>4 DEF Resolve
<1>6. PhasesOK'
  BY <1>1, <1>3, <1>5 DEF PhasesOK, Seeding
<1> QED
  BY <1>1, <1>5, <1>6, TrailUnchanged DEF TypeInv, TypeOK, trailVars

\* A backjump leaves the levels it keeps as they were.
LEMMA LearnTypes ==
    ASSUME TypeInv, NEW i \in DOMAIN trail, Learn(i)
    PROVE  TypeInv'
<1> DEFINE p == Negate(trail[i])
<1>1. /\ UNCHANGED <<formula, assumptions, cursor>>
      /\ pc = "analyze" /\ pc' = "propagate" /\ analysis' = NoAnalysis
      /\ TypeOK /\ TrailOK /\ PhasesOK
      /\ cursor = 0
  BY DEF Learn, TypeInv, PhasesOK
<1>2. PICK bt \in 0 .. Len(trailLim) - 1 :
         /\ p \in Literal
         /\ BackjumpedTo(bt, p)
         /\ reason' \in [Var -> 0 .. Len(clauses')]
         /\ assignment' \in [Var -> {"unset", "true", "false"}]
         /\ level' \in [Var -> 0 .. Len(trailLim')]
  BY <1>1, LearnFacts
<1>3. clauses' \in Formula /\ Len(clauses') \in Nat
  <2>1. clauses \in Seq(SUBSET Literal)
    BY <1>1 DEF TypeOK, Formula, Clause
  <2>2. clauses' = Append(clauses, LearntNow \cup {p})
           /\ LearntNow \cup {p} \in SUBSET Literal
    BY <1>2 DEF BackjumpedTo
  <2>3. clauses' \in Seq(SUBSET Literal)
    BY <2>1, <2>2, AppendProperties
  <2> QED BY <2>3, LenProperties DEF Formula, Clause
<1>4. propQueue' \in Seq(Literal) /\ propQueue' # <<>>
  <2>1. propQueue \in Seq(Literal)
    BY <1>1 DEF TypeOK
  <2>2. propQueue' = Append(propQueue, p)
    BY <1>2 DEF BackjumpedTo
  <2> QED BY <1>2, <2>1, <2>2, AppendProperties
<1>5. TrailOK' /\ trail' \in Seq(Literal) /\ trailLim' \in Seq(0 .. Len(trail'))
  BY <1>1, LearnTrail
<1>6. analysis' \in [c : 0 .. Len(clauses'), seen : SUBSET Var,
                     learnt : SUBSET Literal, pathC : Int, index : Nat]
  BY <1>1, <1>3 DEF NoAnalysis
<1>7. TypeOK'
  BY <1>1, <1>2, <1>3, <1>4, <1>5, <1>6 DEF TypeOK
<1>8. PhasesOK'
  BY <1>1, <1>4 DEF PhasesOK, Seeding
<1> QED BY <1>5, <1>7, <1>8 DEF TypeInv

\* A decision opens a level whose limit is the length of the trail.
LEMMA DecideTypes ==
    ASSUME TypeInv, NEW v \in Var, Decide(v)
    PROVE  TypeInv'
<1> DEFINE dl == Len(trailLim)
<1>1. /\ UNCHANGED <<formula, assumptions, clauses, cursor, pc, analysis>>
      /\ pc = "propagate" /\ propQueue' = <<Pos(v)>>
      /\ trailLim' = Append(trailLim, Len(trail))
      /\ trail' = Append(trail, Pos(v))
      /\ assignment' = [assignment EXCEPT ![v] = "true"]
      /\ reason' = [reason EXCEPT ![v] = 0]
      /\ level' = [level EXCEPT ![v] = dl + 1]
      /\ TypeOK /\ PhasesOK /\ TrailOK
      /\ assignment[v] = "unset"
  BY DEF Decide, TypeInv, DecisionLevel
<1>2. /\ Len(trailLim) \in Nat /\ Len(trail) \in Nat
      /\ DOMAIN trailLim = 1 .. dl
      /\ DOMAIN trail = 1 .. Len(trail)
      /\ \A k \in 1 .. dl : trailLim[k] \in 0 .. Len(trail)
      /\ \A t \in 1 .. Len(trail) : trail[t] \in Literal
      /\ trail \in Seq(Literal) /\ trailLim \in Seq(0 .. Len(trail))
  BY <1>1, TrailTypes DEF TypeOK
<1>3. Pos(v) \in Literal /\ Pos(v).var = v
  BY DEF Pos, Literal
<1>4. /\ trail' \in Seq(Literal) /\ Len(trail') = Len(trail) + 1
      /\ \A t \in 1 .. Len(trail) : trail'[t] = trail[t]
      /\ trail'[Len(trail) + 1] = Pos(v)
      /\ DOMAIN trail' = 1 .. Len(trail) + 1
  BY <1>1, <1>2, <1>3, AppendProperties, LenProperties
<1>5. /\ trailLim' \in Seq(0 .. Len(trail')) /\ Len(trailLim') = dl + 1
      /\ \A k \in 1 .. dl : trailLim'[k] = trailLim[k]
      /\ trailLim'[dl + 1] = Len(trail)
      /\ DOMAIN trailLim' = 1 .. dl + 1
  <2>1. trailLim \in Seq(0 .. Len(trail)) /\ Len(trail) \in 0 .. Len(trail)
    BY <1>2
  <2>2. /\ trailLim' \in Seq(0 .. Len(trail)) /\ Len(trailLim') = dl + 1
        /\ \A k \in 1 .. dl : trailLim'[k] = trailLim[k]
        /\ trailLim'[dl + 1] = Len(trail)
    BY <1>1, <2>1, AppendProperties
  <2>3. DOMAIN trailLim' = 1 .. dl + 1
    BY <2>2, LenProperties
  <2>4. trailLim' \in Seq(0 .. Len(trail'))
    BY <1>2, <1>4, <2>2
  <2> QED BY <2>2, <2>3, <2>4
<1>6. assignment' \in [Var -> {"unset", "true", "false"}]
         /\ assignment'[v] = "true"
         /\ \A w \in Var : w # v => assignment'[w] = assignment[w]
  BY <1>1 DEF TypeOK
<1>7. reason' \in [Var -> 0 .. Len(clauses')]
  BY <1>1 DEF TypeOK, Formula
<1>8. /\ level' \in [Var -> 0 .. dl + 1]
      /\ level'[v] = dl + 1
      /\ \A w \in Var : w # v => level'[w] = level[w]
      /\ \A w \in Var : level[w] \in 0 .. dl
  BY <1>1, <1>2 DEF TypeOK
<1>9. propQueue' \in Seq(Literal) /\ propQueue' # <<>>
  BY <1>1, <1>3
<1>10. TypeOK'
  BY <1>1, <1>4, <1>5, <1>6, <1>7, <1>8, <1>9 DEF TypeOK
<1>11. PhasesOK'
  BY <1>1, <1>9 DEF PhasesOK, Seeding
<1>12. \A t \in 1 .. Len(trail) : trail[t].var \in Var /\ trail[t].var # v
  BY <1>1, <1>2, NegateFacts DEF TrailOK, TrailOnlyAssigned
<1>13. TrailOnlyAssigned'
  <2> SUFFICES ASSUME NEW t \in 1 .. Len(trail) + 1
               PROVE  assignment'[trail'[t].var] # "unset"
    BY <1>4 DEF TrailOnlyAssigned
  <2>1. CASE t = Len(trail) + 1
    BY <1>3, <1>4, <1>6, <2>1
  <2>2. CASE t \in 1 .. Len(trail)
    <3>1. assignment[trail[t].var] # "unset"
      BY <1>1, <1>2, <2>2 DEF TrailOK, TrailOnlyAssigned
    <3> QED BY <1>4, <1>6, <1>12, <2>2, <3>1
  <2> QED BY <1>2, <2>1, <2>2
<1>14. AssignedOnTrail'
  <2> SUFFICES ASSUME NEW w \in Var
               PROVE  IF assignment'[w] = "unset" THEN level'[w] = 0
                      ELSE \E t \in DOMAIN trail' : trail'[t].var = w
    BY DEF AssignedOnTrail
  <2>1. CASE w = v
    BY <1>2, <1>3, <1>4, <1>6, <2>1
  <2>2. CASE w # v
    <3>1. assignment'[w] = assignment[w] /\ level'[w] = level[w]
      BY <1>6, <1>8, <2>2
    <3>2. \A t \in DOMAIN trail : t \in DOMAIN trail' /\ trail'[t] = trail[t]
      BY <1>2, <1>4
    <3> QED BY <1>1, <3>1, <3>2 DEF TrailOK, AssignedOnTrail
  <2> QED BY <2>1, <2>2
<1>15. LevelsOnTrail'
  <2> SUFFICES ASSUME NEW k \in 1 .. dl + 1, NEW t \in 1 .. Len(trail) + 1
               PROVE  trailLim'[k] < t <=> k <= level'[trail'[t].var]
    BY <1>4, <1>5 DEF LevelsOnTrail
  <2> HIDE DEF dl
  <2>0. dl \in Nat
    BY <1>2 DEF dl
  <2>1. CASE t = Len(trail) + 1
    <3>1. level'[trail'[t].var] = dl + 1
      BY <1>3, <1>4, <1>8, <2>1
    <3>2. Len(trail) \in Nat
      BY <1>2
    <3>3. trailLim'[k] \in 0 .. Len(trail)
      <4>1. CASE k = dl + 1
        BY <1>5, <3>2, <4>1
      <4>2. CASE k \in 1 .. dl
        BY <1>2, <1>5, <4>2
      <4> QED BY <2>0, <4>1, <4>2
    <3> QED BY <2>0, <2>1, <3>1, <3>2, <3>3
  <2>2. CASE t \in 1 .. Len(trail) /\ k = dl + 1
    <3>1. level'[trail'[t].var] \in 0 .. dl
      BY <1>4, <1>8, <1>12, <2>2
    <3>2. trailLim'[k] = Len(trail)
      BY <1>5, <2>2
    <3> QED BY <1>2, <2>0, <2>2, <3>1, <3>2
  <2>3. CASE t \in 1 .. Len(trail) /\ k \in 1 .. dl
    <3>1. trailLim'[k] = trailLim[k]
             /\ level'[trail'[t].var] = level[trail[t].var]
      BY <1>4, <1>5, <1>8, <1>12, <2>3
    <3> QED BY <1>1, <1>2, <2>3, <3>1 DEF TrailOK, LevelsOnTrail
  <2> QED BY <1>2, <2>0, <2>1, <2>2, <2>3
<1>16. LimitsAscend'
  <2> SUFFICES ASSUME NEW j \in 1 .. dl + 1, NEW k \in 1 .. dl + 1, j <= k
               PROVE  trailLim'[j] <= trailLim'[k]
    BY <1>5 DEF LimitsAscend
  <2> HIDE DEF dl
  <2>0. dl \in Nat
    BY <1>2 DEF dl
  <2>1. CASE k = dl + 1 /\ j = dl + 1
    BY <1>2, <1>5, <2>1
  <2>2. CASE k = dl + 1 /\ j \in 1 .. dl
    <3>1. trailLim'[j] \in 0 .. Len(trail) /\ trailLim'[k] = Len(trail)
      BY <1>2, <1>5, <2>2
    <3> QED BY <1>2, <3>1
  <2>3. CASE k \in 1 .. dl
    <3>1. j \in 1 .. dl
      BY <2>0, <2>3
    <3>2. trailLim[j] <= trailLim[k]
      BY <1>1, <1>2, <2>3, <3>1 DEF TrailOK, LimitsAscend
    <3> QED BY <1>5, <2>3, <3>1, <3>2
  <2> QED BY <2>0, <2>1, <2>2, <2>3
<1> QED
  BY <1>10, <1>11, <1>13, <1>14, <1>15, <1>16 DEF TypeInv, TrailOK

\* Every step keeps the types, the phases and the trail.
LEMMA StepTypes == TypeInv /\ [Next]_vars => TypeInv'
<1> SUFFICES ASSUME TypeInv, [Next]_vars PROVE TypeInv'
  OBVIOUS
<1>1. CASE SeedDone
  <2>1. UNCHANGED trailVars /\ PhasesOK'
    BY <1>1 DEF SeedDone, TypeInv, TypeOK, PhasesOK, Seeding, trailVars
  <2> QED BY <1>1, <2>1, TrailUnchanged DEF SeedDone, TypeInv, TypeOK
<1>2. CASE AssumeDone
  <2>1. UNCHANGED trailVars /\ PhasesOK'
    BY <1>2 DEF AssumeDone, TypeInv, PhasesOK, Seeding, trailVars
  <2> QED BY <1>2, <2>1, TrailUnchanged DEF AssumeDone, TypeInv, TypeOK
<1>3. CASE PopHead
  <2>1. UNCHANGED trailVars /\ PhasesOK'
    BY <1>3 DEF PopHead, TypeInv, PhasesOK, Seeding, trailVars
  <2>2. propQueue' \in Seq(Literal)
    BY <1>3, HeadTailProperties DEF PopHead, TypeInv, TypeOK
  <2> QED BY <1>3, <2>1, <2>2, TrailUnchanged DEF PopHead, TypeInv, TypeOK
<1>4. CASE Satisfied
  <2>1. UNCHANGED trailVars /\ PhasesOK'
    BY <1>4 DEF Satisfied, TypeInv, PhasesOK, Seeding, trailVars, AllAssigned
  <2> QED BY <1>4, <2>1, TrailUnchanged DEF Satisfied, TypeInv, TypeOK
<1>5. CASE UNCHANGED vars
  <2>1. UNCHANGED trailVars /\ PhasesOK'
    BY <1>5 DEF vars, TypeInv, PhasesOK, Seeding, trailVars, AllAssigned
  <2> QED BY <1>5, <2>1, TrailUnchanged DEF vars, TypeInv, TypeOK
<1> QED
  BY <1>1, <1>2, <1>3, <1>4, <1>5, SeedUnitTypes, AssumeTypes, VisitTypes,
     ResolveTypes, LearnTypes, DecideTypes
  DEF Next, Step, Returned

\* Clauses are only added: the formula is always a prefix.
LEMMA PrefixStep == TypeInv /\ FormulaIsPrefix /\ [Next]_vars => FormulaIsPrefix'
<1> SUFFICES ASSUME TypeInv, FormulaIsPrefix, [Next]_vars
             PROVE  FormulaIsPrefix'
  OBVIOUS
<1>0. TypeOK /\ TrailOK /\ PhasesOK
  BY DEF TypeInv
<1>1. CASE UNCHANGED <<formula, clauses>>
  BY <1>1 DEF FormulaIsPrefix
<1>2. CASE \E i \in DOMAIN trail : Learn(i)
  <2> PICK i \in DOMAIN trail : Learn(i)
    BY <1>2
  <2>1. PICK c : c \in SUBSET Literal /\ clauses' = Append(clauses, c)
    BY <1>0, LearnFacts DEF BackjumpedTo
  <2>2. clauses \in Seq(SUBSET Literal) /\ formula \in Seq(SUBSET Literal)
           /\ formula' = formula
    BY <1>0 DEF TypeOK, Formula, Clause, Learn
  <2>3. /\ Len(clauses') = Len(clauses) + 1
        /\ \A j \in 1 .. Len(clauses) : clauses'[j] = clauses[j]
    BY <2>1, <2>2, AppendProperties
  <2> QED BY <2>2, <2>3, LenProperties DEF FormulaIsPrefix
<1> QED
  BY <1>1, <1>2
  DEF Next, Step, Returned, vars, SeedUnit, SeedDone, Assume, AssumeDone,
      Visit, PopHead, Resolve, Decide, Satisfied

\* Type correctness: every index stays within its vector, and the limits of
\* the trail stay within the trail.
THEOREM TypeCorrect == Spec => []TypeOK
<1>1. Spec => []TypeInv
  BY InitTypes, StepTypes, PTL DEF Spec
<1>2. TypeInv => TypeOK
  BY DEF TypeInv
<1> QED BY <1>1, <1>2, PTL

RootInv == RootIsImplied /\ LearntAboveRoot

\* At level 0 the assignment agrees with every model.
LEMMA RootLiteral ==
    ASSUME TypeOK, RootIsImplied, NEW m \in Models(clauses, assumptions),
           NEW l \in Literal, level[l.var] = 0
    PROVE  /\ IsFalse(l) => ~Holds(l, m)
           /\ IsTrue(l) => Holds(l, m)
<1>1. l.var \in Var /\ l.negated \in BOOLEAN /\ Negate(l).negated = ~l.negated
  BY DEF Literal, Negate
<1>2. assignment[l.var] # "unset" => (l.var \in m <=> assignment[l.var] = "true")
  BY <1>1 DEF RootIsImplied
<1>3. CASE l.negated
  BY <1>1, <1>2, <1>3 DEF IsFalse, IsTrue, TruthOf, Holds
<1>4. CASE ~l.negated
  BY <1>1, <1>2, <1>4 DEF IsFalse, IsTrue, TruthOf, Holds
<1> QED BY <1>1, <1>3, <1>4

\* Assigning a literal that every model makes true, or one above level 0.
LEMMA RootAssign ==
    ASSUME TypeOK, RootIsImplied, NEW l \in Literal, NEW r, Assign(l, r),
           UNCHANGED <<clauses, assumptions, trailLim, pc>>,
           \/ Len(trailLim) # 0
           \/ \A m \in Models(clauses, assumptions) : Holds(l, m)
    PROVE  RootIsImplied'
<1> SUFFICES ASSUME NEW m \in Models(clauses, assumptions),
                    NEW v \in Var, assignment'[v] # "unset", level'[v] = 0
             PROVE  v \in m <=> assignment'[v] = "true"
  BY DEF RootIsImplied
<1>1. /\ level' = [level EXCEPT ![l.var] = Len(trailLim)]
      /\ assignment' = [assignment EXCEPT ![l.var] = TruthOf(l)]
      /\ level \in [Var -> 0 .. Len(trailLim)]
      /\ assignment \in [Var -> {"unset", "true", "false"}]
      /\ l.var \in Var /\ l.negated \in BOOLEAN
  BY NegateFacts DEF Assign, TypeOK, DecisionLevel, Literal
<1>2. CASE v = l.var
  <2>1. Holds(l, m) /\ assignment'[v] = TruthOf(l)
    BY <1>1, <1>2
  <2>2. CASE l.negated
    BY <1>2, <2>1, <2>2 DEF Holds, TruthOf
  <2>3. CASE ~l.negated
    BY <1>2, <2>1, <2>3 DEF Holds, TruthOf
  <2> QED BY <1>1, <2>2, <2>3
<1>3. CASE v # l.var
  BY <1>1, <1>3 DEF RootIsImplied
<1> QED BY <1>2, <1>3

\* Nothing is assigned at the start.
LEMMA InitRoot == Init => RootInv
BY DEF Init, RootInv, RootIsImplied, LearntAboveRoot

\* A model satisfies every clause and every assumption.
LEMMA ModelFacts ==
    ASSUME NEW m \in Models(clauses, assumptions)
    PROVE  /\ \A i \in DOMAIN clauses : \E l \in clauses[i] : Holds(l, m)
           /\ \A i \in DOMAIN assumptions : Holds(assumptions[i], m)
BY DEF Models, IsModel, Satisfies

\* A unit clause of the formula holds in every model.
LEMMA SeedUnitRoot ==
    ASSUME TypeInv, RootInv, SeedUnit
    PROVE  RootInv'
<1>1. TypeOK /\ UNCHANGED <<clauses, assumptions, trailLim, pc, analysis>>
         /\ pc = "seed" /\ cursor + 1 \in DOMAIN clauses
  <2>1. TypeOK /\ UNCHANGED <<clauses, assumptions, trailLim, pc, analysis>>
           /\ pc = "seed" /\ cursor < Len(clauses)
    BY DEF TypeInv, SeedUnit
  <2>2. cursor \in Nat /\ clauses \in Seq(Clause)
    BY <2>1 DEF TypeOK, Formula
  <2> QED BY <2>1, <2>2, LenProperties
<1>2. LearntAboveRoot'
  BY <1>1 DEF LearntAboveRoot
<1>3. CASE UNCHANGED <<assignment, level>>
  BY <1>1, <1>3 DEF RootInv, RootIsImplied, LearntAboveRoot
<1>4. CASE \E l \in Literal : clauses[cursor + 1] = {l} /\ Assign(l, cursor + 1)
  <2> PICK l \in Literal : clauses[cursor + 1] = {l} /\ Assign(l, cursor + 1)
    BY <1>4
  <2>1. \A m \in Models(clauses, assumptions) : Holds(l, m)
    BY <1>1, ModelFacts
  <2> QED BY <1>1, <1>2, <2>1, RootAssign DEF RootInv
<1> QED BY <1>3, <1>4 DEF SeedUnit

\* So does an assumption; one that is false already excludes every model.
LEMMA AssumeRoot ==
    ASSUME TypeInv, RootInv, Assume
    PROVE  RootInv'
<1> DEFINE a == assumptions[cursor + 1]
<1>1. /\ TypeOK /\ UNCHANGED <<clauses, assumptions, trailLim, analysis>>
      /\ pc = "assume" /\ cursor + 1 \in DOMAIN assumptions
      /\ trailLim = <<>> /\ a \in Literal
  BY DEF TypeInv, TypeOK, Assume, PhasesOK, Seeding
<1>2. LearntAboveRoot'
  BY <1>1 DEF Assume, LearntAboveRoot
<1>3. \A m \in Models(clauses, assumptions) : Holds(a, m)
  BY <1>1, ModelFacts
<1>4. CASE UNCHANGED <<assignment, level, pc>>
  BY <1>1, <1>4 DEF RootInv, RootIsImplied, LearntAboveRoot
<1>5. CASE Assign(a, 0) /\ pc' = pc
  BY <1>1, <1>2, <1>3, <1>5, RootAssign DEF RootInv
<1>6. CASE IsFalse(a) /\ pc' = "unsat"
  <2>1. level[a.var] = 0
    BY <1>1, NegateFacts DEF TypeOK
  <2>2. Models(clauses, assumptions) = {}
    BY <1>1, <1>3, <1>6, <2>1, RootLiteral DEF RootInv
  <2> QED BY <1>1, <1>2, <2>2 DEF RootInv, RootIsImplied
<1> QED BY <1>4, <1>5, <1>6 DEF Assume

\* At level 0 a clause with one unset literal forces it in every model, and a
\* falsified one leaves no model.
LEMMA VisitRoot ==
    ASSUME TypeInv, RootInv, NEW i \in DOMAIN clauses, Visit(i)
    PROVE  RootInv'
<1>1. TypeOK /\ UNCHANGED <<clauses, assumptions, trailLim>>
         /\ pc = "propagate" /\ Len(trailLim) \in Nat
  BY TrailTypes DEF TypeInv, Visit
<1>2. \A k \in clauses[i] : k \in Literal /\ (Len(trailLim) = 0 => level[k.var] = 0)
  <2> SUFFICES ASSUME NEW k \in clauses[i]
               PROVE  k \in Literal /\ (Len(trailLim) = 0 => level[k.var] = 0)
    OBVIOUS
  <2>1. k \in Literal /\ k.var \in Var
    BY <1>1, ClauseLiterals, NegateFacts
  <2> QED BY <1>1, <2>1 DEF TypeOK
<1>3. CASE UNCHANGED <<assignment, level, pc, analysis>>
  BY <1>1, <1>3 DEF RootInv, RootIsImplied, LearntAboveRoot
<1>4. CASE \E l \in clauses[i] : /\ IsUnit(clauses[i]) /\ IsUnset(l)
                                 /\ Assign(l, i)
                                 /\ UNCHANGED <<pc, analysis>>
  <2> PICK l \in clauses[i] : /\ IsUnit(clauses[i]) /\ IsUnset(l)
                              /\ Assign(l, i)
                              /\ UNCHANGED <<pc, analysis>>
    BY <1>4
  <2>1. ASSUME NEW k \in clauses[i], k # l PROVE IsFalse(k)
    <3>1. ~IsUnset(k)
      BY <2>1 DEF IsUnit, UnsetOf
    <3>2. ~IsTrue(k)
      BY <2>1 DEF IsUnit, IsSatisfied
    <3>3. k \in Literal /\ k.var \in Var
      BY <1>2, NegateFacts
    <3>4. assignment[k.var] \in {"true", "false"}
      BY <1>1, <3>1, <3>3 DEF TypeOK, IsUnset
    <3> QED BY <3>2, <3>3, <3>4, NegateFacts DEF IsTrue, IsFalse
  <2>2. ASSUME Len(trailLim) = 0, NEW m \in Models(clauses, assumptions)
        PROVE  Holds(l, m)
    <3>1. PICK k \in clauses[i] : Holds(k, m)
      BY ModelFacts
    <3> QED BY <1>1, <1>2, <2>1, <2>2, <3>1, RootLiteral DEF RootInv
  <2>3. RootIsImplied'
    BY <1>1, <1>2, <2>2, RootAssign DEF RootInv
  <2> QED BY <1>1, <2>3 DEF RootInv, LearntAboveRoot
<1>5. CASE /\ IsFalsified(clauses[i])
           /\ pc' = IF trailLim = <<>> THEN "unsat" ELSE "analyze"
           /\ analysis' = AnalysisOf(i)
           /\ UNCHANGED <<assignment, level>>
  <2>1. LearntAboveRoot'
    BY <1>5 DEF AnalysisOf, LearntAboveRoot
  <2>2. CASE trailLim # <<>>
    BY <1>1, <1>5, <2>1, <2>2 DEF RootInv, RootIsImplied
  <2>3. CASE trailLim = <<>>
    <3>1. ASSUME NEW m \in Models(clauses, assumptions) PROVE FALSE
      <4>1. PICK k \in clauses[i] : Holds(k, m)
        BY ModelFacts
      <4>2. IsFalse(k) /\ k \in Literal /\ level[k.var] = 0
        BY <1>2, <1>5, <2>3 DEF IsFalsified
      <4> QED BY <1>1, <4>1, <4>2, RootLiteral DEF RootInv
    <3> QED BY <1>1, <2>1, <3>1 DEF RootInv, RootIsImplied
  <2> QED BY <2>2, <2>3
<1> QED BY <1>3, <1>4, <1>5 DEF Visit

\* A clause asserted at level 0 is the unit clause of its literal.
LEMMA LearnRoot ==
    ASSUME TypeInv, RootInv, NEW i \in DOMAIN trail, Learn(i)
    PROVE  RootInv'
<1> DEFINE p == Negate(trail[i])
<1>1. /\ TypeOK /\ TrailOK /\ PhasesOK
      /\ pc = "analyze" /\ pc' = "propagate" /\ assumptions' = assumptions
      /\ clauses \in Seq(SUBSET Literal)
  BY DEF TypeInv, TypeOK, Learn, Formula, Clause
<1>2. PICK bt \in 0 .. Len(trailLim) - 1 :
         /\ p \in Literal
         /\ BackjumpedTo(bt, p)
         /\ \A l \in LearntNow : level[l.var] <= bt
  BY <1>1, LearnFacts
<1>3. /\ DOMAIN clauses' = 1 .. Len(clauses) + 1 /\ DOMAIN clauses = 1 .. Len(clauses)
      /\ Len(clauses) \in Nat
      /\ \A j \in DOMAIN clauses : clauses'[j] = clauses[j]
      /\ clauses'[Len(clauses) + 1] = LearntNow \cup {p}
  <2>1. LearntNow \cup {p} \in SUBSET Literal
           /\ clauses' = Append(clauses, LearntNow \cup {p})
    BY <1>2 DEF BackjumpedTo
  <2> QED BY <1>1, <2>1, AppendProperties, LenProperties
<1>4. LearntAboveRoot'
  BY <1>1 DEF LearntAboveRoot
<1> SUFFICES ASSUME NEW m \in Models(clauses', assumptions),
                    NEW v \in Var, assignment'[v] # "unset", level'[v] = 0
             PROVE  v \in m <=> assignment'[v] = "true"
  BY <1>1, <1>4 DEF RootInv, RootIsImplied
<1>5. m \in Models(clauses, assumptions)
  BY <1>3 DEF Models, IsModel
<1>6. CASE v = p.var
  <2>1. bt = 0
    BY <1>2, <1>6 DEF BackjumpedTo
  <2>2. \A l \in LearntNow : level[l.var] > 0
    <3>1. \A l \in Marked : l \in Literal /\ level[l.var] > 0
      BY <1>1, ClauseLiterals DEF Marked, PhasesOK
    <3> QED BY <1>1, <3>1, NegateFacts DEF LearntNow, RootInv, LearntAboveRoot
  <2>3. LearntNow = {}
    <3> SUFFICES ASSUME NEW l \in LearntNow PROVE FALSE
      OBVIOUS
    <3>1. l.var \in Var
      BY <1>2, NegateFacts DEF BackjumpedTo
    <3>2. level[l.var] \in Nat
      BY <1>1, <3>1 DEF TypeOK
    <3> QED BY <1>2, <2>1, <2>2, <3>2
  <2>4. Holds(p, m)
    <3>1. clauses'[Len(clauses) + 1] = {p} /\ Len(clauses) + 1 \in DOMAIN clauses'
      BY <1>3, <2>3
    <3> QED BY <3>1 DEF Models, IsModel, Satisfies
  <2>5. assignment'[v] = TruthOf(p) /\ p.negated \in BOOLEAN
    BY <1>2, <1>6 DEF BackjumpedTo, Literal
  <2>6. CASE p.negated
    BY <1>6, <2>4, <2>5, <2>6 DEF Holds, TruthOf
  <2>7. CASE ~p.negated
    BY <1>6, <2>4, <2>5, <2>7 DEF Holds, TruthOf
  <2> QED BY <2>5, <2>6, <2>7
<1>7. CASE v # p.var
  <2>1. assignment'[v] = assignment[v] /\ level'[v] = level[v]
    BY <1>2, <1>7 DEF BackjumpedTo
  <2> QED BY <1>5, <2>1 DEF RootInv, RootIsImplied
<1> QED BY <1>6, <1>7

\* Every step keeps it.
LEMMA RootStep == TypeInv /\ RootInv /\ [Next]_vars => RootInv'
<1> SUFFICES ASSUME TypeInv, RootInv, [Next]_vars PROVE RootInv'
  OBVIOUS
<1>1. CASE \E i \in DOMAIN trail : Resolve(i)
  <2> PICK i \in DOMAIN trail : Resolve(i)
    BY <1>1
  <2>1. /\ UNCHANGED <<clauses, assumptions, assignment, level, pc>>
        /\ analysis'.learnt = LearntNow
        /\ pc = "analyze" /\ TypeOK /\ PhasesOK
    BY DEF Resolve, TypeInv
  <2>2. \A l \in Marked : l \in Literal /\ level[l.var] > 0
    BY <2>1, ClauseLiterals DEF Marked, PhasesOK
  <2>3. \A l \in LearntNow : level[l.var] > 0
    BY <2>1, <2>2, NegateFacts DEF LearntNow, RootInv, LearntAboveRoot
  <2> QED BY <2>1, <2>3 DEF RootInv, RootIsImplied, LearntAboveRoot
<1>2. CASE \E v \in Var : Decide(v)
  <2> PICK v \in Var : Decide(v)
    BY <1>2
  <2>1. /\ UNCHANGED <<clauses, assumptions, pc, analysis>>
        /\ pc = "propagate" /\ TypeOK /\ Len(trailLim) \in Nat
    BY TrailTypes DEF Decide, TypeInv
  <2>2. /\ level' = [level EXCEPT ![v] = Len(trailLim) + 1]
        /\ assignment' = [assignment EXCEPT ![v] = "true"]
        /\ level \in [Var -> 0 .. Len(trailLim)]
        /\ assignment \in [Var -> {"unset", "true", "false"}]
    BY <2>1 DEF Decide, DecisionLevel, TypeOK
  <2>3. \A w \in Var : level'[w] = 0 =>
            w # v /\ level[w] = 0 /\ assignment'[w] = assignment[w]
    BY <2>1, <2>2
  <2> QED BY <2>1, <2>3 DEF RootInv, RootIsImplied, LearntAboveRoot
<1>3. CASE SeedDone \/ AssumeDone \/ PopHead \/ Satisfied \/ UNCHANGED vars
  BY <1>3 DEF SeedDone, AssumeDone, PopHead, Satisfied, vars, RootInv,
              RootIsImplied, LearntAboveRoot
<1> QED
  BY <1>1, <1>2, <1>3, SeedUnitRoot, AssumeRoot, VisitRoot, LearnRoot
  DEF Next, Step, Returned

\* "false means UNSAT", as far as it holds: if every learnt clause follows
\* from the formula and the assumptions, the answer unsat is right.
THEOREM UnsatIsSoundUpToLearning == Spec => []UnsatSoundIfLearntImplied
<1>1. Spec => [](TypeInv /\ RootInv /\ FormulaIsPrefix)
  <2>1. Init => TypeInv /\ RootInv /\ FormulaIsPrefix
    <3>1. Init => Len(formula) \in Nat
      BY FormulasAssumption DEF Init, Formula
    <3>2. Init => FormulaIsPrefix
      BY <3>1 DEF Init, FormulaIsPrefix
    <3> QED BY <3>2, InitTypes, InitRoot
  <2>2. TypeInv /\ RootInv /\ FormulaIsPrefix /\ [Next]_vars
          => (TypeInv /\ RootInv /\ FormulaIsPrefix)'
    BY StepTypes, RootStep, PrefixStep
  <2> QED BY <2>1, <2>2, PTL DEF Spec
<1>2. TypeInv /\ RootInv /\ FormulaIsPrefix => UnsatSoundIfLearntImplied
  <2> SUFFICES ASSUME TypeInv, RootInv, FormulaIsPrefix, pc = "unsat",
                      \A i \in Len(formula) + 1 .. Len(clauses) :
                          Implies(formula, assumptions, clauses[i]),
                      NEW m \in Models(formula, assumptions)
               PROVE  FALSE
    BY DEF UnsatSoundIfLearntImplied
  <2>1. clauses \in Seq(Clause) /\ formula \in Seq(Clause)
    BY DEF TypeInv, TypeOK, Formula
  <2>2. ASSUME NEW i \in DOMAIN clauses PROVE Satisfies(m, clauses[i])
    <3>1. CASE i \in DOMAIN formula
      BY <3>1 DEF FormulaIsPrefix, Models, IsModel
    <3>2. CASE i \notin DOMAIN formula
      <4>1. i \in Len(formula) + 1 .. Len(clauses)
        BY <2>1, <2>2, <3>2
      <4> QED BY <4>1 DEF Implies
    <3> QED BY <3>1, <3>2
  <2>3. m \in Models(clauses, assumptions)
    BY <2>2 DEF Models, IsModel
  <2> QED BY <2>3 DEF RootInv, RootIsImplied
<1> QED BY <1>1, <1>2, PTL

-----------------------------------------------------------------------------
(* Quiet clauses: what an assignment, a decision and a backjump do to them. *)

\* QuietAt, of any assignment of values and levels.
QuietIn(c, k, a, lv) ==
    \/ \E l \in c : a[l.var] = TruthOf(l) /\ lv[l.var] <= k
    \/ \E l, m \in c : /\ l # m
                       /\ a[l.var] = "unset" \/ lv[l.var] > k
                       /\ a[m.var] = "unset" \/ lv[m.var] > k

Assignments == [Var -> {"unset", "true", "false"}]
Levels      == [Var -> Nat]

\* What the two invariants say, before and after a step.
LEMMA QuietMeans ==
    /\ QuietBelow <=>
         \A k \in 0 .. Len(trailLim) - 1 : \A j \in DOMAIN clauses :
             QuietIn(clauses[j], k, assignment, level)
    /\ QuietBelow' <=>
         \A k \in 0 .. Len(trailLim') - 1 : \A j \in DOMAIN clauses' :
             QuietIn(clauses'[j], k, assignment', level')
    /\ NoneForgotten <=>
         (pc \in {"seed", "assume", "propagate", "sat"} =>
             \A j \in DOMAIN clauses :
                 \/ QuietIn(clauses[j], Len(trailLim), assignment, level)
                 \/ WillBeVisited(j)
                 \/ WillBeSeeded(j))
    /\ NoneForgotten' <=>
         (pc' \in {"seed", "assume", "propagate", "sat"} =>
             \A j \in DOMAIN clauses' :
                 \/ QuietIn(clauses'[j], Len(trailLim'), assignment', level')
                 \/ WillBeVisited(j)'
                 \/ WillBeSeeded(j)')
BY DEF QuietBelow, NoneForgotten, QuietAt, QuietIn, OpenAt, IsTrue, IsUnset,
       DecisionLevel

\* A variable that is set above level k: nothing changes at level k.
LEMMA SetAbove ==
    ASSUME NEW c \in SUBSET Literal, NEW a \in Assignments, NEW lv \in Levels,
           NEW v \in Var, NEW x, NEW n \in Nat, NEW k \in Nat,
           a[v] = "unset", k < n, QuietIn(c, k, a, lv)
    PROVE  QuietIn(c, k, [a EXCEPT ![v] = x], [lv EXCEPT ![v] = n])
<1> DEFINE b == [a EXCEPT ![v] = x]
           w == [lv EXCEPT ![v] = n]
<1>1. /\ \A l \in c : l.var \in Var /\ TruthOf(l) # "unset"
      /\ \A u \in Var : u # v => b[u] = a[u] /\ w[u] = lv[u]
      /\ w[v] = n
  BY NegateFacts DEF Assignments, Levels
<1> HIDE DEF b, w
<1>2. ASSUME NEW l \in c, a[l.var] = TruthOf(l), lv[l.var] <= k
      PROVE  b[l.var] = TruthOf(l) /\ w[l.var] <= k
  BY <1>1, <1>2
<1>3. ASSUME NEW l \in c, a[l.var] = "unset" \/ lv[l.var] > k
      PROVE  b[l.var] = "unset" \/ w[l.var] > k
  BY <1>1, <1>3
<1>4. QuietIn(c, k, b, w)
  BY <1>2, <1>3 DEF QuietIn
<1> QED BY <1>4 DEF b, w

\* A literal made true at the highest level disturbs only the clauses that
\* contain its negation.
LEMMA SetQuiet ==
    ASSUME NEW c \in SUBSET Literal, NEW a \in Assignments, NEW lv \in Levels,
           NEW l \in Literal, NEW k \in Nat, NEW n \in Nat, k <= n,
           \A v \in Var : lv[v] <= k,
           Negate(l) \notin c, QuietIn(c, k, a, lv)
    PROVE  QuietIn(c, n, [a EXCEPT ![l.var] = TruthOf(l)],
                         [lv EXCEPT ![l.var] = n])
<1> DEFINE b == [a EXCEPT ![l.var] = TruthOf(l)]
           w == [lv EXCEPT ![l.var] = n]
<1>1. /\ l.var \in Var
      /\ \A m \in c : m \in Literal /\ m.var \in Var
      /\ \A u \in Var : u # l.var => b[u] = a[u] /\ w[u] = lv[u]
      /\ b[l.var] = TruthOf(l) /\ w[l.var] = n
      /\ \A u \in Var : lv[u] \in Nat
  BY NegateFacts DEF Assignments, Levels
<1> HIDE DEF b, w
<1>2. ASSUME l \in c PROVE QuietIn(c, n, b, w)
  BY <1>1, <1>2 DEF QuietIn
<1>3. ASSUME l \notin c PROVE QuietIn(c, n, b, w)
  <2>1. \A m \in c : m.var # l.var
    BY <1>1, <1>3, SameVar
  <2>2. \A m \in c : b[m.var] = a[m.var] /\ w[m.var] = lv[m.var]
                        /\ lv[m.var] <= k /\ lv[m.var] \in Nat
    BY <1>1, <2>1
  <2>3. \A m \in c : /\ lv[m.var] <= k => w[m.var] <= n
                     /\ ~(lv[m.var] > k)
    BY <2>2
  <2> QED BY <2>2, <2>3 DEF QuietIn
<1>4. QuietIn(c, n, b, w)
  BY <1>2, <1>3
<1> QED BY <1>4 DEF b, w

\* A backjump to bt that asserts p there: clauses quiet at a level that is kept
\* stay so, unless p was false in them.
LEMMA BackQuiet ==
    ASSUME NEW c \in SUBSET Literal, NEW a \in Assignments, NEW lv \in Levels,
           NEW b, NEW w, NEW p \in Literal, NEW bt \in Nat, NEW k \in 0 .. bt,
           b[p.var] = TruthOf(p), w[p.var] = bt, lv[p.var] > bt,
           \A v \in Var \ {p.var} :
              IF lv[v] <= bt THEN b[v] = a[v] /\ w[v] = lv[v]
                             ELSE b[v] = "unset" /\ w[v] = 0,
           k < bt \/ Negate(p) \notin c,
           QuietIn(c, k, a, lv)
    PROVE  QuietIn(c, k, b, w)
<1>1. /\ \A m \in c : m \in Literal /\ m.var \in Var /\ TruthOf(m) # "unset"
      /\ \A u \in Var : lv[u] \in Nat
      /\ p.var \in Var
  BY NegateFacts DEF Levels
<1>2. ASSUME NEW l \in c, a[l.var] = TruthOf(l), lv[l.var] <= k
      PROVE  b[l.var] = TruthOf(l) /\ w[l.var] <= k
  <2>1. l.var # p.var /\ lv[l.var] <= bt
    BY <1>1, <1>2
  <2> QED BY <1>1, <1>2, <2>1
<1>3. CASE p \in c /\ k = bt
  BY <1>3 DEF QuietIn
<1>4. CASE ~(p \in c /\ k = bt)
  <2>1. ASSUME NEW l \in c, a[l.var] = "unset" \/ lv[l.var] > k
        PROVE  b[l.var] = "unset" \/ w[l.var] > k
    <3>1. CASE l.var = p.var
      <4>1. l = p \/ l = Negate(p)
        BY <1>1, <3>1, SameVar
      <4> QED BY <1>4, <3>1, <4>1
    <3>2. CASE l.var # p.var
      BY <1>1, <2>1, <3>2
    <3> QED BY <3>1, <3>2
  <2> QED BY <1>2, <2>1 DEF QuietIn
<1> QED BY <1>3, <1>4

\* A quiet clause neither is falsified nor forces a literal, and one that is
\* neither is quiet.
LEMMA QuietIsFixpoint ==
    ASSUME TypeOK, NEW i \in DOMAIN clauses
    PROVE  QuietIn(clauses[i], Len(trailLim), assignment, level)
              <=> ~IsFalsified(clauses[i]) /\ ~IsUnit(clauses[i])
<1>1. /\ \A l \in clauses[i] :
            /\ TruthOf(l) # "unset" /\ TruthOf(Negate(l)) # "unset"
            /\ TruthOf(l) # TruthOf(Negate(l))
            /\ assignment[l.var] \in {"unset", TruthOf(l), TruthOf(Negate(l))}
            /\ level[l.var] \in 0 .. Len(trailLim)
      /\ Len(trailLim) \in Nat
  <2>1. \A l \in clauses[i] : l \in Literal /\ l.var \in Var
    BY ClauseLiterals, NegateFacts
  <2>2. \A l \in clauses[i] : /\ TruthOf(l) \in {"true", "false"}
                              /\ TruthOf(Negate(l)) \in {"true", "false"}
                              /\ TruthOf(l) # TruthOf(Negate(l))
    BY <2>1, NegateFacts
  <2>3. \A l \in clauses[i] : /\ assignment[l.var] \in {"unset", "true", "false"}
                              /\ level[l.var] \in 0 .. Len(trailLim)
    BY <2>1 DEF TypeOK
  <2> QED BY <2>2, <2>3, TrailTypes
<1>2. ASSUME NEW l \in clauses[i], IsTrue(l)
      PROVE  ~IsFalsified(clauses[i]) /\ ~IsUnit(clauses[i])
                /\ QuietIn(clauses[i], Len(trailLim), assignment, level)
  BY <1>1, <1>2 DEF IsTrue, IsFalse, IsFalsified, IsSatisfied, IsUnit, QuietIn
<1>3. ASSUME NEW l \in clauses[i], NEW m \in clauses[i], l # m,
             IsUnset(l), IsUnset(m)
      PROVE  ~IsFalsified(clauses[i]) /\ ~IsUnit(clauses[i])
                /\ QuietIn(clauses[i], Len(trailLim), assignment, level)
  BY <1>1, <1>3 DEF IsUnset, IsFalse, IsFalsified, IsUnit, UnsetOf, QuietIn
<1>4. ASSUME QuietIn(clauses[i], Len(trailLim), assignment, level)
      PROVE  ~IsFalsified(clauses[i]) /\ ~IsUnit(clauses[i])
  <2>1. \/ \E l \in clauses[i] : IsTrue(l)
        \/ \E l, m \in clauses[i] : l # m /\ IsUnset(l) /\ IsUnset(m)
    BY <1>1, <1>4 DEF QuietIn, IsTrue, IsUnset
  <2> QED BY <1>2, <1>3, <2>1
<1>5. ASSUME ~IsFalsified(clauses[i]), ~IsUnit(clauses[i])
      PROVE  QuietIn(clauses[i], Len(trailLim), assignment, level)
  <2>1. PICK l \in clauses[i] : ~IsFalse(l)
    BY <1>5 DEF IsFalsified
  <2>2. CASE IsSatisfied(clauses[i])
    BY <1>2, <2>2 DEF IsSatisfied
  <2>3. CASE ~IsSatisfied(clauses[i])
    <3>1. IsUnset(l)
      BY <1>1, <2>1, <2>3 DEF IsSatisfied, IsTrue, IsFalse, IsUnset
    <3>2. UnsetOf(clauses[i]) # {l}
      BY <1>5, <2>3 DEF IsUnit
    <3>3. PICK m \in clauses[i] : m # l /\ IsUnset(m)
      BY <3>1, <3>2 DEF UnsetOf
    <3> QED BY <1>3, <3>1, <3>3
  <2> QED BY <2>2, <2>3
<1> QED BY <1>4, <1>5

-----------------------------------------------------------------------------
(* The queue. *)

\* Appending to the queue.
LEMMA QueueAppend ==
    ASSUME TypeOK, NEW l \in Literal, propQueue' = Append(propQueue, l)
    PROVE  /\ Len(propQueue) \in Nat
           /\ DOMAIN propQueue = 1 .. Len(propQueue)
           /\ DOMAIN propQueue' = 1 .. Len(propQueue) + 1
           /\ \A q \in 1 .. Len(propQueue) : /\ propQueue'[q] = propQueue[q]
                                             /\ propQueue[q] \in Literal
           /\ propQueue'[Len(propQueue) + 1] = l
<1>1. propQueue \in Seq(Literal)
  BY DEF TypeOK
<1> QED BY <1>1, AppendProperties, LenProperties, ElementOfSeq

\* The head leaves, the others move up.
LEMMA QueueTail ==
    ASSUME TypeOK, propQueue # <<>>, propQueue' = Tail(propQueue)
    PROVE  /\ Len(propQueue) \in Nat \ {0}
           /\ DOMAIN propQueue = 1 .. Len(propQueue)
           /\ DOMAIN propQueue' = 1 .. Len(propQueue) - 1
           /\ \A q \in DOMAIN propQueue' : propQueue'[q] = propQueue[q + 1]
           /\ Head(propQueue) = propQueue[1]
           /\ \A q \in DOMAIN propQueue : propQueue[q] \in Literal
<1>1. propQueue \in Seq(Literal)
  BY DEF TypeOK
<1>2. /\ propQueue' \in Seq(Literal)
      /\ Len(propQueue') = Len(propQueue) - 1
      /\ \A q \in 1 .. Len(propQueue') : propQueue'[q] = propQueue[q + 1]
  BY <1>1, HeadTailProperties
<1>3. Len(propQueue') \in Nat /\ DOMAIN propQueue' = 1 .. Len(propQueue')
         /\ Len(propQueue) \in Nat /\ DOMAIN propQueue = 1 .. Len(propQueue)
  BY <1>1, <1>2, LenProperties
<1> QED BY <1>1, <1>2, <1>3

\* What was queued stays queued when something is appended.
LEMMA StaysQueued ==
    ASSUME TypeOK, NEW l \in Literal, propQueue' = Append(propQueue, l),
           clauses' = clauses, NEW i \in DOMAIN clauses, WillBeVisited(i)
    PROVE  \E q \in DOMAIN propQueue' :
              /\ q \in DOMAIN propQueue
              /\ Negate(propQueue'[q]) \in clauses'[i]
              /\ q = 1 /\ pc = "propagate" => cursor < i
<1>1. PICK q \in DOMAIN propQueue :
              /\ Negate(propQueue[q]) \in clauses[i]
              /\ q = 1 /\ pc = "propagate" => cursor < i
  BY DEF WillBeVisited
<1>2. q \in DOMAIN propQueue' /\ propQueue'[q] = propQueue[q]
  BY QueueAppend
<1> QED BY <1>1, <1>2

\* A falsified clause that waits for the head of the queue is still to be
\* visited.
LEMMA HeadVisits ==
    ASSUME TypeOK, pc = "propagate", propQueue # <<>>,
           NEW i \in DOMAIN clauses,
           Negate(propQueue[1]) \in clauses[i], cursor < i
    PROVE  i \in ToVisit
<1>1. propQueue \in Seq(Literal) /\ Head(propQueue) = propQueue[1]
         /\ clauses \in Seq(Clause) /\ cursor \in Nat
  BY DEF TypeOK, Formula
<1>2. i \in cursor + 1 .. Len(clauses)
  BY <1>1
<1> QED BY <1>1, <1>2 DEF ToVisit

-----------------------------------------------------------------------------
(* No clause is forgotten. *)

PropInv == QuietBelow /\ NoneForgotten

\* A clause disturbed by an assignment is queued with the assigned literal.
LEMMA AssignQueues ==
    ASSUME TypeOK, NEW l \in Literal, NEW r, Assign(l, r), clauses' = clauses,
           trailLim' = trailLim, propQueue' = Append(propQueue, l),
           NEW j \in DOMAIN clauses,
           QuietIn(clauses[j], Len(trailLim), assignment, level)
    PROVE  \/ QuietIn(clauses'[j], Len(trailLim'), assignment', level')
           \/ /\ Len(propQueue) + 1 \in DOMAIN propQueue'
              /\ Negate(propQueue'[Len(propQueue) + 1]) \in clauses'[j]
<1>1. /\ Len(propQueue) + 1 \in DOMAIN propQueue'
      /\ propQueue'[Len(propQueue) + 1] = l
  BY QueueAppend
<1>2. /\ clauses[j] \in SUBSET Literal
      /\ assignment \in Assignments /\ level \in Levels
      /\ \A v \in Var : level[v] <= Len(trailLim)
      /\ Len(trailLim) \in Nat
  <2>1. level \in [Var -> 0 .. Len(trailLim)] /\ Len(trailLim) \in Nat
    BY TrailTypes DEF TypeOK
  <2>2. assignment \in Assignments /\ clauses[j] \in SUBSET Literal
    BY DEF TypeOK, Assignments, Formula, Clause
  <2> QED BY <2>1, <2>2 DEF Levels
<1>3. /\ assignment' = [assignment EXCEPT ![l.var] = TruthOf(l)]
      /\ level' = [level EXCEPT ![l.var] = Len(trailLim)]
  BY DEF Assign, DecisionLevel
<1>4. Negate(l) \notin clauses[j] =>
         QuietIn(clauses[j], Len(trailLim), assignment', level')
  <2> SUFFICES ASSUME Negate(l) \notin clauses[j]
               PROVE  QuietIn(clauses[j], Len(trailLim), assignment', level')
    OBVIOUS
  <2>1. Len(trailLim) <= Len(trailLim)
    BY <1>2
  <2>2. QuietIn(clauses[j], Len(trailLim),
                [assignment EXCEPT ![l.var] = TruthOf(l)],
                [level EXCEPT ![l.var] = Len(trailLim)])
    BY <1>2, <2>1, SetQuiet
  <2> QED BY <1>3, <2>2
<1> QED BY <1>1, <1>4

\* An assignment disturbs no level below the current one.
LEMMA AssignBelow ==
    ASSUME TypeOK, QuietBelow, NEW l \in Literal, NEW r, Assign(l, r),
           IsUnset(l) \/ trailLim = <<>>,
           clauses' = clauses, trailLim' = trailLim
    PROVE  QuietBelow'
<1> SUFFICES ASSUME NEW k \in 0 .. Len(trailLim) - 1, NEW j \in DOMAIN clauses
             PROVE  QuietIn(clauses[j], k, assignment', level')
  BY QuietMeans
<1>1. /\ clauses[j] \in SUBSET Literal
      /\ assignment \in Assignments /\ level \in Levels
      /\ Len(trailLim) \in Nat /\ k \in Nat /\ k < Len(trailLim)
      /\ l.var \in Var
  <2>1. level \in [Var -> 0 .. Len(trailLim)] /\ Len(trailLim) \in Nat
    BY TrailTypes DEF TypeOK
  <2>2. assignment \in Assignments /\ clauses[j] \in SUBSET Literal
    BY DEF TypeOK, Assignments, Formula, Clause
  <2> QED BY <2>1, <2>2, NegateFacts DEF Levels
<1>2. /\ assignment' = [assignment EXCEPT ![l.var] = TruthOf(l)]
      /\ level' = [level EXCEPT ![l.var] = Len(trailLim)]
      /\ assignment[l.var] = "unset"
  <2>1. Len(trailLim) # 0
    BY <1>1
  <2>2. trailLim # <<>>
    BY <2>1
  <2> QED BY <2>2 DEF Assign, DecisionLevel, IsUnset
<1>3. QuietIn(clauses[j], k, assignment, level)
  BY QuietMeans
<1> QED BY <1>1, <1>2, <1>3, SetAbove

\* The seeding looks at no clause but the one at the cursor.
LEMMA SeedUnitPropagates ==
    ASSUME TypeInv, PropInv, SeedUnit
    PROVE  PropInv'
<1>1. /\ TypeOK /\ pc = "seed" /\ pc' = "seed" /\ cursor' = cursor + 1
      /\ cursor \in Nat /\ trailLim = <<>> /\ Len(trailLim) = 0
      /\ UNCHANGED <<clauses, trailLim>>
      /\ DOMAIN clauses = 1 .. Len(clauses)
  BY DEF SeedUnit, TypeInv, TypeOK, PhasesOK, Seeding, Formula
<1>2. QuietBelow'
  BY <1>1, QuietMeans
<1> SUFFICES ASSUME NEW j \in DOMAIN clauses
             PROVE  \/ QuietIn(clauses[j], 0, assignment', level')
                    \/ WillBeVisited(j)'
                    \/ WillBeSeeded(j)'
  BY <1>1, <1>2, QuietMeans DEF PropInv
<1>3. \/ QuietIn(clauses[j], 0, assignment, level)
      \/ WillBeVisited(j)
      \/ WillBeSeeded(j)
  BY <1>1, QuietMeans DEF PropInv
<1>4. ASSUME WillBeSeeded(j), j # cursor + 1 PROVE WillBeSeeded(j)'
  BY <1>1, <1>4 DEF WillBeSeeded
<1>5. CASE \E l \in Literal : /\ clauses[cursor + 1] = {l}
                              /\ Assign(l, cursor + 1)
                              /\ propQueue' = Append(propQueue, l)
  <2> PICK l \in Literal : /\ clauses[cursor + 1] = {l}
                           /\ Assign(l, cursor + 1)
                           /\ propQueue' = Append(propQueue, l)
    BY <1>5
  <2>1. CASE j = cursor + 1
    <3>1. /\ assignment' = [assignment EXCEPT ![l.var] = TruthOf(l)]
          /\ level' = [level EXCEPT ![l.var] = 0]
          /\ l.var \in Var
          /\ DOMAIN assignment = Var /\ DOMAIN level = Var
      BY <1>1, NegateFacts DEF Assign, DecisionLevel, TypeOK
    <3>2. l \in clauses[j] /\ assignment'[l.var] = TruthOf(l)
             /\ level'[l.var] <= 0
      BY <2>1, <3>1
    <3> QED BY <3>2 DEF QuietIn
  <2>2. CASE QuietIn(clauses[j], 0, assignment, level)
    BY <1>1, <2>2, AssignQueues DEF WillBeVisited
  <2>3. CASE WillBeVisited(j)
    BY <1>1, <2>3, StaysQueued DEF WillBeVisited
  <2> QED BY <1>3, <1>4, <2>1, <2>2, <2>3
<1>6. CASE /\ \A l \in Literal : clauses[cursor + 1] # {l}
           /\ UNCHANGED <<assignment, reason, level, trail, propQueue>>
  <2>1. WillBeSeeded(j) => j # cursor + 1
    BY <1>6 DEF WillBeSeeded
  <2>2. WillBeVisited(j) => WillBeVisited(j)'
    BY <1>1, <1>6 DEF WillBeVisited
  <2> QED BY <1>3, <1>4, <1>6, <2>1, <2>2
<1> QED BY <1>5, <1>6 DEF SeedUnit

\* Forcing an assumption queues it.
LEMMA AssumePropagates ==
    ASSUME TypeInv, PropInv, Assume
    PROVE  PropInv'
<1> DEFINE a == assumptions[cursor + 1]
<1>1. /\ TypeOK /\ pc = "assume"
      /\ trailLim = <<>> /\ Len(trailLim) = 0
      /\ UNCHANGED <<clauses, trailLim>>
      /\ a \in Literal
  BY DEF Assume, TypeInv, TypeOK, PhasesOK, Seeding
<1>2. QuietBelow'
  BY <1>1, QuietMeans
<1>3. CASE pc' = "unsat"
  BY <1>2, <1>3 DEF PropInv, NoneForgotten
<1>4. CASE pc' = "assume"
  <2> SUFFICES ASSUME NEW j \in DOMAIN clauses
               PROVE  \/ QuietIn(clauses[j], 0, assignment', level')
                      \/ WillBeVisited(j)'
    BY <1>1, <1>2, QuietMeans DEF PropInv
  <2>1. \/ QuietIn(clauses[j], 0, assignment, level)
        \/ WillBeVisited(j)
    BY <1>1, QuietMeans DEF PropInv, WillBeSeeded
  <2>2. CASE UNCHANGED <<assignment, level, propQueue>>
    BY <1>1, <1>4, <2>1, <2>2 DEF WillBeVisited
  <2>3. CASE Assign(a, 0) /\ propQueue' = Append(propQueue, a)
    <3> HIDE DEF a
    <3>1. CASE QuietIn(clauses[j], 0, assignment, level)
      BY <1>1, <1>4, <2>3, <3>1, AssignQueues DEF WillBeVisited
    <3>2. CASE WillBeVisited(j)
      BY <1>1, <1>4, <2>3, <3>2, StaysQueued DEF WillBeVisited
    <3> QED BY <2>1, <3>1, <3>2
  <2> QED BY <2>2, <2>3 DEF Assume
<1> QED BY <1>1, <1>3, <1>4 DEF Assume

\* A visit: the clause is quiet, forces a literal or is the conflict.
LEMMA VisitPropagates ==
    ASSUME TypeInv, PropInv, NEW i \in DOMAIN clauses, Visit(i)
    PROVE  PropInv'
<1>1. /\ TypeOK /\ pc = "propagate" /\ propQueue # <<>>
      /\ UNCHANGED <<clauses, trailLim>>
      /\ DOMAIN clauses \subseteq Nat /\ cursor \in Nat
      /\ \A j \in ToVisit : i <= j
  <2>1. TypeOK /\ cursor \in Nat /\ clauses \in Seq(Clause)
    BY DEF TypeInv, TypeOK, Formula
  <2>2. DOMAIN clauses \subseteq Nat
    BY <2>1, LenProperties
  <2>3. /\ pc = "propagate" /\ propQueue # <<>>
        /\ UNCHANGED <<clauses, trailLim>>
        /\ \A j \in ToVisit : i <= j
    BY DEF Visit
  <2> QED BY <2>1, <2>2, <2>3
<1> DEFINE Calm(j) == QuietIn(clauses[j], Len(trailLim), assignment, level)
<1>2. \A j \in DOMAIN clauses : Calm(j) \/ WillBeVisited(j)
  BY <1>1, QuietMeans DEF PropInv, WillBeSeeded
<1>3. ASSUME NEW j \in DOMAIN clauses, NEW q \in DOMAIN propQueue, j # i,
             Negate(propQueue[q]) \in clauses[j], q = 1 => cursor < j
      PROVE  q = 1 => i < j
  BY <1>1, <1>3, HeadVisits
<1>4. CASE /\ ~IsFalsified(clauses[i]) /\ ~IsUnit(clauses[i])
           /\ cursor' = i
           /\ UNCHANGED <<assignment, level, propQueue, pc>>
  <2>1. QuietBelow'
    BY <1>1, <1>4, QuietMeans DEF PropInv
  <2>2. Calm(i)
    BY <1>1, <1>4, QuietIsFixpoint
  <2> SUFFICES ASSUME NEW j \in DOMAIN clauses, ~Calm(j)
               PROVE  WillBeVisited(j)'
    BY <1>1, <1>4, <2>1, QuietMeans DEF PropInv
  <2>3. j # i /\ WillBeVisited(j)
    BY <1>2, <2>2
  <2>4. PICK q \in DOMAIN propQueue : /\ Negate(propQueue[q]) \in clauses[j]
                                      /\ q = 1 => cursor < j
    BY <1>1, <2>3 DEF WillBeVisited
  <2>5. q = 1 => i < j
    BY <1>3, <2>3, <2>4
  <2> QED BY <1>1, <1>4, <2>4, <2>5 DEF WillBeVisited
<1>5. CASE \E l \in clauses[i] : /\ IsUnset(l)
                                 /\ Assign(l, i)
                                 /\ propQueue' = Append(propQueue, l)
                                 /\ cursor' = i
                                 /\ UNCHANGED pc
  <2> PICK l \in clauses[i] : /\ IsUnset(l)
                              /\ Assign(l, i)
                              /\ propQueue' = Append(propQueue, l)
                              /\ cursor' = i
                              /\ UNCHANGED pc
    BY <1>5
  <2> DEFINE CalmNow(j) == QuietIn(clauses'[j], Len(trailLim'), assignment', level')
  <2>1. l \in Literal
    BY <1>1, ClauseLiterals
  <2>2. QuietBelow'
    BY <1>1, <2>1, AssignBelow DEF PropInv
  <2>3. CalmNow(i)
    <3>1. /\ assignment' = [assignment EXCEPT ![l.var] = TruthOf(l)]
          /\ level' = [level EXCEPT ![l.var] = Len(trailLim)]
          /\ l.var \in Var /\ Len(trailLim) \in Nat
          /\ DOMAIN assignment = Var /\ DOMAIN level = Var
      BY <1>1, <2>1, NegateFacts, TrailTypes DEF Assign, DecisionLevel, TypeOK
    <3>2. l \in clauses'[i] /\ assignment'[l.var] = TruthOf(l)
             /\ level'[l.var] <= Len(trailLim')
      BY <1>1, <3>1
    <3> QED BY <3>2 DEF QuietIn
  <2> SUFFICES ASSUME NEW j \in DOMAIN clauses, ~CalmNow(j)
               PROVE  WillBeVisited(j)'
    BY <1>1, <2>2, QuietMeans DEF PropInv
  <2>4. j # i
    BY <2>3
  <2>5. CASE Calm(j)
    <3>1. /\ Len(propQueue) + 1 \in DOMAIN propQueue'
          /\ Negate(propQueue'[Len(propQueue) + 1]) \in clauses'[j]
      BY <1>1, <2>1, <2>5, AssignQueues
    <3>2. Len(propQueue) + 1 # 1
      <4>1. propQueue \in Seq(Literal)
        BY <1>1 DEF TypeOK
      <4> QED BY <1>1, <4>1
    <3> QED BY <3>1, <3>2 DEF WillBeVisited
  <2>6. CASE WillBeVisited(j)
    <3>1. PICK q \in DOMAIN propQueue' :
                /\ q \in DOMAIN propQueue
                /\ Negate(propQueue'[q]) \in clauses'[j]
                /\ q = 1 => cursor < j
      BY <1>1, <2>1, <2>6, StaysQueued
    <3>2. q = 1 => i < j
      <4>1. propQueue'[q] = propQueue[q]
        BY <1>1, <2>1, <3>1, QueueAppend
      <4> QED BY <1>1, <1>3, <2>4, <3>1, <4>1
    <3> QED BY <1>1, <3>1, <3>2 DEF WillBeVisited
  <2> QED BY <1>2, <2>5, <2>6
<1>6. CASE /\ pc' = IF trailLim = <<>> THEN "unsat" ELSE "analyze"
           /\ UNCHANGED <<assignment, level>>
  BY <1>1, <1>6, QuietMeans DEF PropInv
<1> QED BY <1>4, <1>5, <1>6 DEF Visit

\* The head leaves only when all of its clauses were visited.
LEMMA PopHeadPropagates ==
    ASSUME TypeInv, PropInv, PopHead
    PROVE  PropInv'
<1>1. /\ TypeOK /\ pc = "propagate" /\ pc' = pc /\ propQueue # <<>>
      /\ UNCHANGED <<clauses, assignment, level, trailLim>>
      /\ propQueue' = Tail(propQueue) /\ cursor' = 0
      /\ ToVisit = {}
      /\ DOMAIN clauses \subseteq Nat \ {0}
  BY DEF PopHead, TypeInv, TypeOK, Formula
<1> SUFFICES ASSUME NEW j \in DOMAIN clauses, WillBeVisited(j)
             PROVE  WillBeVisited(j)'
  BY <1>1, QuietMeans DEF PropInv, WillBeSeeded
<1>2. PICK q \in DOMAIN propQueue : /\ Negate(propQueue[q]) \in clauses[j]
                                    /\ q = 1 => cursor < j
  BY <1>1 DEF WillBeVisited
<1>3. q # 1
  BY <1>1, <1>2, HeadVisits
<1>4. q - 1 \in DOMAIN propQueue' /\ propQueue'[q - 1] = propQueue[q]
  BY <1>1, <1>2, <1>3, QueueTail
<1> QED BY <1>1, <1>2, <1>4 DEF WillBeVisited

\* After a backjump the clauses that were quiet at the level returned to stay
\* so or contain the negation of the asserted literal, and the learnt clause
\* holds it true.
LEMMA LearnPropagates ==
    ASSUME TypeInv, PropInv, NEW i \in DOMAIN trail, Learn(i)
    PROVE  PropInv'
<1> DEFINE p == Negate(trail[i])
<1>1. /\ TypeOK /\ TrailOK /\ PhasesOK
      /\ pc = "analyze" /\ pc' = "propagate" /\ cursor' = 0
  BY DEF TypeInv, PhasesOK, Learn
<1>2. PICK bt \in 0 .. Len(trailLim) - 1 :
         /\ p \in Literal
         /\ BackjumpedTo(bt, p)
         /\ bt = 0 \/ \E l \in LearntNow : level[l.var] = bt
  BY <1>1, LearnFacts
<1>3. /\ p.var \in Var /\ LearntNow \subseteq Literal
      /\ Len(trailLim') = bt /\ bt \in Nat /\ bt \in 0 .. Len(trailLim) - 1
      /\ assignment'[p.var] = TruthOf(p)
      /\ level'[p.var] = bt /\ level[p.var] > bt
      /\ \A v \in Var \ {p.var} :
            IF level[v] <= bt
            THEN assignment'[v] = assignment[v] /\ level'[v] = level[v]
            ELSE assignment'[v] = "unset" /\ level'[v] = 0
      /\ propQueue' = Append(propQueue, p)
  BY <1>1, <1>2, NegateFacts, TrailTypes DEF BackjumpedTo
<1>4. /\ DOMAIN clauses = 1 .. Len(clauses) /\ Len(clauses) \in Nat
      /\ DOMAIN clauses' = 1 .. Len(clauses) + 1
      /\ \A j \in DOMAIN clauses : clauses'[j] = clauses[j]
      /\ clauses'[Len(clauses) + 1] = LearntNow \cup {p}
      /\ clauses \in Seq(SUBSET Literal)
  <2>1. clauses \in Seq(SUBSET Literal) /\ LearntNow \cup {p} \in SUBSET Literal
           /\ clauses' = Append(clauses, LearntNow \cup {p})
    BY <1>1, <1>2 DEF TypeOK, Formula, Clause, BackjumpedTo
  <2> HIDE DEF p
  <2> QED BY <2>1, AppendProperties, LenProperties
<1>5. /\ assignment \in Assignments /\ level \in Levels
      /\ \A j \in DOMAIN clauses : clauses[j] \in SUBSET Literal
  <2>1. level \in [Var -> 0 .. Len(trailLim)] /\ Len(trailLim) \in Nat
    BY <1>1, TrailTypes DEF TypeOK
  <2>2. assignment \in Assignments
    BY <1>1 DEF TypeOK, Assignments
  <2> QED BY <1>4, <2>1, <2>2 DEF Levels
<1> HIDE DEF p
<1>6. ASSUME NEW k \in 0 .. bt, NEW j \in DOMAIN clauses,
             k < bt \/ Negate(p) \notin clauses[j]
      PROVE  QuietIn(clauses'[j], k, assignment', level')
  <2>1. k \in 0 .. Len(trailLim) - 1
    BY <1>3
  <2>2. QuietIn(clauses[j], k, assignment, level)
    BY <2>1, QuietMeans DEF PropInv
  <2>3. QuietIn(clauses[j], k, assignment', level')
    BY <1>2, <1>3, <1>5, <1>6, <2>2, BackQuiet
  <2> QED BY <1>4, <2>3
<1>7. ASSUME NEW k \in 0 .. bt
      PROVE  QuietIn(LearntNow \cup {p}, k, assignment', level')
  <2>1. CASE k = bt
    <3>1. p \in LearntNow \cup {p} /\ level'[p.var] <= k
      BY <1>3, <2>1
    <3> QED BY <1>3, <3>1 DEF QuietIn
  <2>2. CASE k < bt
    <3>1. PICK l \in LearntNow : level[l.var] = bt
      BY <1>2, <2>2
    <3>2. l # p /\ l.var \in Var /\ level'[l.var] = bt
      BY <1>3, <3>1, NegateFacts
    <3>3. /\ p \in LearntNow \cup {p} /\ l \in LearntNow \cup {p}
          /\ level'[p.var] > k /\ level'[l.var] > k
      BY <1>3, <2>2, <3>1, <3>2
    <3> QED BY <3>2, <3>3 DEF QuietIn
  <2> QED BY <1>3, <2>1, <2>2
<1>8. QuietBelow'
  <2> SUFFICES ASSUME NEW k \in 0 .. bt - 1, NEW j \in DOMAIN clauses'
               PROVE  QuietIn(clauses'[j], k, assignment', level')
    BY <1>3, QuietMeans
  <2>1. k \in 0 .. bt /\ k < bt
    BY <1>3
  <2>2. CASE j = Len(clauses) + 1
    BY <1>4, <1>7, <2>1, <2>2
  <2>3. CASE j \in DOMAIN clauses
    BY <1>6, <2>1, <2>3
  <2> QED BY <1>4, <2>2, <2>3
<1>9. ASSUME NEW j \in DOMAIN clauses'
      PROVE  QuietIn(clauses'[j], bt, assignment', level') \/ WillBeVisited(j)'
  <2>0. bt \in 0 .. bt
    BY <1>3
  <2>1. CASE j = Len(clauses) + 1
    BY <1>4, <1>7, <2>0, <2>1
  <2>2. CASE j \in DOMAIN clauses
    <3>1. /\ Len(propQueue) + 1 \in DOMAIN propQueue'
          /\ propQueue'[Len(propQueue) + 1] = p
      BY <1>1, <1>2, <1>3, QueueAppend
    <3>2. 0 < j
      BY <1>4, <2>2
    <3>3. Negate(p) \in clauses[j] => WillBeVisited(j)'
      BY <1>1, <1>4, <2>2, <3>1, <3>2 DEF WillBeVisited
    <3> QED BY <1>6, <2>0, <2>2, <3>3
  <2> QED BY <1>4, <1>9, <2>1, <2>2
<1> QED BY <1>3, <1>8, <1>9, QuietMeans DEF PropInv

\* A level is decided when every clause is quiet; the decision queues itself.
LEMMA DecidePropagates ==
    ASSUME TypeInv, PropInv, NEW v \in Var, Decide(v)
    PROVE  PropInv'
<1> DEFINE n == Len(trailLim)
<1>1. /\ TypeOK /\ pc = "propagate" /\ propQueue = <<>>
      /\ clauses' = clauses /\ cursor = 0 /\ cursor' = 0
      /\ propQueue' = <<Pos(v)>>
      /\ assignment[v] = "unset"
      /\ assignment' = [assignment EXCEPT ![v] = "true"]
      /\ level' = [level EXCEPT ![v] = n + 1]
      /\ trailLim' = Append(trailLim, Len(trail))
  BY DEF Decide, TypeInv, PhasesOK, DecisionLevel
<1>2. /\ assignment \in Assignments /\ level \in Levels
      /\ \A w \in Var : level[w] <= n
      /\ \A j \in DOMAIN clauses : clauses[j] \in SUBSET Literal
      /\ n \in Nat /\ n + 1 \in Nat
  <2>1. level \in [Var -> 0 .. n] /\ n \in Nat
    BY <1>1, TrailTypes DEF TypeOK
  <2>2. assignment \in Assignments /\ clauses \in Seq(SUBSET Literal)
    BY <1>1 DEF TypeOK, Assignments, Formula, Clause
  <2> QED BY <2>1, <2>2 DEF Levels
<1>3. Len(trailLim') = n + 1
  <2>1. trailLim \in Seq(0 .. Len(trail)) /\ Len(trail) \in 0 .. Len(trail)
    BY <1>1, TrailTypes DEF TypeOK
  <2> QED BY <1>1, <2>1, AppendProperties
<1>4. Pos(v) \in Literal /\ Pos(v).var = v /\ TruthOf(Pos(v)) = "true"
  BY DEF Pos, Literal, TruthOf
<1>5. \A j \in DOMAIN clauses : QuietIn(clauses[j], n, assignment, level)
  BY <1>1, QuietMeans DEF PropInv, WillBeVisited, WillBeSeeded
<1> HIDE DEF n
<1>6. QuietBelow'
  <2> SUFFICES ASSUME NEW k \in 0 .. n, NEW j \in DOMAIN clauses
               PROVE  QuietIn(clauses[j], k, assignment', level')
    <3>1. 0 .. Len(trailLim') - 1 = 0 .. n
      BY <1>2, <1>3
    <3> QED BY <1>1, <3>1, QuietMeans
  <2>1. QuietIn(clauses[j], k, assignment, level)
    <3>1. CASE k = n
      BY <1>5, <3>1
    <3>2. CASE k \in 0 .. n - 1
      BY <3>2, QuietMeans DEF PropInv, n
    <3> QED BY <1>2, <3>1, <3>2
  <2>2. k \in Nat /\ k < n + 1
    BY <1>2
  <2> QED BY <1>1, <1>2, <2>1, <2>2, SetAbove
<1>7. ASSUME NEW j \in DOMAIN clauses'
      PROVE  QuietIn(clauses'[j], n + 1, assignment', level') \/ WillBeVisited(j)'
  <2>1. CASE Negate(Pos(v)) \in clauses[j]
    <3>1. 1 \in DOMAIN propQueue' /\ propQueue'[1] = Pos(v)
      BY <1>1
    <3>2. 0 < j
      <4>1. clauses \in Seq(Clause)
        BY <1>1 DEF TypeOK, Formula
      <4>2. j \in 1 .. Len(clauses)
        BY <1>1, <1>7, <4>1, LenProperties
      <4> QED BY <4>2
    <3> QED BY <1>1, <2>1, <3>1, <3>2 DEF WillBeVisited
  <2>2. CASE Negate(Pos(v)) \notin clauses[j]
    <3>1. n <= n + 1
      BY <1>2
    <3>2. QuietIn(clauses[j], n + 1,
                  [assignment EXCEPT ![Pos(v).var] = TruthOf(Pos(v))],
                  [level EXCEPT ![Pos(v).var] = n + 1])
      BY <1>1, <1>2, <1>4, <1>5, <1>7, <2>2, <3>1, SetQuiet
    <3> QED BY <1>1, <1>4, <3>2
  <2> QED BY <2>1, <2>2
<1> QED BY <1>3, <1>6, <1>7, QuietMeans DEF PropInv

\* Nothing is assigned at the start, and no clause is empty.
LEMMA InitPropagates == Init => PropInv
<1> SUFFICES ASSUME Init PROVE PropInv
  OBVIOUS
<1>1. /\ pc = "seed" /\ cursor = 0 /\ trailLim = <<>> /\ Len(trailLim) = 0
      /\ TypeOK
  BY InitTypes DEF Init, TypeInv
<1>2. QuietBelow
  BY <1>1, QuietMeans
<1> SUFFICES ASSUME NEW j \in DOMAIN clauses
             PROVE  QuietIn(clauses[j], 0, assignment, level) \/ WillBeSeeded(j)
  BY <1>1, <1>2, QuietMeans DEF PropInv
<1>3. PICK l \in clauses[j] : TRUE
  BY FormulasAssumption DEF Init
<1>4. 0 < j /\ \A m \in clauses[j] : m \in Literal /\ m.var \in Var
                                        /\ assignment[m.var] = "unset"
  BY <1>1, ClauseLiterals, NegateFacts DEF Init
<1>5. CASE clauses[j] = {l}
  BY <1>1, <1>3, <1>4, <1>5 DEF WillBeSeeded
<1>6. CASE clauses[j] # {l}
  <2>1. PICK m \in clauses[j] : m # l
    BY <1>3, <1>6
  <2> QED BY <1>3, <1>4, <2>1 DEF QuietIn
<1> QED BY <1>5, <1>6

\* A step that keeps the values and the queue: what will be looked at still
\* will be.
LEMMA StillPropagates ==
    ASSUME TypeOK, PropInv,
           UNCHANGED <<clauses, assignment, level, trailLim, propQueue>>,
           \/ pc' = pc /\ cursor' = cursor
           \/ /\ pc \in {"seed", "assume", "propagate"}
              /\ pc = "seed" => cursor = Len(clauses)
              /\ pc' = "propagate" => cursor' = 0
    PROVE  PropInv'
<1>1. QuietBelow'
  BY QuietMeans DEF PropInv
<1>2. CASE pc' = pc /\ cursor' = cursor
  <2>1. NoneForgotten'
    BY <1>2 DEF PropInv, NoneForgotten, QuietAt, OpenAt, IsTrue, IsUnset,
                DecisionLevel, WillBeVisited, WillBeSeeded
  <2> QED BY <1>1, <2>1 DEF PropInv
<1>3. CASE /\ pc \in {"seed", "assume", "propagate"}
           /\ pc = "seed" => cursor = Len(clauses)
           /\ pc' = "propagate" => cursor' = 0
  <2> SUFFICES ASSUME NEW j \in DOMAIN clauses
               PROVE  \/ QuietIn(clauses[j], Len(trailLim), assignment, level)
                      \/ WillBeVisited(j)'
    BY <1>1, QuietMeans DEF PropInv
  <2>1. j \in 1 .. Len(clauses)
    BY DEF TypeOK, Formula
  <2>2. ~WillBeSeeded(j)
    BY <1>3, <2>1 DEF WillBeSeeded
  <2>3. WillBeVisited(j) => WillBeVisited(j)'
    BY <1>3, <2>1 DEF WillBeVisited
  <2> QED BY <1>3, <2>2, <2>3, QuietMeans DEF PropInv
<1> QED BY <1>2, <1>3

\* Every step keeps the levels below quiet and every other clause in view.
LEMMA PropStep == TypeInv /\ PropInv /\ [Next]_vars => PropInv'
<1> SUFFICES ASSUME TypeInv, PropInv, [Next]_vars PROVE PropInv'
  OBVIOUS
<1>0. TypeOK /\ PhasesOK
  BY DEF TypeInv
<1>1. CASE SeedDone
  BY <1>0, <1>1, StillPropagates DEF SeedDone
<1>2. CASE AssumeDone
  BY <1>0, <1>2, StillPropagates DEF AssumeDone
<1>3. CASE \E i \in DOMAIN trail : Resolve(i)
  BY <1>3, QuietMeans DEF PropInv, Resolve
<1>4. CASE Satisfied
  BY <1>0, <1>4, StillPropagates DEF Satisfied
<1>5. CASE UNCHANGED vars
  BY <1>0, <1>5, StillPropagates DEF vars
<1> QED
  BY <1>1, <1>2, <1>3, <1>4, <1>5, SeedUnitPropagates, AssumePropagates,
     VisitPropagates, PopHeadPropagates, LearnPropagates, DecidePropagates
  DEF Next, Step, Returned

LEMMA PropInvariant == Spec => [](TypeInv /\ PropInv)
BY InitTypes, InitPropagates, StepTypes, PropStep, PTL DEF Spec

\* A conflict abandons a half-visited literal and keeps the rest of the queue,
\* yet whenever the queue is empty no clause is falsified or forces a literal:
\* deciding, and answering sat, is legal.
THEOREM DecidesAtFixpoint == Spec => []PropagationComplete
<1>1. TypeInv /\ PropInv => PropagationComplete
  <2> SUFFICES ASSUME TypeInv, PropInv, pc = "propagate", propQueue = <<>>,
                      NEW i \in DOMAIN clauses
               PROVE  ~IsFalsified(clauses[i]) /\ ~IsUnit(clauses[i])
    BY DEF PropagationComplete
  <2>1. QuietIn(clauses[i], Len(trailLim), assignment, level)
    BY QuietMeans DEF PropInv, WillBeVisited, WillBeSeeded
  <2> QED BY <2>1, QuietIsFixpoint DEF TypeInv
<1> QED BY <1>1, PropInvariant, PTL

-----------------------------------------------------------------------------
(* The walk of analyze. *)

\* Appending to the trail.
LEMMA TrailAppend ==
    ASSUME TypeOK, NEW l \in Literal, trail' = Append(trail, l)
    PROVE  /\ Len(trail) \in Nat
           /\ DOMAIN trail = 1 .. Len(trail)
           /\ DOMAIN trail' = 1 .. Len(trail) + 1
           /\ \A t \in 1 .. Len(trail) : /\ trail'[t] = trail[t]
                                         /\ trail[t].var \in Var
           /\ trail'[Len(trail) + 1] = l
<1>1. trail \in Seq(Literal)
  BY DEF TypeOK
<1>2. \A t \in 1 .. Len(trail) : trail[t].var \in Var
  BY TrailTypes, NegateFacts
<1> QED BY <1>1, <1>2, AppendProperties, LenProperties

\* Without levels there is nothing to reach back to.
LEMMA RootReaches ==
    ASSUME TypeOK', trailLim' = <<>>
    PROVE  ReasonReachesBack'
<1>1. /\ level' \in [Var -> 0 .. 0]
      /\ \A t \in DOMAIN trail' : trail'[t].var \in Var
  <2>1. Len(trailLim') = 0 /\ level' \in [Var -> 0 .. Len(trailLim')]
           /\ trail' \in Seq(Literal)
    BY DEF TypeOK
  <2>2. \A t \in DOMAIN trail' : trail'[t] \in Literal
    BY <2>1
  <2> QED BY <2>1, <2>2, NegateFacts
<1>2. \A t \in DOMAIN trail' : ~(level'[trail'[t].var] > 0)
  BY <1>1
<1> QED BY <1>2 DEF ReasonReachesBack

\* A clause that forces l above level 0 has a literal of the current level on
\* the trail: it was quiet one level below.
LEMMA UnitReachesBack ==
    ASSUME TypeOK, TrailOK, QuietBelow, Len(trailLim) > 0,
           NEW i \in DOMAIN clauses, ~IsSatisfied(clauses[i]),
           NEW x, \A m \in clauses[i] : m # x => ~IsUnset(m)
    PROVE  \E s \in DOMAIN trail :
              /\ level[trail[s].var] = Len(trailLim)
              /\ \E m \in clauses[i] : m.var = trail[s].var /\ m # x
<1> DEFINE k == Len(trailLim) - 1
<1>1. /\ k \in 0 .. Len(trailLim) - 1
      /\ \A m \in clauses[i] : /\ m.var \in Var
                               /\ level[m.var] \in 0 .. Len(trailLim)
      /\ Len(trailLim) \in Nat
  BY TrailTypes, ClauseLiterals, NegateFacts DEF TypeOK
<1>2. QuietIn(clauses[i], k, assignment, level)
  BY <1>1, QuietMeans
<1>3. PICK m \in clauses[i] :
          m # x /\ (assignment[m.var] = "unset" \/ level[m.var] > k)
  <2>1. \A m \in clauses[i] : assignment[m.var] # TruthOf(m)
    BY DEF IsSatisfied, IsTrue
  <2> QED BY <1>2, <2>1 DEF QuietIn
<1>4. assignment[m.var] # "unset" /\ level[m.var] = Len(trailLim)
  BY <1>1, <1>3 DEF IsUnset
<1>5. PICK s \in DOMAIN trail : trail[s].var = m.var
  BY <1>1, <1>4 DEF TrailOK, AssignedOnTrail
<1> QED BY <1>3, <1>4, <1>5

\* A visit: the clause behind the forced literal.
LEMMA VisitReaches ==
    ASSUME TypeInv, TypeInv', QuietBelow, ReasonReachesBack,
           NEW i \in DOMAIN clauses, Visit(i)
    PROVE  ReasonReachesBack'
<1>1. TypeOK /\ TrailOK /\ trailLim' = trailLim /\ clauses' = clauses
         /\ Len(trailLim) \in Nat
  BY TrailTypes DEF TypeInv, Visit
<1>2. CASE UNCHANGED <<level, reason, trail>>
  BY <1>1, <1>2 DEF ReasonReachesBack
<1>3. CASE trailLim = <<>>
  BY <1>1, <1>3, RootReaches DEF TypeInv
<1>4. ASSUME trailLim # <<>>,
             NEW l \in clauses[i], IsUnit(clauses[i]), IsUnset(l), Assign(l, i)
      PROVE  ReasonReachesBack'
  <2>1. /\ l \in Literal /\ l.var \in Var
        /\ level' = [level EXCEPT ![l.var] = Len(trailLim)]
        /\ reason' = [reason EXCEPT ![l.var] = i]
        /\ level \in [Var -> 0 .. Len(trailLim)]
        /\ reason \in [Var -> 0 .. Len(clauses)]
        /\ trail' = Append(trail, l)
    BY <1>1, <1>4, ClauseLiterals, NegateFacts DEF Assign, DecisionLevel, TypeOK
  <2>2. /\ Len(trail) \in Nat
        /\ DOMAIN trail = 1 .. Len(trail)
        /\ DOMAIN trail' = 1 .. Len(trail) + 1
        /\ \A t \in 1 .. Len(trail) : /\ trail'[t] = trail[t]
                                      /\ trail[t].var \in Var
        /\ trail'[Len(trail) + 1] = l
    BY <1>1, <2>1, TrailAppend
  <2>3. \A t \in 1 .. Len(trail) :
           /\ trail[t].var # l.var
           /\ level'[trail[t].var] = level[trail[t].var]
           /\ reason'[trail[t].var] = reason[trail[t].var]
    <3>1. \A t \in 1 .. Len(trail) : trail[t].var # l.var
      BY <1>1, <1>4, <2>2 DEF TrailOK, TrailOnlyAssigned, IsUnset
    <3> QED BY <2>1, <2>2, <3>1
  <2> SUFFICES ASSUME NEW t \in DOMAIN trail', level'[trail'[t].var] > 0,
                      reason'[trail'[t].var] # 0
               PROVE  \E s \in 1 .. t - 1 :
                  /\ level'[trail'[s].var] = level'[trail'[t].var]
                  /\ \E m \in clauses[reason'[trail'[t].var]] :
                        m.var = trail'[s].var
    BY <1>1 DEF ReasonReachesBack
  <2>4. CASE t \in 1 .. Len(trail)
    <3>1. PICK s \in 1 .. t - 1 :
             /\ level[trail[s].var] = level[trail[t].var]
             /\ \E m \in clauses[reason[trail[t].var]] : m.var = trail[s].var
      BY <2>2, <2>3, <2>4 DEF ReasonReachesBack
    <3>2. s \in 1 .. Len(trail)
      BY <2>2, <2>4, <3>1
    <3> QED BY <2>2, <2>3, <2>4, <3>1, <3>2
  <2>5. CASE t = Len(trail) + 1
    <3>1. /\ trail'[t].var = l.var
          /\ level'[l.var] = Len(trailLim) /\ reason'[l.var] = i
      BY <2>1, <2>2, <2>5
    <3>2. /\ Len(trailLim) > 0 /\ ~IsSatisfied(clauses[i])
          /\ \A m \in clauses[i] : m # l => ~IsUnset(m)
      <4>1. Len(trailLim) > 0
        BY <1>1, <1>4
      <4> QED BY <1>4, <4>1 DEF IsUnit, UnsetOf
    <3>3. PICK s \in DOMAIN trail :
             /\ level[trail[s].var] = Len(trailLim)
             /\ \E m \in clauses[i] : m.var = trail[s].var
      BY <1>1, <3>2, UnitReachesBack
    <3>4. s \in 1 .. t - 1 /\ s \in 1 .. Len(trail)
      BY <2>2, <2>5, <3>3
    <3> QED BY <2>2, <2>3, <3>1, <3>3, <3>4
  <2> QED BY <2>2, <2>4, <2>5
<1> QED BY <1>2, <1>3, <1>4 DEF Visit

\* A backjump: the asserted literal is backed by the learnt clause, which has a
\* literal of the level returned to.
LEMMA LearnReaches ==
    ASSUME TypeInv, TypeInv', ReasonReachesBack,
           NEW i \in DOMAIN trail, Learn(i)
    PROVE  ReasonReachesBack'
<1> DEFINE p == Negate(trail[i])
<1>1. TypeOK /\ TrailOK /\ PhasesOK /\ Len(trailLim) \in Nat
         /\ Len(trail) \in Nat /\ DOMAIN trail = 1 .. Len(trail)
         /\ clauses \in Seq(SUBSET Literal)
  BY TrailTypes DEF TypeInv, TypeOK, Formula, Clause
<1>2. PICK bt \in 0 .. Len(trailLim) - 1 : \E top \in 0 .. Len(trail) :
         /\ BackjumpedTo(bt, p)
         /\ bt = 0 \/ \E l \in LearntNow : level[l.var] = bt
         /\ TruncatedTo(bt, top, p)
  BY <1>1, LearnKeeps
<1> DEFINE top == trailLim[bt + 1]
<1>3. /\ top \in 0 .. Len(trail)
      /\ DOMAIN trail' = 1 .. top + 1
      /\ trail'[top + 1] = p
      /\ reason'[p.var] = Len(clauses) + 1
      /\ \A t \in 1 .. top :
           /\ trail'[t] = trail[t]
           /\ trail[t].var \in Var
           /\ trail[t].var # p.var
           /\ level'[trail[t].var] = level[trail[t].var]
           /\ reason'[trail[t].var] = reason[trail[t].var]
  BY <1>2 DEF TruncatedTo
<1>4. p \in Literal /\ LearntNow \subseteq Literal
         /\ clauses' = Append(clauses, LearntNow \cup {p})
         /\ level'[p.var] = bt /\ level[p.var] > bt
         /\ bt \in Nat /\ bt + 1 \in DOMAIN trailLim
  <2>1. trail[i] \in Literal
    BY <1>1, TrailTypes
  <2> QED BY <1>1, <1>2, <2>1, NegateFacts, TrailTypes DEF BackjumpedTo
<1> HIDE DEF p, top
<1>5. /\ \A j \in 1 .. Len(clauses) : clauses'[j] = clauses[j]
      /\ clauses'[Len(clauses) + 1] = LearntNow \cup {p}
  <2>1. LearntNow \cup {p} \in SUBSET Literal
    BY <1>4
  <2> QED BY <1>1, <1>4, <2>1, AppendProperties
<1> SUFFICES ASSUME NEW t \in DOMAIN trail', level'[trail'[t].var] > 0,
                    reason'[trail'[t].var] # 0
             PROVE  \E s \in 1 .. t - 1 :
                /\ level'[trail'[s].var] = level'[trail'[t].var]
                /\ \E m \in clauses'[reason'[trail'[t].var]] :
                      m.var = trail'[s].var
  BY DEF ReasonReachesBack
<1>6. CASE t \in 1 .. top
  <2>1. PICK s \in 1 .. t - 1 :
           /\ level[trail[s].var] = level[trail[t].var]
           /\ \E m \in clauses[reason[trail[t].var]] : m.var = trail[s].var
    <3>1. t \in DOMAIN trail /\ level[trail[t].var] > 0
             /\ reason[trail[t].var] # 0
      BY <1>1, <1>3, <1>6
    <3> QED BY <3>1 DEF ReasonReachesBack
  <2>2. s \in 1 .. top
    BY <1>3, <1>6, <2>1
  <2>3. reason[trail[t].var] \in 1 .. Len(clauses)
    <3>1. reason \in [Var -> 0 .. Len(clauses)] /\ Len(clauses) \in Nat
      BY <1>1, LenProperties DEF TypeOK
    <3>2. trail[t].var \in Var /\ reason[trail[t].var] # 0
      BY <1>3, <1>6
    <3> QED BY <3>1, <3>2
  <2>4. /\ trail'[t] = trail[t] /\ trail'[s] = trail[s]
        /\ level'[trail[t].var] = level[trail[t].var]
        /\ level'[trail[s].var] = level[trail[s].var]
        /\ reason'[trail[t].var] = reason[trail[t].var]
    BY <1>3, <1>6, <2>2
  <2>5. clauses'[reason'[trail'[t].var]] = clauses[reason[trail[t].var]]
    BY <1>5, <2>3, <2>4
  <2> QED BY <2>1, <2>4, <2>5
<1>7. CASE t = top + 1
  <2>1. /\ trail'[t].var = p.var /\ level'[p.var] = bt /\ bt > 0
        /\ clauses'[reason'[p.var]] = LearntNow \cup {p}
    BY <1>3, <1>4, <1>5, <1>7
  <2>2. PICK l \in LearntNow : level[l.var] = bt
    BY <1>2, <2>1
  <2>3. l.var \in Var /\ assignment[l.var] # "unset"
    BY <1>1, <1>4, <2>1, <2>2, NegateFacts DEF TrailOK, AssignedOnTrail
  <2>4. PICK s \in DOMAIN trail : trail[s].var = l.var
    BY <1>1, <2>3 DEF TrailOK, AssignedOnTrail
  <2>5. s \in 1 .. top
    <3>1. ~(trailLim[bt + 1] < s)
      BY <1>1, <1>4, <2>2, <2>4 DEF TrailOK, LevelsOnTrail
    <3> QED BY <1>1, <1>3, <2>4, <3>1 DEF top
  <2>6. s \in 1 .. t - 1
    BY <1>3, <1>7, <2>5
  <2>7. trail'[s] = trail[s] /\ level'[trail'[s].var] = bt
    BY <1>3, <2>2, <2>4, <2>5
  <2>8. l \in clauses'[reason'[trail'[t].var]] /\ l.var = trail'[s].var
    BY <2>1, <2>2, <2>4, <2>7
  <2> QED BY <2>1, <2>6, <2>7, <2>8
<1> QED BY <1>3, <1>6, <1>7

\* A decision has no clause behind it.
LEMMA DecideReaches ==
    ASSUME TypeInv, ReasonReachesBack, NEW v \in Var, Decide(v)
    PROVE  ReasonReachesBack'
<1>1. /\ TypeOK /\ TrailOK /\ clauses' = clauses
      /\ Pos(v) \in Literal /\ Pos(v).var = v
      /\ assignment[v] = "unset"
      /\ trail' = Append(trail, Pos(v))
      /\ reason' = [reason EXCEPT ![v] = 0]
      /\ level' = [level EXCEPT ![v] = Len(trailLim) + 1]
      /\ DOMAIN reason = Var /\ DOMAIN level = Var
  BY DEF TypeInv, TypeOK, Decide, Pos, Literal, DecisionLevel
<1>2. /\ Len(trail) \in Nat
      /\ DOMAIN trail = 1 .. Len(trail)
      /\ DOMAIN trail' = 1 .. Len(trail) + 1
      /\ \A t \in 1 .. Len(trail) : /\ trail'[t] = trail[t]
                                    /\ trail[t].var \in Var
      /\ trail'[Len(trail) + 1] = Pos(v)
  BY <1>1, TrailAppend
<1>3. \A t \in 1 .. Len(trail) :
         /\ level'[trail[t].var] = level[trail[t].var]
         /\ reason'[trail[t].var] = reason[trail[t].var]
  <2>1. \A t \in 1 .. Len(trail) : trail[t].var # v
    BY <1>1, <1>2 DEF TrailOK, TrailOnlyAssigned
  <2> QED BY <1>1, <1>2, <2>1
<1> SUFFICES ASSUME NEW t \in DOMAIN trail', level'[trail'[t].var] > 0,
                    reason'[trail'[t].var] # 0
             PROVE  \E s \in 1 .. t - 1 :
                /\ level'[trail'[s].var] = level'[trail'[t].var]
                /\ \E m \in clauses[reason'[trail'[t].var]] :
                      m.var = trail'[s].var
  BY <1>1 DEF ReasonReachesBack
<1>4. t # Len(trail) + 1
  BY <1>1, <1>2
<1>5. t \in 1 .. Len(trail)
  BY <1>2, <1>4
<1>6. PICK s \in 1 .. t - 1 :
         /\ level[trail[s].var] = level[trail[t].var]
         /\ \E m \in clauses[reason[trail[t].var]] : m.var = trail[s].var
  BY <1>2, <1>3, <1>5 DEF ReasonReachesBack
<1>7. s \in 1 .. Len(trail)
  BY <1>2, <1>5, <1>6
<1> QED BY <1>2, <1>3, <1>5, <1>6, <1>7

\* Every reason reaches back, whatever is undone and asserted.
LEMMA ReasonStep ==
    TypeInv /\ TypeInv' /\ PropInv /\ ReasonReachesBack /\ [Next]_vars
       => ReasonReachesBack'
<1> SUFFICES ASSUME TypeInv, TypeInv', PropInv, ReasonReachesBack, [Next]_vars
             PROVE  ReasonReachesBack'
  OBVIOUS
<1>1. CASE UNCHANGED <<clauses, level, reason, trail>>
  BY <1>1 DEF ReasonReachesBack
<1>2. CASE SeedUnit \/ Assume
  <2>1. trailLim' = <<>>
    BY <1>2 DEF SeedUnit, Assume, TypeInv, PhasesOK, Seeding
  <2> QED BY <2>1, RootReaches DEF TypeInv
<1>3. CASE \E i \in DOMAIN clauses : Visit(i)
  BY <1>3, VisitReaches DEF PropInv
<1>4. CASE \E i \in DOMAIN trail : Learn(i)
  BY <1>4, LearnReaches
<1>5. CASE \E v \in Var : Decide(v)
  BY <1>5, DecideReaches
<1> QED
  BY <1>1, <1>2, <1>3, <1>4, <1>5
  DEF Next, Step, Returned, vars, SeedDone, AssumeDone, PopHead, Resolve,
      Satisfied

\* A marked literal of the level lies before the place the walk has reached.
LEMMA WalkGoesOn ==
    ASSUME TypeInv, AnalysisReachesBack, pc = "analyze"
    PROVE  Candidates # {} /\ PathC \in Int /\ PathC >= 1
<1>1. /\ TypeOK /\ analysis.c \in DOMAIN clauses
      /\ Len(trailLim) \in Nat /\ Len(trailLim) > 0
      /\ DOMAIN trail = 1 .. Len(trail) /\ Len(trail) \in Nat
      /\ analysis.index \in Nat /\ analysis.pathC \in Int
  <2>1. TypeOK /\ trailLim # <<>> /\ analysis.c \in DOMAIN clauses
    BY DEF TypeInv, PhasesOK
  <2>2. analysis.index \in Nat /\ analysis.pathC \in Int
    BY <2>1 DEF TypeOK
  <2> QED BY <2>1, <2>2, TrailTypes
<1>2. PICK s \in DOMAIN trail, l \in clauses[analysis.c] :
         /\ s < analysis.index
         /\ level[trail[s].var] = Len(trailLim)
         /\ l.var = trail[s].var
  BY DEF AnalysisReachesBack, DecisionLevel
<1>3. l.var \in Var
  BY <1>1, ClauseLiterals, NegateFacts
<1>4. l.var \notin analysis.seen => l \in Marked
  BY <1>1, <1>2 DEF Marked
<1>5. s \in Candidates
  <2>1. trail[s].var \in SeenNow
    BY <1>2, <1>4 DEF SeenNow
  <2> QED BY <1>1, <1>2, <2>1 DEF Candidates, DecisionLevel
<1>6. PathC \in Int /\ Cardinality(MarkedHere) \in Nat
  BY <1>1, AnalysisTypes
<1>7. analysis.seen = {} => Cardinality(MarkedHere) # 0
  <2> SUFFICES ASSUME analysis.seen = {} PROVE Cardinality(MarkedHere) # 0
    OBVIOUS
  <2>1. l.var \in MarkedHere
    BY <1>1, <1>2, <1>3, <1>4 DEF MarkedHere, DecisionLevel
  <2>2. IsFiniteSet(MarkedHere)
    <3>1. IsFiniteSet(Var)
      BY FS_Interval, NumVarsAssumption DEF Var
    <3>2. MarkedHere \subseteq Var
      BY DEF MarkedHere
    <3> QED BY <3>1, <3>2, FS_Subset
  <2> QED BY <2>1, <2>2, FS_EmptySet
<1>8. analysis.pathC >= 1 \/ (analysis.pathC = 0 /\ analysis.seen = {})
  BY DEF AnalysisReachesBack
<1>9. PathC >= 1
  <2> DEFINE n == Cardinality(MarkedHere)
             d == analysis.pathC
  <2>1. PathC = d + n /\ n \in Nat /\ d \in Int
    BY <1>1, <1>6 DEF PathC
  <2>2. d >= 1 \/ (d = 0 /\ n # 0)
    BY <1>7, <1>8
  <2> HIDE DEF n, d
  <2> QED BY <2>1, <2>2
<1> QED BY <1>5, <1>6, <1>9

\* A conflict has a literal of its level, and so has every clause the walk
\* turns to.
LEMMA AnalysisStep ==
    TypeInv /\ PropInv /\ ReasonReachesBack /\ AnalysisReachesBack /\ [Next]_vars
       => AnalysisReachesBack'
<1> SUFFICES ASSUME TypeInv, PropInv, ReasonReachesBack, AnalysisReachesBack,
                    [Next]_vars
             PROVE  AnalysisReachesBack'
  OBVIOUS
<1>0. /\ TypeOK /\ TrailOK /\ PhasesOK
      /\ Len(trailLim) \in Nat /\ Len(trail) \in Nat
      /\ DOMAIN trail = 1 .. Len(trail)
  BY TrailTypes DEF TypeInv
<1>1. CASE \E i \in DOMAIN clauses : Visit(i)
  <2> PICK i \in DOMAIN clauses : Visit(i)
    BY <1>1
  <2>1. CASE pc' # "analyze"
    BY <2>1 DEF AnalysisReachesBack
  <2>2. CASE pc' = "analyze"
    <3>1. /\ IsFalsified(clauses[i]) /\ analysis' = AnalysisOf(i)
          /\ trailLim # <<>>
          /\ UNCHANGED <<clauses, trail, trailLim, level>>
      BY <2>2 DEF Visit
    <3>2. ~IsSatisfied(clauses[i]) /\ \A m \in clauses[i] : ~IsUnset(m)
      <4>1. \A m \in clauses[i] : /\ TruthOf(m) # TruthOf(Negate(m))
                                 /\ TruthOf(Negate(m)) \in {"true", "false"}
                                 /\ assignment[m.var] = TruthOf(Negate(m))
        BY <1>0, <3>1, ClauseLiterals, NegateFacts DEF IsFalsified, IsFalse
      <4> QED BY <4>1 DEF IsSatisfied, IsTrue, IsUnset
    <3>3. PICK s \in DOMAIN trail :
              /\ level[trail[s].var] = Len(trailLim)
              /\ \E m \in clauses[i] : m.var = trail[s].var
      <4>1. Len(trailLim) > 0
        BY <1>0, <3>1
      <4> QED BY <1>0, <3>2, <4>1, UnitReachesBack DEF PropInv
    <3>4. /\ analysis'.c = i /\ analysis'.index = Len(trail) + 1
          /\ analysis'.pathC = 0 /\ analysis'.seen = {}
      BY <3>1 DEF AnalysisOf
    <3>5. s < analysis'.index
      BY <1>0, <3>3, <3>4
    <3> QED BY <3>1, <3>3, <3>4, <3>5 DEF AnalysisReachesBack, DecisionLevel
  <2> QED BY <2>1, <2>2
<1>2. CASE \E i \in DOMAIN trail : Resolve(i)
  <2> PICK i \in DOMAIN trail : Resolve(i)
    BY <1>2
  <2>1. /\ pc = "analyze" /\ UNCHANGED <<clauses, trail, trailLim, level>>
        /\ i \in Candidates /\ ~StopsAt(i)
        /\ trailLim # <<>>
        /\ analysis'.c = reason[trail[i].var]
        /\ analysis'.index = i /\ analysis'.pathC = PathC - 1
    BY <1>0 DEF Resolve, IsLatest, PhasesOK
  <2>2. level[trail[i].var] = Len(trailLim) /\ Len(trailLim) > 0
    <3>1. trail[i].var \in Var /\ level[trail[i].var] >= Len(trailLim)
      BY <1>0, <2>1, TrailTypes, NegateFacts DEF Candidates, DecisionLevel
    <3>2. level[trail[i].var] \in 0 .. Len(trailLim)
      BY <1>0, <3>1 DEF TypeOK
    <3> QED BY <1>0, <2>1, <3>1, <3>2
  <2>3. PICK s \in 1 .. i - 1 :
           /\ level[trail[s].var] = level[trail[i].var]
           /\ \E l \in clauses[reason[trail[i].var]] : l.var = trail[s].var
    BY <2>1, <2>2 DEF ReasonReachesBack, StopsAt
  <2>4. PathC \in Int /\ PathC >= 1 /\ PathC # 1
    BY <2>1, WalkGoesOn DEF StopsAt
  <2>5. s \in DOMAIN trail /\ s < i
    BY <1>0, <2>3
  <2>6. analysis'.pathC >= 1
    BY <2>1, <2>4
  <2> QED BY <2>1, <2>2, <2>3, <2>5, <2>6 DEF AnalysisReachesBack, DecisionLevel
<1>3. CASE UNCHANGED vars
  BY <1>3 DEF vars, AnalysisReachesBack, DecisionLevel
<1>4. CASE pc' # "analyze"
  BY <1>4 DEF AnalysisReachesBack
<1> QED
  BY <1>1, <1>2, <1>3, <1>4
  DEF Next, Step, Returned, SeedUnit, SeedDone, Assume, AssumeDone, PopHead,
      Learn, Decide, Satisfied

\* The walk of analyze never runs off the start of the trail and its counter
\* never underflows: at level k every clause it turns to, the conflict and then
\* the reasons, has a literal assigned at k before the place it has reached.
THEOREM AnalysisFindsItsWay == Spec => []AnalysisStaysOnTrail
<1> DEFINE Inv == TypeInv /\ PropInv /\ ReasonReachesBack /\ AnalysisReachesBack
<1>1. Init => Inv
  BY InitTypes, InitPropagates DEF Init, ReasonReachesBack, AnalysisReachesBack
<1>2. Inv /\ [Next]_vars => Inv'
  BY StepTypes, PropStep, ReasonStep, AnalysisStep
<1>3. Inv => AnalysisStaysOnTrail
  BY WalkGoesOn DEF AnalysisStaysOnTrail
<1> QED BY <1>1, <1>2, <1>3, PTL DEF Spec

\* Every backjump returns below the level of the conflict and leaves one more
\* variable assigned at the level it returns to.
THEOREM BackjumpsGain == Spec => BackjumpGains
<1> DEFINE Assigned(k) == {v \in Var : assignment[v] # "unset" /\ level[v] <= k}
           Gain == Len(clauses') > Len(clauses) =>
                     /\ Len(trailLim') < Len(trailLim)
                     /\ Cardinality({v \in Var : assignment'[v] # "unset"
                                          /\ level'[v] <= Len(trailLim')})
                          > Cardinality(Assigned(Len(trailLim')))
<1>1. TypeInv /\ [Next]_vars => [Gain]_vars
  <2> SUFFICES ASSUME TypeInv, Next, Len(clauses') > Len(clauses)
               PROVE  Gain
    OBVIOUS
  <2>0. TypeOK /\ TrailOK /\ PhasesOK
    BY DEF TypeInv
  <2>1. PICK i \in DOMAIN trail : Learn(i)
    <3>1. clauses' = clauses => ~(Len(clauses') > Len(clauses))
      <4>1. Len(clauses) \in Nat
        BY <2>0, LenProperties DEF TypeOK, Formula
      <4> QED BY <4>1
    <3> QED BY <3>1 DEF Next, Step, Returned, vars, SeedUnit, SeedDone, Assume,
                        AssumeDone, Visit, PopHead, Resolve, Decide, Satisfied
  <2> DEFINE p == Negate(trail[i])
  <2>2. PICK bt \in 0 .. Len(trailLim) - 1 : BackjumpedTo(bt, p) /\ p \in Literal
    BY <2>0, <2>1, LearnFacts
  <2> DEFINE Old == Assigned(bt)
             New == {v \in Var : assignment'[v] # "unset" /\ level'[v] <= bt}
  <2>3. /\ p.var \in Var /\ assignment'[p.var] # "unset"
        /\ level'[p.var] = bt /\ level[p.var] > bt
        /\ Len(trailLim') = bt /\ bt \in Nat /\ bt < Len(trailLim)
        /\ \A v \in Var : level[v] \in Nat
    <3>1. level \in [Var -> 0 .. Len(trailLim)] /\ Len(trailLim) \in Nat
      BY <2>0, TrailTypes DEF TypeOK
    <3> QED BY <2>2, <3>1, NegateFacts DEF BackjumpedTo
  <2>4. p.var \in New /\ p.var \notin Old
    BY <2>3
  <2>5. Old \subseteq New
    <3> SUFFICES ASSUME NEW v \in Old PROVE v \in New
      OBVIOUS
    <3>1. v # p.var /\ v \in Var /\ level[v] <= bt /\ assignment[v] # "unset"
      BY <2>3
    <3>2. assignment'[v] = assignment[v] /\ level'[v] = level[v]
      BY <2>2, <3>1 DEF BackjumpedTo
    <3> QED BY <3>1, <3>2
  <2>6. IsFiniteSet(Var) /\ Old \subseteq Var /\ New \subseteq Var
    <3>1. IsFiniteSet(Var)
      BY FS_Interval, NumVarsAssumption DEF Var
    <3> QED BY <3>1
  <2>7. IsFiniteSet(Old) /\ IsFiniteSet(New)
    BY <2>6, FS_Subset
  <2>s. Len(trailLim') < Len(trailLim) /\ Len(trailLim') = bt
    BY <2>3
  <2>8. Cardinality(New) > Cardinality(Old)
    <3> HIDE DEF Old, New, p
    <3>1. Old \cup {p.var} \subseteq New
      BY <2>4, <2>5
    <3>2. Cardinality(Old \cup {p.var}) = Cardinality(Old) + 1
      BY <2>4, <2>7, FS_AddElement
    <3>3. Cardinality(Old \cup {p.var}) <= Cardinality(New)
      BY <2>7, <3>1, FS_Subset
    <3>4. Cardinality(Old) \in Nat /\ Cardinality(New) \in Nat
      BY <2>7, FS_CardinalityType
    <3> QED BY <3>2, <3>3, <3>4
  <2> QED BY <2>s, <2>8
<1>2. [Gain]_vars => [ Len(clauses') > Len(clauses) =>
          LET back == Len(trailLim') IN
          /\ back < Len(trailLim)
          /\ Cardinality({v \in Var : assignment'[v] # "unset"
                                      /\ level'[v] <= back})
               > AssignedUpTo(back)
      ]_vars
  BY DEF AssignedUpTo
<1> HIDE DEF Gain
<1>3. Spec => []TypeInv
  BY InitTypes, StepTypes, PTL DEF Spec
<1> QED BY <1>1, <1>2, <1>3, PTL DEF Spec, BackjumpGains

-----------------------------------------------------------------------------
(* The assumptions. *)

\* The literals forced so far are forced and of level 0.
LEMMA AssumedStep == TypeInv /\ AssumedSoFar /\ [Next]_vars => AssumedSoFar'
<1> SUFFICES ASSUME TypeInv, AssumedSoFar, [Next]_vars
             PROVE  AssumedSoFar'
  OBVIOUS
<1> DEFINE Forced(i) == /\ IsTrue(assumptions[i])
                        /\ level[assumptions[i].var] = 0
<1>0. /\ TypeOK /\ TrailOK /\ PhasesOK
      /\ assumptions \in Seq(Literal) /\ Len(assumptions) \in Nat
      /\ \A i \in 1 .. Len(assumptions) :
            /\ assumptions[i] \in Literal
            /\ assumptions[i].var \in Var
            /\ TruthOf(assumptions[i]) # "unset"
  <2>1. TypeOK /\ assumptions \in Seq(Literal)
    BY DEF TypeInv, TypeOK
  <2> QED BY <2>1, NegateFacts, ElementOfSeq, LenProperties DEF TypeInv
<1>1. ASSUME NEW l \in Literal, NEW r, Assign(l, r), IsUnset(l),
             assumptions' = assumptions,
             NEW i \in 1 .. Len(assumptions), Forced(i)
      PROVE  Forced(i)'
  <2>1. assumptions[i].var # l.var
    BY <1>0, <1>1 DEF IsTrue, IsUnset
  <2> QED BY <1>0, <1>1, <2>1 DEF IsTrue, Assign, TypeOK
<1>2. ASSUME UNCHANGED <<assumptions, assignment, level>>,
             NEW i \in 1 .. Len(assumptions), Forced(i)
      PROVE  Forced(i)'
  BY <1>2 DEF IsTrue
<1>3. CASE SeedUnit
  BY <1>3 DEF SeedUnit, AssumedSoFar
<1>4. CASE SeedDone
  BY <1>4 DEF SeedDone, AssumedSoFar
<1>5. CASE Assume
  <2> DEFINE a == assumptions[cursor + 1]
  <2>1. /\ pc = "assume" /\ cursor + 1 \in 1 .. Len(assumptions)
        /\ cursor' = cursor + 1 /\ assumptions' = assumptions
        /\ cursor \in Nat /\ trailLim = <<>>
        /\ level[a.var] = 0
    BY <1>0, <1>5 DEF Assume, TypeOK, PhasesOK, Seeding
  <2>2. \A i \in 1 .. cursor : Forced(i) /\ i \in 1 .. Len(assumptions)
    BY <2>1, <1>0 DEF AssumedSoFar
  <2>3. CASE pc' = "unsat"
    BY <2>3 DEF AssumedSoFar
  <2>4. CASE IsTrue(a) /\ UNCHANGED <<assignment, level, pc>>
    <3>1. \A i \in 1 .. cursor + 1 : Forced(i)
      BY <2>1, <2>2, <2>4
    <3>2. \A i \in 1 .. cursor + 1 : Forced(i)'
      BY <1>2, <2>1, <2>4, <3>1, <1>0
    <3> QED BY <2>1, <2>4, <3>2 DEF AssumedSoFar
  <2>5. CASE IsUnset(a) /\ Assign(a, 0) /\ pc' = pc
    <3>1. \A i \in 1 .. cursor : Forced(i)'
      BY <1>0, <1>1, <2>1, <2>2, <2>5
    <3>2. \A n \in 1 .. Len(assumptions) : n = cursor + 1 => Forced(n)'
      <4>1. /\ a \in Literal /\ a.var \in Var
            /\ assignment' = [assignment EXCEPT ![a.var] = TruthOf(a)]
            /\ level' = [level EXCEPT ![a.var] = Len(trailLim)]
            /\ assignment \in [Var -> {"unset", "true", "false"}]
            /\ level \in [Var -> 0 .. Len(trailLim)]
            /\ Len(trailLim) = 0
        BY <1>0, <2>1, <2>5 DEF Assign, DecisionLevel, TypeOK
      <4>2. assignment'[a.var] = TruthOf(a) /\ level'[a.var] = 0
        BY <4>1
      <4> QED BY <2>1, <4>2 DEF IsTrue
    <3>3. \A i \in 1 .. cursor + 1 : Forced(i)'
      <4> SUFFICES ASSUME NEW i \in 1 .. cursor + 1 PROVE Forced(i)'
        OBVIOUS
      <4>1. CASE i = cursor + 1
        BY <2>1, <3>2, <4>1
      <4>2. CASE i \in 1 .. cursor
        BY <3>1, <4>2
      <4> QED BY <2>1, <4>1, <4>2
    <3> QED BY <2>1, <2>5, <3>3 DEF AssumedSoFar
  <2> QED BY <1>5, <2>3, <2>4, <2>5 DEF Assume
<1>6. CASE AssumeDone
  BY <1>0, <1>6 DEF AssumeDone, AssumedSoFar, IsTrue
<1> DEFINE Searching == pc \in {"propagate", "analyze", "sat"}
<1>7. ASSUME Searching, assumptions' = assumptions,
             \A i \in 1 .. Len(assumptions) : Forced(i) => Forced(i)',
             pc' # "assume"
      PROVE  AssumedSoFar'
  <2>1. \A i \in 1 .. Len(assumptions) : Forced(i)
    BY <1>7 DEF AssumedSoFar
  <2>2. \A i \in 1 .. Len(assumptions) : Forced(i)'
    BY <1>7, <2>1
  <2> QED BY <1>7, <2>2 DEF AssumedSoFar
<1>8. CASE \E i \in DOMAIN clauses : Visit(i)
  <2> PICK i \in DOMAIN clauses : Visit(i)
    BY <1>8
  <2>1. Searching /\ assumptions' = assumptions /\ pc' # "assume"
    BY DEF Visit
  <2>2. CASE UNCHANGED <<assignment, level>>
    BY <1>2, <1>7, <2>1, <2>2
  <2>3. CASE \E l \in clauses[i] : IsUnset(l) /\ Assign(l, i)
    BY <1>0, <1>1, <1>7, <2>1, <2>3, ClauseLiterals
  <2> QED BY <2>2, <2>3 DEF Visit
<1>9. CASE PopHead
  BY <1>9, <1>2, <1>7 DEF PopHead
<1>10. CASE \E i \in DOMAIN trail : Resolve(i)
  BY <1>10, <1>2, <1>7 DEF Resolve
<1>11. CASE \E i \in DOMAIN trail : Learn(i)
  <2> PICK i \in DOMAIN trail : Learn(i)
    BY <1>11
  <2>1. Searching /\ assumptions' = assumptions /\ pc' # "assume"
    BY DEF Learn
  <2>2. PICK bt \in 0 .. Len(trailLim) - 1 : BackjumpedTo(bt, Negate(trail[i]))
    BY <1>0, LearnFacts
  <2>3. Len(trailLim) \in Nat
    BY <1>0, TrailTypes
  <2>4. ASSUME NEW j \in 1 .. Len(assumptions), Forced(j) PROVE Forced(j)'
    BY <1>0, <2>1, <2>2, <2>3, <2>4 DEF BackjumpedTo, IsTrue
  <2> QED BY <1>7, <2>1, <2>4
<1>12. CASE \E v \in Var : Decide(v)
  <2> PICK v \in Var : Decide(v)
    BY <1>12
  <2>1. Searching /\ assumptions' = assumptions /\ pc' # "assume"
    BY DEF Decide
  <2>2. ASSUME NEW j \in 1 .. Len(assumptions), Forced(j) PROVE Forced(j)'
    <3>1. assumptions[j].var # v
      BY <1>0, <2>2 DEF Decide, IsTrue
    <3> QED BY <1>0, <2>1, <2>2, <3>1 DEF Decide, IsTrue, TypeOK
  <2> QED BY <1>7, <2>1, <2>2
<1>13. CASE Satisfied
  BY <1>13, <1>2, <1>7 DEF Satisfied
<1>14. CASE UNCHANGED vars
  BY <1>14 DEF vars, AssumedSoFar, IsTrue
<1> QED
  BY <1>3, <1>4, <1>5, <1>6, <1>8, <1>9, <1>10, <1>11, <1>12, <1>13, <1>14
  DEF Next, Step, Returned

-----------------------------------------------------------------------------
(* The answer sat. *)

\* What the search keeps so that it may answer sat.
SatInv == /\ TypeInv
          /\ PropInv
          /\ FormulaIsPrefix
          /\ AssumedSoFar

LEMMA SatInvariant == Spec => []SatInv
<1>1. Init => SatInv
  <2>1. Init => FormulaIsPrefix /\ AssumedSoFar
    <3>1. Init => Len(formula) \in Nat
      BY FormulasAssumption DEF Init, Formula
    <3> QED BY <3>1 DEF Init, FormulaIsPrefix, AssumedSoFar
  <2> QED BY <2>1, InitTypes, InitPropagates DEF SatInv
<1>2. SatInv /\ [Next]_vars => SatInv'
  BY StepTypes, PropStep, PrefixStep, AssumedStep DEF SatInv
<1> QED BY <1>1, <1>2, PTL DEF Spec

\* With every variable assigned and every clause quiet, every clause holds.
LEMMA SatInvIsModel == SatInv => SatIsModel
<1> SUFFICES ASSUME SatInv, pc = "sat"
             PROVE  IsModel(TrueVars, formula, assumptions)
  BY DEF SatIsModel
<1>1. /\ TypeOK /\ AllAssigned
      /\ \A i \in DOMAIN clauses : ~IsFalsified(clauses[i])
  <2>1. TypeOK /\ AllAssigned /\ propQueue = <<>>
    BY DEF SatInv, TypeInv, PhasesOK
  <2>2. \A i \in DOMAIN clauses :
           QuietIn(clauses[i], Len(trailLim), assignment, level)
    BY <2>1, QuietMeans DEF SatInv, PropInv, WillBeVisited, WillBeSeeded
  <2> QED BY <2>1, <2>2, QuietIsFixpoint
<1>2. ASSUME NEW l \in Literal
      PROVE  /\ IsTrue(l) <=> Holds(l, TrueVars)
             /\ ~IsFalse(l) => IsTrue(l)
  <2>1. l.var \in Var /\ l.negated \in BOOLEAN
           /\ assignment[l.var] \in {"true", "false"}
    BY <1>1 DEF AllAssigned, TypeOK, Literal
  <2>2. l.var \in TrueVars <=> assignment[l.var] = "true"
    BY <2>1 DEF TrueVars
  <2>3. Negate(l).negated = ~l.negated
    BY DEF Negate
  <2>4. CASE l.negated
    BY <2>1, <2>2, <2>3, <2>4 DEF IsTrue, IsFalse, TruthOf, Holds
  <2>5. CASE ~l.negated
    BY <2>1, <2>2, <2>3, <2>5 DEF IsTrue, IsFalse, TruthOf, Holds
  <2> QED BY <2>1, <2>4, <2>5
<1>3. ASSUME NEW i \in DOMAIN formula PROVE Satisfies(TrueVars, formula[i])
  <2>1. i \in DOMAIN clauses /\ clauses[i] = formula[i]
    <3>1. FormulaIsPrefix /\ formula \in Seq(Clause) /\ clauses \in Seq(Clause)
      BY <1>1 DEF SatInv, TypeOK, Formula
    <3> QED BY <3>1, <1>3 DEF FormulaIsPrefix
  <2>2. PICK l \in clauses[i] : ~IsFalse(l)
    BY <1>1, <2>1 DEF IsFalsified
  <2>3. l \in Literal
    BY <1>1, <2>1, ClauseLiterals
  <2> QED BY <1>2, <2>1, <2>2, <2>3 DEF Satisfies
<1>4. ASSUME NEW i \in DOMAIN assumptions PROVE Holds(assumptions[i], TrueVars)
  <2>1. assumptions \in Seq(Literal)
    BY <1>1 DEF TypeOK
  <2>2. i \in 1 .. Len(assumptions) /\ assumptions[i] \in Literal
    BY <1>4, <2>1
  <2> QED BY <1>2, <2>2 DEF SatInv, AssumedSoFar
<1> QED BY <1>3, <1>4 DEF IsModel

\* "Returns true if satisfiable (a model is left in assignment)": the answer
\* sat comes with a model, whatever was learnt and undone on the way.
THEOREM SatAnswersAreModels == Spec => []SatIsModel
BY SatInvIsModel, SatInvariant, PTL

\* "assumption literals forced true at the root level": no backjump takes an
\* assumption back.
THEOREM AssumptionsStayForced == Spec => []AssumptionsForced
<1>1. SatInv => AssumptionsForced
  <2>1. TypeOK => DOMAIN assumptions = 1 .. Len(assumptions)
    BY DEF TypeOK
  <2> QED BY <2>1 DEF SatInv, TypeInv, AssumedSoFar, AssumptionsForced
<1> QED BY <1>1, SatInvariant, PTL

\* The search implements the oracle the resolver relies on: it answers once,
\* for the clauses and assumptions it was called with, and sat with a model of
\* them; every other step is a step the caller does not see.
THEOREM SearchImplementsOracle == Spec => ImplementsOracle
<1>1. Oracle!Var = Var /\ Oracle!Literal = Literal /\ Oracle!Formula = Formula
  BY DEF Oracle!Var, Oracle!Literal, Oracle!Clause, Oracle!Formula,
         Var, Literal, Clause, Formula
<1>2. ASSUME NEW m, NEW f, NEW a
      PROVE  Oracle!IsModel(m, f, a) <=> IsModel(m, f, a)
  BY DEF Oracle!IsModel, Oracle!Satisfies, Oracle!Holds, IsModel, Satisfies, Holds
<1>3. Init => Oracle!OracleInit
  <2>1. Init => formula \in Formula /\ assumptions \in Seq(Literal)
    BY FormulasAssumption, AssumptionSetsAssumption DEF Init
  <2>2. Init => pc = "seed"
    BY DEF Init
  <2> QED BY <1>1, <2>1, <2>2 DEF Oracle!OracleInit
<1>4. SatInv' => SatIsModel'
  BY SatInvIsModel, PTL
<1>5. SatInv /\ SatInv' /\ [Next]_vars => [Oracle!OracleNext]_(Oracle!oracleVars)
  <2> SUFFICES ASSUME SatInv, SatInv', [Next]_vars
               PROVE  Oracle!OracleNext \/ UNCHANGED Oracle!oracleVars
    OBVIOUS
  <2>1. formula' = formula /\ assumptions' = assumptions
    BY DEF Next, Step, Returned, vars, SeedUnit, SeedDone, Assume, AssumeDone,
           Visit, PopHead, Resolve, Learn, Decide, Satisfied
  <2>2. CASE pc \in {"sat", "unsat"}
    <3>1. UNCHANGED vars
      BY <2>2 DEF Next, Step, Returned, SeedUnit, SeedDone, Assume,
                  AssumeDone, Visit, PopHead, Resolve, Learn, Decide, Satisfied
    <3> QED BY <3>1 DEF vars, Oracle!oracleVars, TrueVars
  <2>3. CASE pc \notin {"sat", "unsat"} /\ pc' \notin {"sat", "unsat"}
    BY <2>1, <2>3 DEF Oracle!oracleVars
  <2>4. CASE pc \notin {"sat", "unsat"} /\ pc' = "unsat"
    BY <2>1, <2>4 DEF Oracle!OracleNext, Oracle!AnswerUnsat
  <2>5. CASE pc \notin {"sat", "unsat"} /\ pc' = "sat"
    <3>1. Oracle!IsModel(TrueVars', formula', assumptions')
      BY <1>2, <1>4, <2>5 DEF SatIsModel, IsModel, Satisfies, Holds
    <3>2. Oracle!IsModel(TrueVars', formula, assumptions)
      BY <2>1, <3>1
    <3>3. TrueVars' \in SUBSET Oracle!Var
      BY <1>1 DEF TrueVars
    <3> QED BY <2>1, <2>5, <3>2, <3>3 DEF Oracle!OracleNext, Oracle!AnswerSat
  <2> QED BY <2>2, <2>3, <2>4, <2>5
<1> QED
  BY <1>3, <1>5, SatInvariant, PTL DEF Spec, ImplementsOracle, Oracle!OracleSpec
=============================================================================
