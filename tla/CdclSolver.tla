----------------------------- MODULE CdclSolver -----------------------------
(***************************************************************************)
(* One call of Solver::search (crates/tpt-l-apt-solver/src/lib.rs): the    *)
(* CDCL loop behind solve and solve_with_assumptions, and the body every   *)
(* worker of solve_parallel runs.                                          *)
(*                                                                         *)
(* Kept: the trail and its levels, the propagation queue (which survives a *)
(* conflict: the code never clears it), the order in which clauses are     *)
(* visited, conflict analysis one resolution at a time, backjumping and    *)
(* learning.  Abstracted: the VSIDS scores and the seed only choose which  *)
(* unassigned variable is decided next, so Decide may take any of them.    *)
(***************************************************************************)
EXTENDS Cnf, FiniteSets

CONSTANTS Formulas,      \* the clause lists a call may be made with
          AssumptionSets \* the assumption lists a call may be made with

ASSUME FormulasAssumption ==
    /\ Formulas \subseteq Formula
    /\ \A f \in Formulas : \A i \in DOMAIN f : f[i] # {}
ASSUME AssumptionSetsAssumption == AssumptionSets \subseteq Seq(Literal)

VARIABLES formula,     \* the clauses the call was made with
          assumptions, \* the literals the caller forces true
          clauses,     \* Solver::clauses: formula, then what was learnt
          assignment,  \* Solver::assignment
          reason,      \* Solver::reason, 0 for None
          level,       \* Solver::level
          trail,       \* Solver::trail
          trailLim,    \* Solver::trail_lim
          propQueue,   \* Solver::prop_queue; its head is being propagated
          cursor,      \* clauses 1..cursor were visited for the head
                       \* (while seeding: the units, the assumptions done)
          pc,          \* where search is; "sat" and "unsat" are its answers
          analysis     \* the locals of analyze

vars == <<formula, assumptions, clauses, assignment, reason, level, trail,
          trailLim, propQueue, cursor, pc, analysis>>

NoAnalysis == [c |-> 0, seen |-> {}, learnt |-> {}, pathC |-> 0, index |-> 0]

\* What analyze starts from: nothing seen, the walk past the end of the trail.
AnalysisOf(confl) == [c |-> confl, seen |-> {}, learnt |-> {}, pathC |-> 0,
                      index |-> Len(trail) + 1]

TypeOK ==
    /\ formula \in Formula
    /\ assumptions \in Seq(Literal)
    /\ clauses \in Formula
    /\ assignment \in [Var -> {"unset", "true", "false"}]
    /\ reason \in [Var -> 0 .. Len(clauses)]
    /\ level \in [Var -> 0 .. Len(trailLim)]
    /\ trail \in Seq(Literal)
    /\ trailLim \in Seq(0 .. Len(trail))
    /\ propQueue \in Seq(Literal)
    /\ cursor \in Nat
    /\ pc \in {"seed", "assume", "propagate", "analyze", "sat", "unsat"}
    /\ analysis \in [c : 0 .. Len(clauses), seen : SUBSET Var,
                     learnt : SUBSET Literal, pathC : Int, index : Nat]

-----------------------------------------------------------------------------
(* Values of literals and clauses. *)

TruthOf(l)      == IF l.negated THEN "false" ELSE "true"
IsUnset(l)      == assignment[l.var] = "unset"
IsTrue(l)       == assignment[l.var] = TruthOf(l)
IsFalse(l)      == assignment[l.var] = TruthOf(Negate(l))
IsSatisfied(c)  == \E l \in c : IsTrue(l)
IsFalsified(c)  == \A l \in c : IsFalse(l)
UnsetOf(c)      == {l \in c : IsUnset(l)}
\* Fault: any unset literal is forced, not only the last one.
IsUnitAnyUnset(c) == ~IsSatisfied(c) /\ UnsetOf(c) # {}
IsUnit(c)       == ~IsSatisfied(c) /\ \E l \in c : UnsetOf(c) = {l}

DecisionLevel   == Len(trailLim)
AllAssigned     == \A v \in Var : assignment[v] # "unset"

\* Fault: the clauses that contain the head are visited, not its negation.
ToVisitWrongPolarity == {i \in cursor + 1 .. Len(clauses) :
                            Head(propQueue) \in clauses[i]}
\* Fault: the clause after the last one visited is skipped.
ToVisitSkipsOne == {i \in cursor + 2 .. Len(clauses) :
                       Negate(Head(propQueue)) \in clauses[i]}
\* Clauses the head of the queue still has to visit, in index order.
ToVisit == {i \in cursor + 1 .. Len(clauses) :
                Negate(Head(propQueue)) \in clauses[i]}

-----------------------------------------------------------------------------
(* Solver::assign, with the enqueue every caller does next. *)
Assign(l, r) ==
    /\ assignment' = [assignment EXCEPT ![l.var] = TruthOf(l)]
    /\ reason'     = [reason EXCEPT ![l.var] = r]
    /\ level'      = [level EXCEPT ![l.var] = DecisionLevel]
    /\ trail'      = Append(trail, l)

Init ==
    /\ formula \in Formulas
    /\ assumptions \in AssumptionSets
    /\ clauses = formula
    /\ assignment = [v \in Var |-> "unset"]
    /\ reason = [v \in Var |-> 0]
    /\ level = [v \in Var |-> 0]
    /\ trail = <<>>
    /\ trailLim = <<>>
    /\ propQueue = <<>>
    /\ cursor = 0
    /\ pc = "seed"
    /\ analysis = NoAnalysis

\* The unit clauses of the formula are assigned in order without looking at
\* one another: two contradicting units overwrite, and both are enqueued.
\* cursor counts the clauses seeded so far.
SeedUnit ==
    /\ pc = "seed"
    /\ cursor < Len(clauses)
    /\ cursor' = cursor + 1
    /\ \/ \E l \in Literal :
            /\ clauses[cursor + 1] = {l}
            /\ Assign(l, cursor + 1)
            /\ propQueue' = Append(propQueue, l)
       \/ /\ \A l \in Literal : clauses[cursor + 1] # {l}
          /\ UNCHANGED <<assignment, reason, level, trail, propQueue>>
    /\ UNCHANGED <<formula, assumptions, clauses, trailLim, pc, analysis>>

SeedDone ==
    /\ pc = "seed"
    /\ cursor = Len(clauses)
    /\ cursor' = 0
    /\ pc' = "assume"
    /\ UNCHANGED <<formula, assumptions, clauses, assignment, reason, level,
                   trail, trailLim, propQueue, analysis>>

\* The assumptions are forced at level 0, before anything is propagated.
\* cursor counts the assumptions handled so far.
Assume ==
    /\ pc = "assume"
    /\ cursor < Len(assumptions)
    /\ LET a == assumptions[cursor + 1] IN
         /\ \/ IsTrue(a)  /\ UNCHANGED <<assignment, reason, level, trail,
                                         propQueue, pc>>
            \/ IsFalse(a) /\ pc' = "unsat"
                          /\ UNCHANGED <<assignment, reason, level, trail,
                                         propQueue>>
            \/ IsUnset(a) /\ Assign(a, 0)
                          /\ propQueue' = Append(propQueue, a)
                          /\ UNCHANGED pc
    /\ cursor' = cursor + 1
    /\ UNCHANGED <<formula, assumptions, clauses, trailLim, analysis>>

AssumeDone ==
    /\ pc = "assume"
    /\ cursor = Len(assumptions)
    /\ pc' = "propagate"
    /\ cursor' = 0
    /\ UNCHANGED <<formula, assumptions, clauses, assignment, reason, level,
                   trail, trailLim, propQueue, analysis>>

-----------------------------------------------------------------------------
(* Solver::propagate. *)

\* One clause that mentions the negation of the head of the queue.  A
\* falsified clause drops the head, the rest of its clauses unvisited, and
\* keeps the rest of the queue.
Visit(i) ==
    /\ pc = "propagate" /\ propQueue # <<>>
    /\ i \in ToVisit
    /\ \A j \in ToVisit : i <= j
    /\ LET c == clauses[i] IN
         \/ /\ ~IsFalsified(c) /\ ~IsUnit(c)
            /\ cursor' = i
            /\ UNCHANGED <<assignment, reason, level, trail, propQueue, pc,
                           analysis>>
         \/ \E l \in c :
            /\ IsUnit(c) /\ IsUnset(l)
            /\ Assign(l, i)
            /\ propQueue' = Append(propQueue, l)
            /\ cursor' = i
            /\ UNCHANGED <<pc, analysis>>
         \/ /\ IsFalsified(c)
            /\ propQueue' = Tail(propQueue)
            /\ cursor' = 0
            /\ pc' = IF trailLim = <<>> THEN "unsat" ELSE "analyze"
            /\ analysis' = AnalysisOf(i)
            /\ UNCHANGED <<assignment, reason, level, trail>>
    /\ UNCHANGED <<formula, assumptions, clauses, trailLim>>

\* Fault: the head is looked at and never removed.
PeekHead ==
    /\ pc = "propagate" /\ propQueue # <<>>
    /\ ToVisit = {}
    /\ cursor' = 0
    /\ UNCHANGED <<formula, assumptions, clauses, assignment, reason, level,
                   trail, trailLim, propQueue, pc, analysis>>

\* Every clause of the head was visited: on to the next literal.
PopHead ==
    /\ pc = "propagate" /\ propQueue # <<>>
    /\ ToVisit = {}
    /\ propQueue' = Tail(propQueue)
    /\ cursor' = 0
    /\ UNCHANGED <<formula, assumptions, clauses, assignment, reason, level,
                   trail, trailLim, pc, analysis>>

-----------------------------------------------------------------------------
(* Solver::analyze.  Each turn of its outer loop marks the literals of one  *)
(* clause and walks the trail back to the latest marked variable of the    *)
(* current level.                                                          *)

\* Fault: literals of level 1 are left out as those of level 0 are.
MarkedAboveFirst == {l \in clauses[analysis.c] :
                        l.var \notin analysis.seen /\ level[l.var] > 1}
Marked     == {l \in clauses[analysis.c] :
                  l.var \notin analysis.seen /\ level[l.var] > 0}
MarkedHere == {v \in Var : level[v] >= DecisionLevel
                           /\ \E l \in Marked : l.var = v}
SeenNow    == analysis.seen \cup {l.var : l \in Marked}

\* Literals of earlier levels enter the learnt clause negated, as written in
\* the code: the clause gets the literals that are true now.
LearntNow  == analysis.learnt
                \cup {Negate(l) : l \in {k \in Marked :
                                           level[k.var] < DecisionLevel}}

Candidates == {i \in 1 .. analysis.index - 1 :
                  i <= Len(trail) /\ trail[i].var \in SeenNow
                                  /\ level[trail[i].var] >= DecisionLevel}
IsLatest(i) == i \in Candidates /\ \A j \in Candidates : j <= i

PathC      == analysis.pathC + Cardinality(MarkedHere)

\* The walk stops at a decision, or when the counter says that one literal
\* of the level was left.
StopsAt(i) == reason[trail[i].var] = 0 \/ PathC = 1

Resolve(i) ==
    /\ pc = "analyze"
    /\ IsLatest(i)
    /\ ~StopsAt(i)
    /\ analysis' = [c |-> reason[trail[i].var],
                    seen |-> SeenNow \ {trail[i].var},
                    learnt |-> LearntNow,
                    pathC |-> PathC - 1,
                    index |-> i]
    /\ UNCHANGED <<formula, assumptions, clauses, assignment, reason, level,
                   trail, trailLim, propQueue, cursor, pc>>

BackjumpTo(bt) ==
    /\ \A l \in LearntNow : level[l.var] <= bt
    /\ bt = 0 \/ \E l \in LearntNow : level[l.var] = bt

\* Fault: the decision of the first undone level stays assigned.
UndoneKeepsDecision(bt) ==
    {trail[k].var : k \in trailLim[bt + 1] + 2 .. Len(trail)}
\* Fault: the literal below the limit of the level goes too.
UndoneOneMore(bt) ==
    {trail[k].var : k \in {j \in DOMAIN trail : j >= trailLim[bt + 1]}}
\* Fault: a backjump clears the trail, level 0 and the assumptions included.
UndoneAll(bt) == {trail[k].var : k \in DOMAIN trail}

\* Solver::cancel_until(bt), then the learnt clause is added and its first
\* literal p.negate() is assigned with that clause as reason.
Undone(bt) == {trail[k].var : k \in trailLim[bt + 1] + 1 .. Len(trail)}

Learn(i) ==
    /\ pc = "analyze"
    /\ IsLatest(i)
    /\ StopsAt(i)
    /\ \E bt \in 0 .. DecisionLevel - 1 :
         /\ BackjumpTo(bt)
         /\ LET p    == Negate(trail[i])
                kept == [v \in Var |-> IF v \in Undone(bt) THEN "unset"
                                                           ELSE assignment[v]]
            IN
            /\ clauses' = Append(clauses, LearntNow \cup {p})
            /\ assignment' = [kept EXCEPT ![p.var] = TruthOf(p)]
            /\ reason' = [v \in Var |-> IF v = p.var THEN Len(clauses) + 1
                                   ELSE IF v \in Undone(bt) THEN 0
                                   ELSE reason[v]]
            /\ level' = [v \in Var |-> IF v = p.var THEN bt
                                  ELSE IF v \in Undone(bt) THEN 0
                                  ELSE level[v]]
            /\ trail' = Append(SubSeq(trail, 1, trailLim[bt + 1]), p)
            /\ trailLim' = SubSeq(trailLim, 1, bt)
            /\ propQueue' = Append(propQueue, p)
    /\ pc' = "propagate"
    /\ analysis' = NoAnalysis
    /\ UNCHANGED <<formula, assumptions, cursor>>

-----------------------------------------------------------------------------
(* The rest of Solver::search. *)

\* pick_var: any unassigned variable, always decided true.
Decide(v) ==
    /\ pc = "propagate" /\ propQueue = <<>>
    /\ assignment[v] = "unset"
    /\ trailLim' = Append(trailLim, Len(trail))
    /\ assignment' = [assignment EXCEPT ![v] = "true"]
    /\ reason' = [reason EXCEPT ![v] = 0]
    /\ level' = [level EXCEPT ![v] = DecisionLevel + 1]
    /\ trail' = Append(trail, Pos(v))
    /\ propQueue' = <<Pos(v)>>
    /\ UNCHANGED <<formula, assumptions, clauses, cursor, pc, analysis>>

\* Fault: an empty queue is taken for a complete assignment.
SatisfiedTooEarly ==
    /\ pc = "propagate" /\ propQueue = <<>>
    /\ pc' = "sat"
    /\ UNCHANGED <<formula, assumptions, clauses, assignment, reason, level,
                   trail, trailLim, propQueue, cursor, analysis>>

Satisfied ==
    /\ pc = "propagate" /\ propQueue = <<>>
    /\ AllAssigned
    /\ pc' = "sat"
    /\ UNCHANGED <<formula, assumptions, clauses, assignment, reason, level,
                   trail, trailLim, propQueue, cursor, analysis>>

Returned == pc \in {"sat", "unsat"} /\ UNCHANGED vars

Step ==
    \/ SeedUnit \/ SeedDone \/ Assume \/ AssumeDone
    \/ \E i \in DOMAIN clauses : Visit(i)
    \/ PopHead
    \/ \E i \in DOMAIN trail : Resolve(i) \/ Learn(i)
    \/ \E v \in Var : Decide(v)
    \/ Satisfied

Next == Step \/ Returned

Spec     == Init /\ [][Next]_vars
FairSpec == Spec /\ WF_vars(Step)

-----------------------------------------------------------------------------
(* What a call promises. *)

TrueVars == {v \in Var : assignment[v] = "true"}

\* "Returns true if satisfiable (a model is left in assignment)": the answer
\* sat comes with an assignment that satisfies every clause the call was made
\* with and every assumption, whatever was learnt and undone on the way.
SatIsModel == pc = "sat" => IsModel(TrueVars, formula, assumptions)

\* "false means UNSAT": the documented contract of solve.
UnsatIsSound == pc = "unsat" => Models(formula, assumptions) = {}

\* The answer unsat is right whenever everything learnt follows from the
\* formula: propagation, backjumping and the test at level 0 add no error.
UnsatSoundIfLearntImplied ==
    (pc = "unsat" /\ \A i \in Len(formula) + 1 .. Len(clauses) :
                        Implies(formula, assumptions, clauses[i]))
       => Models(formula, assumptions) = {}

\* When the queue is empty every clause was brought to its fixpoint: none is
\* falsified and none still forces a literal.  It is what makes deciding (and
\* answering sat) legal although a conflict abandons a half-visited literal.
PropagationComplete ==
    (pc = "propagate" /\ propQueue = <<>>) =>
        \A i \in DOMAIN clauses : ~IsFalsified(clauses[i]) /\ ~IsUnit(clauses[i])

\* The backwards walk of analyze always finds a marked literal: the index into
\* the trail (a usize) never passes below its start, and path_c never
\* underflows.
AnalysisStaysOnTrail ==
    pc = "analyze" => Candidates # {} /\ PathC >= 1

\* A literal that forced a conflict is asserted at a level where it is not
\* assigned any more, and every step back leaves more assigned at the level it
\* returns to: the reason the loop cannot repeat itself.
AssignedUpTo(k) == Cardinality({v \in Var : assignment[v] # "unset"
                                            /\ level[v] <= k})
BackjumpGains ==
    [][ Len(clauses') > Len(clauses) =>
          LET back == Len(trailLim') IN
          /\ back < Len(trailLim)
          /\ Cardinality({v \in Var : assignment'[v] # "unset"
                                      /\ level'[v] <= back})
               > AssignedUpTo(back)
      ]_vars

\* Assumptions stay forced, at level 0, for as long as the call searches.
AssumptionsForced ==
    pc \in {"propagate", "analyze", "sat"} =>
        \A i \in DOMAIN assumptions :
            IsTrue(assumptions[i]) /\ level[assumptions[i].var] = 0

\* The search implements the oracle: it answers once, and sat with a model.
Oracle == INSTANCE SatOracle WITH
              answer <- IF pc \in {"sat", "unsat"} THEN pc ELSE "none",
              model  <- IF pc = "sat" THEN TrueVars ELSE {}
ImplementsOracle == Oracle!OracleSpec

\* Every call returns.
Terminates == <>(pc \in {"sat", "unsat"})

-----------------------------------------------------------------------------
(* Why it does: the parts of the inductive invariant.                      *)

Seeding == pc \in {"seed", "assume"}

\* Between the phases: nothing is decided before propagation starts, and a
\* head is half visited only while it is at the head of the queue.
PhasesOK ==
    /\ Seeding => trailLim = <<>>
    /\ pc = "assume" => cursor <= Len(assumptions)
    /\ pc = "propagate" /\ propQueue = <<>> => cursor = 0
    /\ pc = "analyze" => /\ trailLim # <<>> /\ cursor = 0
                         /\ analysis.c \in DOMAIN clauses
    /\ pc = "sat" => AllAssigned /\ propQueue = <<>>

\* add_clause only appends.
FormulaIsPrefix ==
    /\ Len(formula) <= Len(clauses)
    /\ \A i \in DOMAIN formula : clauses[i] = formula[i]

\* The trail holds the assigned variables, and trail_lim cuts it by level.
TrailOnlyAssigned ==
    \A t \in DOMAIN trail : assignment[trail[t].var] # "unset"
AssignedOnTrail ==
    \A v \in Var : IF assignment[v] = "unset"
                   THEN level[v] = 0
                   ELSE \E t \in DOMAIN trail : trail[t].var = v
LevelsOnTrail ==
    \A k \in DOMAIN trailLim, t \in DOMAIN trail :
        trailLim[k] < t <=> k <= level[trail[t].var]
LimitsAscend ==
    \A j, k \in DOMAIN trailLim : j <= k => trailLim[j] <= trailLim[k]
TrailOK == /\ TrailOnlyAssigned
           /\ AssignedOnTrail
           /\ LevelsOnTrail
           /\ LimitsAscend

\* At level k a clause asks for nothing: one of its literals is true by then,
\* or two of them are still open.
OpenAt(l, k)  == IsUnset(l) \/ level[l.var] > k
QuietAt(c, k) == \/ \E l \in c : IsTrue(l) /\ level[l.var] <= k
                 \/ \E l, m \in c : l # m /\ OpenAt(l, k) /\ OpenAt(m, k)

\* A level is decided only when propagation has brought every clause of the
\* levels below to rest, and no backjump or learnt clause disturbs them.
QuietBelow ==
    \A k \in 0 .. DecisionLevel - 1 :
        \A i \in DOMAIN clauses : QuietAt(clauses[i], k)

\* A clause that became false or forces a literal is going to be visited: the
\* negation of one of its literals is queued and, if that is the head, the
\* walk is before it.  A unit clause may also wait for its turn in the seeding.
WillBeVisited(i) ==
    \E q \in DOMAIN propQueue :
        /\ Negate(propQueue[q]) \in clauses[i]
        /\ q = 1 /\ pc = "propagate" => cursor < i
WillBeSeeded(i) ==
    pc = "seed" /\ cursor < i /\ \E l \in Literal : clauses[i] = {l}
NoneForgotten ==
    pc \in {"seed", "assume", "propagate", "sat"} =>
        \A i \in DOMAIN clauses :
            \/ QuietAt(clauses[i], DecisionLevel)
            \/ WillBeVisited(i)
            \/ WillBeSeeded(i)

\* The clause behind an assignment above level 0 has a literal assigned
\* earlier at the same level: following reasons back ends at the decision.
ReasonReachesBack ==
    \A t \in DOMAIN trail :
        LET v == trail[t].var IN
        level[v] > 0 /\ reason[v] # 0 =>
            \E s \in 1 .. t - 1 :
                /\ level[trail[s].var] = level[v]
                /\ \E l \in clauses[reason[v]] : l.var = trail[s].var

\* The clause analyze looks at has a literal of the current level before the
\* place the walk has reached, and path_c counts one more than was resolved.
AnalysisReachesBack ==
    pc = "analyze" =>
        /\ \E s \in DOMAIN trail :
              /\ s < analysis.index
              /\ level[trail[s].var] = DecisionLevel
              /\ \E l \in clauses[analysis.c] : l.var = trail[s].var
        /\ analysis.pathC >= 1 \/ (analysis.pathC = 0 /\ analysis.seen = {})

AssumedSoFar ==
    LET forced == IF pc = "assume" THEN cursor ELSE Len(assumptions) IN
    pc \in {"assume", "propagate", "analyze", "sat"} =>
        \A i \in 1 .. forced :
            IsTrue(assumptions[i]) /\ level[assumptions[i].var] = 0

\* What is assigned at level 0 holds in every model of the clauses, and the
\* learnt literals of earlier levels are of levels that were decided.
RootIsImplied ==
    \A m \in Models(clauses, assumptions) :
        /\ pc # "unsat"
        /\ \A v \in Var : assignment[v] # "unset" /\ level[v] = 0
                             => (v \in m <=> assignment[v] = "true")
LearntAboveRoot ==
    pc = "analyze" => \A l \in analysis.learnt : level[l.var] > 0
=============================================================================
