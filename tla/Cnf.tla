-------------------------------- MODULE Cnf --------------------------------
(***************************************************************************)
(* Propositional formulas in conjunctive normal form, as the dependency    *)
(* solver of crates/tpt-l-apt-solver writes them: one variable per package *)
(* index, a clause is a Vec<Literal>, a formula a Vec<Clause>.  A clause is *)
(* a set here: every builder in the code removes duplicate literals.       *)
(***************************************************************************)
EXTENDS Integers, Sequences

CONSTANT NumVars

ASSUME NumVarsAssumption == NumVars \in Nat

Var     == 1 .. NumVars
Literal == [var : Var, negated : BOOLEAN]
Clause  == SUBSET Literal
Formula == Seq(Clause)

Pos(v)    == [var |-> v, negated |-> FALSE]
Neg(v)    == [var |-> v, negated |-> TRUE]
Negate(l) == [var |-> l.var, negated |-> ~l.negated]

\* A total assignment is the set of variables (packages) it makes true.
Holds(l, m)            == IF l.negated THEN l.var \notin m ELSE l.var \in m
Satisfies(m, c)        == \E l \in c : Holds(l, m)
IsModel(m, f, assumed) == /\ \A i \in DOMAIN f : Satisfies(m, f[i])
                          /\ \A i \in DOMAIN assumed : Holds(assumed[i], m)

Models(f, assumed)     == {m \in SUBSET Var : IsModel(m, f, assumed)}

\* c follows from f under the assumptions.
Implies(f, assumed, c) == \A m \in Models(f, assumed) : Satisfies(m, c)
=============================================================================
