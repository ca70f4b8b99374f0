---------------------------- MODULE MCCdclSolver ----------------------------
(***************************************************************************)
(* Instances of CdclSolver for TLC: formulas over three variables.         *)
(***************************************************************************)
EXTENDS CdclSolver, SequencesExt

P(v) == Pos(v)
N(v) == Neg(v)

\* Every clause of two or three literals over three variables.
NoTautology(c)  == \A k, l \in c : k.var = l.var => k = l
WideClauses     == {c \in kSubset(2, Literal) \cup kSubset(3, Literal) :
                        NoTautology(c)}
BinaryClauses   == {c \in kSubset(2, Literal) : NoTautology(c)}

\* Formulas of four clauses, in one order each (the order of the clauses is
\* the order of their visits), and formulas that start with a unit clause.
FourClauses     == {SetToSeq(s) : s \in kSubset(4, WideClauses)}
UnitFirst       == {<<{l}>> \o SetToSeq(s) :
                        l \in {P(1), N(2)}, s \in kSubset(2, BinaryClauses)}
ContraryUnits   == {<<{P(1)}, {N(1), P(2)}, {N(1)}>>,
                    <<{N(3)}, {P(3)}>>}
ThreeBinary     == {SetToSeq(s) : s \in kSubset(3, BinaryClauses)}
SmallFormulas   == FourClauses \cup ThreeBinary \cup UnitFirst \cup ContraryUnits
SomeAssumptions == {<<>>, <<P(1)>>, <<N(2), P(3)>>, <<P(1), N(1)>>}
=============================================================================
