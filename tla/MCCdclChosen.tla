---------------------------- MODULE MCCdclChosen ----------------------------
(***************************************************************************)
(* Instances of CdclSolver for TLC: a few chosen formulas.                 *)
(***************************************************************************)
EXTENDS CdclSolver

P(v) == Pos(v)
N(v) == Neg(v)

NoAssumptions == {<<>>}

\* Formulas over six variables whose conflicts need several decisions, so
\* that backjumps skip levels: three packages in two slots (variable 2k-1
\* puts package k in the first slot, 2k in the second), and a satisfiable
\* mixture of dependency chains and conflicts.
DeepFormulas ==
    {<< {P(1), P(2)}, {P(3), P(4)}, {P(5), P(6)},
        {N(1), N(3)}, {N(1), N(5)}, {N(3), N(5)},
        {N(2), N(4)}, {N(2), N(6)}, {N(4), N(6)} >>,
     << {N(1), N(2), P(3)}, {N(2), N(3), P(4)}, {N(1), N(3), N(4)},
        {P(1), P(4)}, {N(4), P(2), N(3)}, {N(5), N(6), N(2)},
        {N(6), N(5), P(1)}, {N(1), P(2), N(6)} >>}

\* A satisfiable formula: its one model makes 1 and 3 true, 2 false.
LostModel == {<< {N(1), P(3)}, {P(2), P(1)}, {P(1), N(2), P(3)},
                 {N(1), N(3), N(2)}, {P(2), P(3)}, {N(2), P(1), N(3)} >>}
=============================================================================
