----------------------------- MODULE SatOracle -----------------------------
(***************************************************************************)
(* What a call of the solver promises to the resolver: it answers once,    *)
(* and sat comes with a model of the clauses and the assumptions.  Nothing *)
(* is promised of the answer unsat: see the runs of CdclSolver.            *)
(***************************************************************************)
EXTENDS Cnf

VARIABLES formula,     \* the clauses of the call
          assumptions, \* the literals forced true
          answer,      \* "none", "sat" or "unsat"
          model        \* the variables assigned true, {} without a model

oracleVars == <<formula, assumptions, answer, model>>

OracleInit == /\ formula \in Formula
              /\ assumptions \in Seq(Literal)
              /\ answer = "none"
              /\ model = {}

AnswerSat == /\ answer = "none"
             /\ answer' = "sat"
             /\ model' \in SUBSET Var
             /\ IsModel(model', formula, assumptions)
             /\ UNCHANGED <<formula, assumptions>>

AnswerUnsat == /\ answer = "none"
               /\ answer' = "unsat"
               /\ UNCHANGED <<formula, assumptions, model>>

OracleNext == AnswerSat \/ AnswerUnsat

OracleSpec == OracleInit /\ [][OracleNext]_oracleVars
=============================================================================
