---------------------------- MODULE Differences -----------------------------
(***************************************************************************)
(* What is told of two packages, and of two indices, by their difference:  *)
(* the report of deb-diff and the delta of a pdiff.                        *)
(***************************************************************************)
EXTENDS DebDiff, Rdiff, Reader

CONSTANTS Label, Value,  \* names of fields and paths, and what is at them
          Deltas, Basis  \* sequences of operations, and what they apply to

Contained == [fields : UNION {[s -> Value] : s \in SUBSET Label},
              files  : UNION {[s -> Value] : s \in SUBSET Label}]
ASSUME DifferenceAssumption ==
    /\ IsFiniteSet(Label)
    /\ Basis \in Seq(Int)
    /\ Deltas \subseteq Seq([literal : BOOLEAN, data : Seq(Int), from : Nat, length : Nat])
    /\ \A ops \in Deltas : \A i \in DOMAIN ops :
          {Len(ops[i].data), ops[i].from, ops[i].length} \subseteq 0 .. Power[MaxBytes] - 1

CompareDebs == \E old, new \in Contained : Take("diff", <<old, new>>)
ApplyDelta  == \E ops \in Deltas : Take("delta", ops)
DifferenceSpec == NoInput /\ [][CompareDebs \/ ApplyDelta \/ Elsewhere({"diff", "delta"})]_inputVars

\* A difference rebuilds its target: the report of two packages makes the old
\* one into the new one, and a delta that is encoded and applied gives what
\* its operations name, at any width of their operands (deb-diff, pdiff).
DifferencesRebuild ==
    /\ part = "diff"  => ReportRebuilds(input[1], input[2])
    /\ part = "delta" => DeltaIsItsOps(Basis, input)
=============================================================================
