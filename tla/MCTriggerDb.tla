---------------------------- MODULE MCTriggerDb -----------------------------
(***************************************************************************)
(* Instances of TriggerDb for TLC.                                         *)
(***************************************************************************)
EXTENDS TriggerDb, TLC

CONSTANTS a, b,   \* packages
          s, t,   \* trigger names
          part    \* the beginning of one that is not one

TwoPackages == {a, b}
TwoNames    == {s, t}
\* The name s is a beginning of t.
TwoBeginnings == s :> {s, part} @@ t :> {t, s, part}
\* A trigger of two packages, a package of two triggers, and one that is
\* registered twice.
Registered  == {<<a, [name |-> s, awaited |-> TRUE]>>,
                <<a, [name |-> s, awaited |-> FALSE]>>,
                <<a, [name |-> t, awaited |-> FALSE]>>,
                <<b, [name |-> s, awaited |-> TRUE]>>}
=============================================================================
