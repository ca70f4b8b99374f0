------------------------------- MODULE Reader -------------------------------
(***************************************************************************)
(* What the modules of readers and writers share: each is a function, and  *)
(* a step from the initial state picks one of them and an input for it.    *)
(***************************************************************************)
VARIABLES part,  \* the reader under test
          input  \* what it is given
inputVars == <<part, input>>

NoInput == part = "none" /\ input = <<>>
Take(p, i) == part = "none" /\ part' = p /\ input' = i
\* A step that picks another reader.
Elsewhere(ps) == part = "none" /\ part' \notin ps
=============================================================================
