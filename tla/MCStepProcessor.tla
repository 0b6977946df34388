--------------------------- MODULE MCStepProcessor ---------------------------
(***************************************************************************)
(* Small instances of StepProcessor for TLC.                               *)
(***************************************************************************)
EXTENDS StepProcessor, TLC

\* The instructions are interchangeable: their types are chosen in Init.
StepSymmetry == Permutations(Steps)
=============================================================================
