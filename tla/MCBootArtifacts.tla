--------------------------- MODULE MCBootArtifacts ---------------------------
(* Few runs and reboots, which are interchangeable where only safety counts. *)
EXTENDS Reclaim, TLC

RunSymmetry == Permutations(Runs)
=============================================================================
