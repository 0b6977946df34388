---------------------------- MODULE MCLogsSender -----------------------------
(* The logs sender has no constants: its states are finite as they are.     *)
EXTENDS LogsSender
=============================================================================
