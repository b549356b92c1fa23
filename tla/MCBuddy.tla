------------------------------ MODULE MCBuddy ------------------------------
(* The clients are alike. *)
EXTENDS Buddy, TLC

Symmetry == Permutations(Handle)
=============================================================================
