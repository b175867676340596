-------------------------- MODULE MCGuardedMutation --------------------------
(* Instances of GuardedMutation for TLC. *)
EXTENDS GuardedMutation, TLC

Symmetry == Permutations(Owners) \cup Permutations(Branches) \cup Permutations(Trees)
=============================================================================
