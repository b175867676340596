-------------------------- MODULE MCLogicalContexts --------------------------
(* Instances of LogicalContexts for TLC. *)
EXTENDS LogicalContexts, TLC

Symmetry == Permutations(Contexts) \cup Permutations(Runtimes) \cup Permutations(Threads)
=============================================================================
