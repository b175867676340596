---------------------------- MODULE MCAtomicPatch ----------------------------
(* Instances of AtomicPatch for TLC. *)
EXTENDS AtomicPatch, TLC

MCPaths == 1..2
MCPaths3 == 1..3
Symmetry == Permutations(Contents)
=============================================================================
