--------------------------- MODULE MCExecSessions ---------------------------
(* Instances of ExecSessions for TLC. *)
EXTENDS ExecSessions, TLC

Symmetry == Permutations(Commands)
=============================================================================
