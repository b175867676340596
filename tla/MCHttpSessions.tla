--------------------------- MODULE MCHttpSessions ---------------------------
(* Instances of HttpSessions for TLC. *)
EXTENDS HttpSessions, TLC

Symmetry == Permutations(Requests) \cup Permutations(Sessions)
=============================================================================
