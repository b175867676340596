----------------------------- MODULE MCWorkspace -----------------------------
(***************************************************************************)
(* Instances for TLC of the tools that change the files of a workspace:    *)
(* the commit of a patch, the staging of a patch, the Git tools, and the   *)
(* resumption of saved work.  They are checked side by side: a behaviour   *)
(* is one of `focus`, and the state of the others stays at one initial     *)
(* state.                                                                  *)
(***************************************************************************)
EXTENDS MCAtomicPatch, PatchStaging, GitTools, Continuation

VARIABLE focus

WorkspaceInit ==
  /\ focus \in {"commit", "staging", "git", "resume"}
  /\ Init
  /\ focus # "commit" => disk = [i \in Paths |-> Absent]
  /\ StagingInit
  /\ focus # "staging" => onDisk = [p \in Names |-> Missing]
  /\ GitInit
  /\ ContInit

WorkspaceNext ==
  /\ \/ focus = "commit" /\ Next /\ UNCHANGED <<stagingVars, gitVars, contVars>>
     \/ focus = "staging" /\ StagingNext /\ UNCHANGED <<vars, gitVars, contVars>>
     \/ focus = "git" /\ GitNext /\ UNCHANGED <<vars, stagingVars, contVars>>
     \/ focus = "resume" /\ ContNext /\ UNCHANGED <<vars, stagingVars, gitVars>>
  /\ UNCHANGED focus

WorkspaceSpec ==
  WorkspaceInit /\ [][WorkspaceNext]_<<focus, vars, stagingVars, gitVars, contVars>>

(* Contents, Lines, Callers and two of Resumers have the same values, and  *)
(* so have Names and Files: two permutations serve all parts.              *)
WorkspaceSymmetry == Permutations(Contents) \cup Permutations(Files)
=============================================================================
