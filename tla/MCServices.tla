----------------------------- MODULE MCServices -----------------------------
(***************************************************************************)
(* Instances for TLC of what outlives a call: guarded mutations with their *)
(* leases and checkpoints, grants of the OAuth provider, processes of the  *)
(* desktop client, updates of the service.  They are checked side by side: *)
(* a behaviour is one of `focus`, and the state of the others stays at one *)
(* initial state.                                                          *)
(***************************************************************************)
EXTENDS MCGuardedMutation, OAuthProvider, DesktopSupervisor, ServiceUpdate

VARIABLE focus

ServicesInit ==
  /\ focus \in {"guarded", "oauth", "desktop", "update"}
  /\ Init
  /\ focus # "guarded" => /\ head = CHOOSE b \in Branches : TRUE
                          /\ tree = CHOOSE t \in Trees : TRUE
  /\ AuthInit
  /\ DeskInit
  /\ focus # "desktop" => config \in Tunnelled
  /\ UpdInit
  /\ focus # "update" => source = CHOOSE s \in Checkouts : TRUE

ServicesNext ==
  /\ \/ focus = "guarded" /\ Next /\ UNCHANGED <<authVars, deskVars, updVars>>
     \/ focus = "oauth" /\ AuthNext /\ UNCHANGED <<vars, deskVars, updVars>>
     \/ focus = "desktop" /\ DeskNext /\ UNCHANGED <<vars, authVars, updVars>>
     \/ focus = "update" /\ UpdNext /\ UNCHANGED <<vars, authVars, deskVars>>
  /\ UNCHANGED focus

ServicesSpec == ServicesInit /\ [][ServicesNext]_<<focus, vars, authVars, deskVars, updVars>>
=============================================================================
