----------------------------- MODULE MCCommands -----------------------------
(***************************************************************************)
(* Instances for TLC of what a Runtime runs for a client, side by side:    *)
(* the life of commands, their output, their transactions, and agents that *)
(* work in a worktree of their own.  A behaviour is one of `focus`, and    *)
(* the state of the others stays at one initial state.                     *)
(*                                                                         *)
(* TxCalls and Delegations have the values of Commands, and Sources those  *)
(* of TxData, so that one symmetry serves all.                             *)
(***************************************************************************)
EXTENDS MCExecSessions, OutputBuffers, Transactions, Delegation

VARIABLE focus

CommandsSymmetry == Permutations(Commands) \cup Permutations(Sources)

CommandsInit ==
  /\ focus \in {"session", "output", "transaction", "delegation"}
  /\ Init
  /\ OutputInit
  /\ TxInit
  /\ focus # "transaction" => tree = [f \in TxFiles |-> NoEntry]
  /\ DlgInit
  /\ focus # "delegation" => present = NoTree
  /\ position.branch = CHOOSE b \in Labels : TRUE   \* they are alike

CommandsNext ==
  /\ \/ focus = "session" /\ Next /\ UNCHANGED <<outputVars, txVars, dlgVars>>
     \/ focus = "output" /\ OutputNext /\ UNCHANGED <<vars, txVars, dlgVars>>
     \/ focus = "transaction" /\ TxNext /\ UNCHANGED <<vars, outputVars, dlgVars>>
     \/ focus = "delegation" /\ DlgNext /\ UNCHANGED <<vars, outputVars, txVars>>
  /\ UNCHANGED focus

CommandsSpec ==
  CommandsInit /\ [][CommandsNext]_<<focus, vars, outputVars, txVars, dlgVars>>
=============================================================================
