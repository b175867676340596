---------------------------- MODULE Transactions ----------------------------
(***************************************************************************)
(* Commands with transaction_mode=apply: the execution snapshot that they  *)
(* share (_acquire_execution_sandbox, _release_execution_sandbox,          *)
(* coding_tools_mcp/sandbox.py), and what of it is applied to the          *)
(* workspace when they end (coding_tools_mcp/transactions.py and finish()  *)
(* in _execute_command_legacy, server.py).                                 *)
(*                                                                         *)
(* ExecSessions models the life of the process; here a command is checked, *)
(* started, writes files of its snapshot and exits.  AtomicPatch shows     *)
(* that the commit of the staged files is all or nothing, so it is one     *)
(* step.  The kinds of files that make a transaction fail, its limits on   *)
(* sizes, and the diff it reports are left out.                            *)
(***************************************************************************)
EXTENDS Integers, FiniteSets

CONSTANTS
  TxCalls,     \* calls with transaction_mode=apply; also names their snapshots
  TxFiles,     \* paths below the workspace
  TxData,      \* contents of a file
  NoEntry,     \* no file at a path
  Nil,         \* no snapshot; not written
  MaxTxEdits   \* bound on changes of the workspace by others

ASSUME TxAssumption ==
  /\ MaxTxEdits \in Nat /\ IsFiniteSet(TxCalls)
  /\ NoEntry \notin TxData /\ Nil \notin TxData \cup TxCalls \cup {NoEntry}

VARIABLES
  tree,       \* the authoritative workspace
  gitHead,    \* HEAD, as the number of times it moved
  dir,        \* per snapshot: its files, and whether it is there
  sandbox,    \* self.sandbox
  users,      \* self.sandbox_users
  tx,         \* the calls
  own,        \* ghost: what each command itself wrote
  foreign,    \* ghost: somebody else changed the snapshot of a command meanwhile
  installed,  \* ghost: what each transaction put into the workspace
  txEdits

pool == <<dir, sandbox, users>>
txGhosts == <<own, foreign, installed>>
txVars == <<tree, gitHead, pool, tx, txGhosts, txEdits>>

Entries == TxData \cup {NoEntry}
Nothing == [f \in TxFiles |-> Nil]
Waiting == [at |-> "idle", dir |-> Nil, before |-> Nothing, after |-> Nothing,
            gitHead |-> 0, ok |-> FALSE, released |-> TRUE]

TxInit ==
  /\ tree \in [TxFiles -> Entries] /\ gitHead = 0
  /\ dir = [d \in TxCalls |-> [files |-> Nothing, state |-> "none"]]
  /\ sandbox = Nil /\ users = 0
  /\ tx = [x \in TxCalls |-> Waiting]
  /\ own = [x \in TxCalls |-> Nothing] /\ installed = own
  /\ foreign = [x \in TxCalls |-> FALSE]
  /\ txEdits = 0

Moves(x, at) == tx' = [tx EXCEPT ![x].at = at]
Holds(x) == ~tx[x].released
Disturb(d, x) ==
  foreign' = [y \in TxCalls |-> foreign[y] \/ (y # x /\ Holds(y) /\ tx[y].dir = d)]

-----------------------------------------------------------------------------
(* No other command may run; the slot is taken only when this one starts. *)
CheckAlone(x) ==
  /\ tx[x].at = "idle"
  /\ \A y \in TxCalls : tx[y].at # "running"
  /\ Moves(x, "checked")
  /\ UNCHANGED <<tree, gitHead, pool, txGhosts, txEdits>>

(* _acquire_execution_sandbox: a copy of the workspace, or the one in use *)
Acquire(x) ==
  LET new == sandbox = Nil
      d   == IF new THEN x ELSE sandbox
  IN
  /\ tx[x].at = "checked"
  /\ sandbox' = d /\ users' = users + 1
  /\ dir' = IF new THEN [dir EXCEPT ![x] = [files |-> tree, state |-> "live"]] ELSE dir
  /\ tx' = [tx EXCEPT ![x].at = "held", ![x].dir = d, ![x].released = FALSE]
  /\ foreign' = [y \in TxCalls |->
       foreign[y] \/ (~new /\ (y = x \/ (Holds(y) /\ tx[y].dir = d)))]
  /\ UNCHANGED <<tree, gitHead, own, installed, txEdits>>

Baseline(x) == dir[tx[x].dir].files

(* ExecutionTransaction.__init__, and HEAD before the command *)
Capture(x) ==
  /\ tx[x].at = "held"
  /\ tx' = [tx EXCEPT ![x].at = "captured", ![x].before = Baseline(x),
                      ![x].gitHead = gitHead]
  /\ UNCHANGED <<tree, gitHead, pool, txGhosts, txEdits>>

Start(x) ==
  /\ tx[x].at = "captured" /\ Moves(x, "running")
  /\ UNCHANGED <<tree, gitHead, pool, txGhosts, txEdits>>

(* The command changes a file of its snapshot, once each. *)
CommandWrites(x, f, c) ==
  LET d == tx[x].dir IN
  /\ tx[x].at = "running" /\ dir[d].state = "live" /\ own[x][f] = Nil
  /\ dir' = [dir EXCEPT ![d].files[f] = c]
  /\ own' = [own EXCEPT ![x][f] = c]
  /\ Disturb(d, x)
  /\ UNCHANGED <<tree, gitHead, sandbox, users, tx, installed, txEdits>>

CommandExits(x, ok) ==
  /\ tx[x].at = "running"
  /\ tx' = [tx EXCEPT ![x].at = "exited", ![x].ok = ok]
  /\ UNCHANGED <<tree, gitHead, pool, txGhosts, txEdits>>

-----------------------------------------------------------------------------
(* Mutant: the snapshot goes with the first command that ends. *)
LastUserAny(x) == TRUE

LastUser(x) == users <= 1

(* release_owned_resources, once; _release_execution_sandbox *)
ReleasePool(x) ==
  IF ~Holds(x) THEN UNCHANGED pool
  ELSE IF sandbox # tx[x].dir
    THEN /\ dir' = [dir EXCEPT ![tx[x].dir].state = "clearing"]
         /\ UNCHANGED <<sandbox, users>>
  ELSE IF LastUser(x)
    THEN /\ users' = 0 /\ sandbox' = Nil
         /\ dir' = [dir EXCEPT ![tx[x].dir].state = "clearing"]
  ELSE users' = users - 1 /\ UNCHANGED <<dir, sandbox>>

Ends(x) == tx' = [tx EXCEPT ![x].at = "done", ![x].released = TRUE]

(* An error between the snapshot and the start of the process *)
GiveUp(x) ==
  /\ tx[x].at \in {"held", "captured"}
  /\ ReleasePool(x) /\ Ends(x)
  /\ UNCHANGED <<tree, gitHead, txGhosts, txEdits>>

(* finish(): prepare() looks at the snapshot.  Without it, or when the     *)
(* command failed, nothing is applied.                                     *)
Prepare(x) ==
  /\ tx[x].at = "exited"
  /\ IF tx[x].ok /\ dir[tx[x].dir].state # "gone"
       THEN /\ tx' = [tx EXCEPT ![x].at = "prepared", ![x].after = dir[tx[x].dir].files]
            /\ UNCHANGED pool
       ELSE ReleasePool(x) /\ Ends(x)
  /\ UNCHANGED <<tree, gitHead, txGhosts, txEdits>>

Delta(x) == {f \in TxFiles : tx[x].after[f] # tx[x].before[f]}

Unmodified(x) ==
  /\ gitHead = tx[x].gitHead
  /\ \A f \in Delta(x) : tree[f] = tx[x].before[f]

(* finish(): TRANSACTION_CONFLICT, or the commit of every changed file *)
Apply(x) ==
  /\ tx[x].at = "prepared"
  /\ IF Unmodified(x)
       THEN /\ tree' = [f \in TxFiles |-> IF f \in Delta(x) THEN tx[x].after[f] ELSE tree[f]]
            /\ installed' = [installed EXCEPT ![x] =
                 [f \in TxFiles |-> IF f \in Delta(x) THEN tx[x].after[f] ELSE Nil]]
       ELSE UNCHANGED <<tree, installed>>
  /\ ReleasePool(x) /\ Ends(x)
  /\ UNCHANGED <<gitHead, own, foreign, txEdits>>

(* cancel_session, close and the eviction of a retained session release a  *)
(* command that has exited; finish() may still have to look.               *)
Cancel(x) ==
  /\ tx[x].at \in {"running", "exited", "prepared"} /\ Holds(x)
  /\ ReleasePool(x)
  /\ tx' = [tx EXCEPT ![x].released = TRUE,
                      ![x].at = IF @ = "running" THEN "exited" ELSE @]
  /\ foreign' = [foreign EXCEPT ![x] = TRUE]
  /\ UNCHANGED <<tree, gitHead, own, installed, txEdits>>

(* ExecutionSandbox.cleanup: rmtree removes one file after the other *)
ClearFile(d, f) ==
  /\ dir[d].state = "clearing" /\ dir[d].files[f] # NoEntry
  /\ dir' = [dir EXCEPT ![d].files[f] = NoEntry]
  /\ UNCHANGED <<tree, gitHead, sandbox, users, tx, txGhosts, txEdits>>

ClearRoot(d) ==
  /\ dir[d].state = "clearing" /\ \A f \in TxFiles : dir[d].files[f] = NoEntry
  /\ dir' = [dir EXCEPT ![d].state = "gone"]
  /\ UNCHANGED <<tree, gitHead, sandbox, users, tx, txGhosts, txEdits>>

-----------------------------------------------------------------------------
EditTree(f, c) ==
  /\ txEdits < MaxTxEdits /\ txEdits' = txEdits + 1
  /\ tree[f] # c /\ tree' = [tree EXCEPT ![f] = c]
  /\ UNCHANGED <<gitHead, pool, tx, txGhosts>>

(* apply_patch changes the snapshot along with the workspace. *)
PatchTree(f, c) ==
  /\ txEdits < MaxTxEdits /\ txEdits' = txEdits + 1
  /\ tree[f] # c /\ tree' = [tree EXCEPT ![f] = c]
  /\ dir' = IF sandbox = Nil THEN dir ELSE [dir EXCEPT ![sandbox].files[f] = c]
  /\ Disturb(sandbox, Nil)
  /\ UNCHANGED <<gitHead, sandbox, users, tx, own, installed>>

HeadMoves ==
  /\ txEdits < MaxTxEdits /\ txEdits' = txEdits + 1 /\ gitHead' = gitHead + 1
  /\ UNCHANGED <<tree, pool, tx, txGhosts>>

TxNext ==
  \/ \E x \in TxCalls :
       \/ CheckAlone(x) \/ Acquire(x) \/ Capture(x) \/ Start(x) \/ GiveUp(x)
       \/ \E f \in TxFiles, c \in Entries : CommandWrites(x, f, c)
       \/ \E ok \in BOOLEAN : CommandExits(x, ok)
       \/ Prepare(x) \/ Apply(x) \/ Cancel(x)
       \/ ClearRoot(x)
       \/ \E f \in TxFiles : ClearFile(x, f)
  \/ \E f \in TxFiles, c \in Entries : EditTree(f, c) \/ PatchTree(f, c)
  \/ HeadMoves

TxSpec == TxInit /\ [][TxNext]_txVars

-----------------------------------------------------------------------------
(* A transaction changes the workspace only for a command that succeeded,  *)
(* and exactly by what that command wrote, whatever others edit while the  *)
(* snapshot is made, captured and compared; unless the snapshot was shared *)
(* with another command, patched along with the workspace, or released     *)
(* under the command.                                                      *)
TransactionFaithful ==
  \A x \in TxCalls :
    installed[x] # Nothing =>
      /\ tx[x].ok
      /\ ~foreign[x] => \A f \in TxFiles :
           installed[x][f] = IF own[x][f] \in {Nil, tx[x].before[f]} THEN Nil ELSE own[x][f]

(* A snapshot is there as long as a command holds it, whichever command    *)
(* ends first, and none is left when no command does.                      *)
SnapshotHeld ==
  /\ \A x \in TxCalls : Holds(x) => dir[tx[x].dir].state = "live" /\ sandbox = tx[x].dir
  /\ users = Cardinality({x \in TxCalls : Holds(x)})
  /\ (\A x \in TxCalls : ~Holds(x)) => \A d \in TxCalls : dir[d].state # "live"

(* What a transactional command leaves in the workspace is its own work,   *)
(* and the snapshot it works in is there for as long as it needs it.       *)
TransactionSound == TransactionFaithful /\ SnapshotHeld
=============================================================================
