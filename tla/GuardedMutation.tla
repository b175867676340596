--------------------------- MODULE GuardedMutation ---------------------------
(***************************************************************************)
(* State-managed mutations of coding_tools_mcp/stateful_server.py and      *)
(* state_mutations.py.  Several owners (logical contexts of one HTTP       *)
(* server, or separate stdio processes) work in one checkout.  A guarded   *)
(* tool call                                                               *)
(*                                                                         *)
(*   reads the current branch, reads its owner's authoritative checkpoint, *)
(*   acquires the branch lease, snapshots the checkout and compares it     *)
(*   with the checkpoint (STATE_DRIFT), writes a "before" checkpoint, runs *)
(*   the tool, snapshots again and makes that the authoritative            *)
(*   checkpoint, and releases every lease of its owner.                    *)
(*                                                                         *)
(* Each of these is a step of its own, interleaved with the other owners,  *)
(* with the clock, with crashes and with changes made behind DevMCP's back *)
(* (an editor, a terminal, a plain exec_command).  A call of one owner is  *)
(* not concurrent with another of the same owner: call_tool holds the      *)
(* context lock, and a stdio runtime is sequential.                        *)
(***************************************************************************)
EXTENDS WriterLease

CONSTANTS
  Trees,     \* what HEAD, index and working tree can hold together
  Calls,     \* the kinds of guarded calls that clients make
  MaxFaults, \* bound on crashes, failed file writes and outside changes
  NoBranch,  \* no second branch
  NoSnapshot \* no checkpoint, no evidence

ASSUME MaxFaultsAssumption == MaxFaults \in Nat
ASSUME CallsAssumption == Calls \subseteq {"write", "move", "exec", "reconcile"}
ASSUME NoBranchAssumption == NoBranch \notin Branches

VARIABLES
  head,      \* the branch checked out
  tree,      \* HEAD commit, index and working tree
  authority, \* per owner: snapshot of its context checkpoint file
  pc,        \* per owner: next step of the call in progress
  op,        \* per owner: the call in progress
  intruded,  \* per owner: when somebody else changed the checkout (ghost)
  faults     \* how many of MaxFaults have happened

repo == <<head, tree>>
vars == <<lease, repo, authority, pc, op, intruded, faults>>

(* collect_state_snapshot, as far as DRIFT_FIELDS compares it *)
Snapshot == [branch |-> head, tree |-> tree]
Snapshots == [branch : Branches, tree : Trees]

(* write: apply_patch, git_commit, git_pull, git_merge_remote_branch,       *)
(* git_fetch, git_push, service_update; move: git_switch_branch,            *)
(* git_create_branch; exec: exec_command with state_effect=selected_repo;   *)
(* reconcile: continuation_checkpoint(action="write").                      *)
Kinds == {"write", "move", "exec", "reconcile"}
Steps == {"idle", "authority", "lease", "snapshot", "callback", "after",
          "release", "dead"}
Outcomes == {"started", "touched", "success", "error", "unrecorded"}

OpRecord == [kind : Kinds, branch : Branches \cup {NoBranch},
             target : Branches \cup {NoBranch},
             evidence : Snapshots \cup {NoSnapshot},
             left : 0..TTL, outcome : Outcomes]

Call(kind, branch, target, evidence) ==
  [kind |-> kind, branch |-> branch, target |-> target, evidence |-> evidence,
   left |-> 0, outcome |-> "started"]
Idle == Call("write", NoBranch, NoBranch, NoSnapshot)

(* Branches the call in progress leases: [branch, *extra_branches]. *)
Leased(o) == {op[o].branch, op[o].target} \ {NoBranch}

Goto(o, step) == pc' = [pc EXCEPT ![o] = step]
Leave(o, step) ==
  /\ Goto(o, step)
  /\ op' = [op EXCEPT ![o] = Idle]
  /\ intruded' = [intruded EXCEPT ![o] = {}]

(* The calls between their preflight and the release of their leases. *)
InCharge == {o \in Owners : pc[o] \in {"callback", "after", "release"}}

(* A call counts as legitimate while its lease has not run out and covers  *)
(* the branch that is checked out.                                         *)
Legitimate(o) ==
  /\ o \in InCharge
  /\ op[o].left > 0
  /\ head \in Leased(o)

(* Remember, for each owner of O, that its checkout changed under it, if it did. *)
Intrude(O) ==
  intruded' = [p \in Owners |->
    IF p \notin O \/ repo' = repo THEN intruded[p]
    ELSE intruded[p] \cup {IF pc[p] = "release" THEN "since" ELSE "during"}]

Init ==
  /\ LeaseInit
  /\ head \in Branches
  /\ tree \in Trees
  /\ authority = [o \in Owners |-> NoSnapshot]
  /\ pc = [o \in Owners |-> "idle"]
  /\ op = [o \in Owners |-> Idle]
  /\ intruded = [o \in Owners |-> {}]
  /\ faults = 0

-----------------------------------------------------------------------------
(* Checkpoint files *)

(* write_state_checkpoint with authority_owner: the context file of o. *)
WriteAuthority(o) == authority' = [authority EXCEPT ![o] = Snapshot]

(* _ensure_state_baseline: initialize, activating a context, a plain exec. *)
EnsureBaseline(o) ==
  /\ pc[o] = "idle"
  /\ authority[o] = NoSnapshot
  /\ WriteAuthority(o)
  /\ UNCHANGED <<lease, repo, pc, op, intruded>>

(* _on_context_mutation_workspace_bound: the context of o is bound to this *)
(* checkout, whatever it accepted of another one before.                   *)
BindWorkspace(o) ==
  /\ pc[o] = "idle"
  /\ WriteAuthority(o)
  /\ UNCHANGED <<lease, repo, pc, op, intruded>>

-----------------------------------------------------------------------------
(* _state_preflight *)

(* _state_branch: the branch is read before any lease is held. *)
Begin(o, kind, target, evidence) ==
  /\ pc[o] = "idle"
  /\ (kind = "move") <=> (target # NoBranch)
  /\ kind # "reconcile" => evidence = NoSnapshot
  /\ kind = "reconcile" => authority[o] # NoSnapshot
  /\ Goto(o, "authority")
  /\ op' = [op EXCEPT ![o] = Call(kind, head, target, evidence)]
  /\ UNCHANGED <<lease, repo, authority, intruded>>

(* read_authoritative_state_checkpoint; the file is only ever written by   *)
(* its owner, so what is read here is authority[o] for the whole call.     *)
ReadAuthority(o) ==
  /\ pc[o] = "authority"
  /\ Goto(o, "lease")
  /\ IF authority[o] = NoSnapshot
       THEN WriteAuthority(o)
       ELSE UNCHANGED authority
  /\ UNCHANGED <<lease, repo, op, intruded>>

AcquireLeases(o) ==
  /\ pc[o] = "lease"
  /\ AcquireWriterLeases(o, Leased(o))
  /\ Goto(o, "snapshot")
  /\ op' = [op EXCEPT ![o].left = TTL]
  /\ UNCHANGED <<repo, authority, intruded>>

(* Mutant: a conflicting call waits for the lease instead of failing. *)
LeaseConflictWaits(o) ==
  /\ pc[o] = "lease"
  /\ Conflicts(o, Leased(o)) # {}
  /\ UNCHANGED <<lease, repo, authority, pc, op, intruded>>

(* WRITER_LEASE_CONFLICT *)
LeaseConflict(o) ==
  /\ pc[o] = "lease"
  /\ Conflicts(o, Leased(o)) # {}
  /\ Leave(o, "idle")
  /\ UNCHANGED <<lease, repo, authority>>

(* write_json fails inside acquire_writer_leases, which _state_preflight   *)
(* calls outside its try block: the records already written stay.          *)
AcquireFails(o) ==
  /\ pc[o] = "lease"
  /\ \E W \in SUBSET Leased(o) : AcquireInterrupted(o, Leased(o), W)
  /\ Leave(o, "idle")
  /\ UNCHANGED <<repo, authority>>

(* Mutant: the snapshot is not compared with the checkpoint. *)
PreflightUnchecked(o) ==
  /\ pc[o] = "snapshot"
  /\ op[o].kind # "reconcile"
  /\ Goto(o, "callback")
  /\ UNCHANGED <<lease, repo, authority, op, intruded>>

(* Snapshot, compare_snapshots; the "before" checkpoint written here is    *)
(* never read again and is left out.                                       *)
Preflight(o) ==
  /\ pc[o] = "snapshot"
  /\ op[o].kind # "reconcile"
  /\ Snapshot = authority[o]
  /\ Goto(o, "callback")
  /\ UNCHANGED <<lease, repo, authority, op, intruded>>

(* STATE_DRIFT, reported with its reconciliation evidence. *)
StateDrift(o) ==
  /\ pc[o] = "snapshot"
  /\ op[o].kind # "reconcile"
  /\ Snapshot # authority[o]
  /\ ReleaseOwnerLeases(o)
  /\ Leave(o, "idle")
  /\ UNCHANGED <<repo, authority>>

(* The snapshot or the "before" checkpoint cannot be taken. *)
PreflightFails(o) ==
  /\ pc[o] = "snapshot"
  /\ ReleaseOwnerLeases(o)
  /\ Leave(o, "idle")
  /\ UNCHANGED <<repo, authority>>

-----------------------------------------------------------------------------
(* The guarded tool itself *)

(* Mutant: a switch checks the commit out instead of the branch (git switch --detach). *)
ChangeDetached(o) ==
  /\ head' \in CASE op[o].kind = "write" -> {head}
                 [] op[o].kind = "move"  -> {NoBranch}
                 [] OTHER                -> Branches
  /\ tree' \in Trees

(* One change made by the tool: a patched file, a commit, a pull, a merge, *)
(* a switch or a new branch; state-managed exec may do any of these.       *)
Change(o) ==
  /\ head' \in CASE op[o].kind = "write" -> {head}
                 [] op[o].kind = "move"  -> {op[o].target}
                 [] OTHER                -> Branches
  /\ tree' \in Trees

CallbackStep(o) ==
  /\ pc[o] = "callback"
  /\ Change(o)
  /\ op' = [op EXCEPT ![o].outcome = "touched"]
  /\ Intrude(IF Legitimate(o) /\ head' \in Leased(o) THEN {} ELSE InCharge \ {o})
  /\ UNCHANGED <<lease, authority, pc>>

(* _guarded: the tool returns or raises, and _state_after runs either way. *)
CallbackEnds(o) ==
  /\ pc[o] = "callback"
  /\ op[o].kind # "exec"
  /\ \E out \in {"success", "error"} : op' = [op EXCEPT ![o].outcome = out]
  /\ Goto(o, "after")
  /\ UNCHANGED <<lease, repo, authority, intruded>>

(* _profile_exec_command: only a command that succeeded on the branch it   *)
(* started from becomes authoritative.                                     *)
ExecEnds(o) ==
  /\ pc[o] = "callback"
  /\ op[o].kind = "exec"
  /\ \/ /\ head = op[o].branch
        /\ op' = [op EXCEPT ![o].outcome = "success"]
        /\ Goto(o, "after")
     \/ /\ op' = [op EXCEPT ![o].outcome = "unrecorded"]
        /\ Goto(o, "release")
  /\ UNCHANGED <<lease, repo, authority, intruded>>

(* _state_after *)
StateAfter(o) ==
  /\ pc[o] = "after"
  /\ WriteAuthority(o)
  /\ Goto(o, "release")
  /\ UNCHANGED <<lease, repo, op, intruded>>

(* _state_after cannot take its snapshot or write its files. *)
StateAfterFails(o) ==
  /\ pc[o] = "after"
  /\ op' = [op EXCEPT ![o].outcome = "unrecorded"]
  /\ Goto(o, "release")
  /\ UNCHANGED <<lease, repo, authority, intruded>>

(* finally: _release_state_owner_leases *)
Release(o) ==
  /\ pc[o] = "release"
  /\ ReleaseOwnerLeases(o)
  /\ Leave(o, "idle")
  /\ UNCHANGED <<repo, authority>>

-----------------------------------------------------------------------------
(* continuation_checkpoint(action="write").  The client quotes the evidence *)
(* of a drift: checkpoint_id, branch, head and state_fingerprint.  Evidence *)
(* that is incomplete, or whose checkpoint_id is not that of the context    *)
(* checkpoint, is NoSnapshot.                                               *)

Reconcilable(o) ==
  /\ op[o].evidence = Snapshot
  /\ op[o].branch = Snapshot.branch

ReconcileApplied(o) ==
  /\ pc[o] = "snapshot"
  /\ op[o].kind = "reconcile"
  /\ Reconcilable(o)
  /\ Snapshot # authority[o]
  /\ WriteAuthority(o)
  /\ Goto(o, "release")
  /\ UNCHANGED <<lease, repo, op, intruded>>

ReconcileNotApplied(o) ==
  /\ pc[o] = "snapshot"
  /\ op[o].kind = "reconcile"
  /\ ~Reconcilable(o) \/ Snapshot = authority[o]
  /\ Goto(o, "release")
  /\ UNCHANGED <<lease, repo, authority, op, intruded>>

-----------------------------------------------------------------------------
(* The environment *)

(* The process of o dies; its files and leases stay. *)
Crash(o) ==
  /\ pc[o] # "dead"
  /\ Leave(o, "dead")
  /\ UNCHANGED <<lease, repo, authority>>

(* An editor, a terminal or a command outside state management. *)
External ==
  /\ head' \in Branches
  /\ tree' \in Trees
  /\ repo' # repo
  /\ Intrude(InCharge)
  /\ UNCHANGED <<lease, authority, pc, op>>

Tick ==
  /\ LeaseTick
  /\ op' = [o \in Owners |-> Aged(op[o])]
  /\ UNCHANGED <<repo, authority, pc, intruded, faults>>

(* What the call of o does next when nothing goes wrong. *)
OwnerStep(o) ==
  /\ \/ ReadAuthority(o)
     \/ AcquireLeases(o) \/ LeaseConflict(o)
     \/ Preflight(o) \/ StateDrift(o)
     \/ CallbackEnds(o) \/ ExecEnds(o)
     \/ StateAfter(o)
     \/ ReconcileApplied(o) \/ ReconcileNotApplied(o)
     \/ Release(o)
  /\ UNCHANGED faults

ClientStep(o) ==
  /\ \/ EnsureBaseline(o) \/ BindWorkspace(o)
     \/ \E k \in Calls, t \in Branches \cup {NoBranch},
           e \in Snapshots \cup {NoSnapshot} : Begin(o, k, t, e)
     \/ CallbackStep(o)
  /\ UNCHANGED faults

Fault ==
  /\ faults < MaxFaults
  /\ faults' = faults + 1
  /\ \/ External
     \/ \E o \in Owners :
          \/ Crash(o) \/ AcquireFails(o) \/ PreflightFails(o) \/ StateAfterFails(o)

Next ==
  \/ \E o \in Owners : OwnerStep(o) \/ ClientStep(o)
  \/ Fault
  \/ Tick

Spec == Init /\ [][Next]_vars

(* The clock runs, and a call that is in progress goes on: tools are       *)
(* bounded by timeouts, so a callback ends.                                *)
Fairness == WF_vars(Tick) /\ \A o \in Owners : WF_vars(OwnerStep(o))
FairSpec == Spec /\ Fairness

-----------------------------------------------------------------------------
(* Every variable has its type: in particular the tools leave a named      *)
(* branch checked out, so that each call has a branch to lease and each    *)
(* checkpoint names one.                                                   *)
TypeOK ==
  /\ LeaseTypeOK
  /\ head \in Branches
  /\ tree \in Trees
  /\ authority \in [Owners -> Snapshots \cup {NoSnapshot}]
  /\ pc \in [Owners -> Steps]
  /\ op \in [Owners -> OpRecord]
  /\ \A o \in Owners : op[o].kind = "move" => op[o].target \in Branches
  /\ intruded \in [Owners -> SUBSET {"during", "since"}]
  /\ faults \in 0..MaxFaults

(* Until TTL has passed since its acquisition, the lease records of a call *)
(* are on disk and name its owner: no release, conflict, expiry or partial *)
(* acquisition of another call removes or overwrites them.                 *)
LeaseHonoured ==
  \A o \in Owners :
    (pc[o] = "snapshot" \/ o \in InCharge) /\ op[o].left > 0 =>
        \A b \in Leased(o) : lease[b] = [owner |-> o, left |-> op[o].left]

(* Two calls whose leases have not run out and cover the branch checked    *)
(* out are never past their preflight at the same time.                    *)
ExclusiveWriters ==
  \A o, p \in Owners : Legitimate(o) /\ Legitimate(p) => o = p

(* A legitimate call starts from exactly the state its owner last accepted, *)
(* and what it records afterwards is what it leaves behind, unless somebody *)
(* outside the lease discipline changed the checkout meanwhile.             *)
WriterSeesOwnState ==
  \A o \in Owners :
    Legitimate(o) /\ intruded[o] = {} =>
      /\ pc[o] = "callback" /\ op[o].outcome = "started" => Snapshot = authority[o]
      /\ pc[o] = "release" /\ op[o].outcome \in {"success", "error"} =>
           Snapshot = authority[o]

(* The lease of an owner that died is eventually free for others. *)
DeadOwnerRecovered ==
  \A o \in Owners, b \in Branches :
    pc[o] = "dead" ~> ~(Active(b) /\ lease[b].owner = o)

(* No call waits for another: each one ends, whatever it conflicts with. *)
CallEnds ==
  \A o \in Owners : pc[o] # "idle" ~> pc[o] \in {"idle", "dead"}

(* "unexpected external mutations still fail with STATE_DRIFT": a call that *)
(* succeeds never makes somebody else's change authoritative.               *)
ExternalMutationDrifts ==
  \A o \in Owners :
    pc[o] = "release" /\ op[o].outcome = "success" => "during" \notin intruded[o]
=============================================================================
