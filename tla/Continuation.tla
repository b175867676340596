---------------------------- MODULE Continuation ----------------------------
(***************************************************************************)
(* Continuation checkpoints: continuation_checkpoint and                   *)
(* _resume_continuation (coding_tools_mcp/stateful_server.py) with the     *)
(* records of continuation.py, claim_existing_workspace of the context     *)
(* registry (session_state.py) and the attached worktrees of               *)
(* managed_worktree.py, in one project.                                    *)
(*                                                                         *)
(* A context saves where its work stands under a scope; another one later  *)
(* takes over the workspace it stands in, if that is still as it was       *)
(* saved.  Meanwhile contexts expire, clean worktrees are removed, the     *)
(* server restarts, and others edit, commit and switch.                    *)
(*                                                                         *)
(* A context has one call at a time (its lock) and does not expire under   *)
(* it (LogicalContexts).  A guarded mutation is one step under its branch  *)
(* lease, and a lease a lock (GuardedMutation, WriterLease).  Calls while  *)
(* commands run, incomplete fingerprints, records of version 1 and the     *)
(* descriptive fields of a record are left out.                            *)
(***************************************************************************)
EXTENDS Integers, FiniteSets

CONSTANTS
  Resumers,     \* contexts; also names their worktrees and branches
  Home,         \* the canonical checkout, and the branch it starts on
  Scopes,       \* logical tasks and branches that records are kept under
  Nowhere,      \* no workspace, branch, record, holder or checkpoint
  MaxChanges,   \* bound on edits and commits
  MaxUpsets     \* bound on restarts, switches and failing writes

ASSUME ContinuationAssumption ==
  /\ Home \notin Resumers /\ Nowhere \notin Nat \cup Resumers \cup {Home}
  /\ MaxChanges \in Nat /\ MaxUpsets \in Nat

VARIABLES
  entry,      \* per context: its LogicalContextState; shared is a ghost
  place,      \* per workspace: the branch it has checked out, and its contents
  tip,        \* refs/heads, Nowhere where there is none
  note,       \* per scope: the continuation record
  authority,  \* per context: the snapshot of its authoritative checkpoint
  holder,     \* per branch: the context that holds its lease
  resume,     \* per context: the step of its call, and its locals
  leaving,    \* workspaces given to the expire callback
  precious,   \* ghost: per workspace: uncommitted contents
  churn,
  upsets

contVars == <<entry, place, tip, note, authority, holder, resume, leaving,
              precious, churn, upsets>>

Spots == Resumers \cup {Home}   \* workspaces, and branches
Clean == 0
NoEntry == [state |-> "new", workspace |-> Home, claimed |-> FALSE, shared |-> FALSE]
NoResume == [at |-> "idle", scope |-> Nowhere, saved |-> Nowhere, branch |-> Nowhere,
             target |-> Nowhere, created |-> FALSE, taken |-> FALSE,
             before |-> [workspace |-> Home, claimed |-> FALSE], result |-> "none"]

Registered(c) == entry[c].state = "live"
There(w) == place[w].branch # Nowhere
Gone == [branch |-> Nowhere, files |-> Clean]

(* collect_state_snapshot; its fields are those of state_fingerprint *)
SnapshotOf(w) ==
  [branch |-> place[w].branch, head |-> tip[place[w].branch], files |-> place[w].files]

ContInit ==
  /\ entry = [c \in Resumers |-> NoEntry]
  /\ place = [w \in Spots |-> IF w = Home THEN [branch |-> Home, files |-> Clean] ELSE Gone]
  /\ tip = [b \in Spots |-> IF b = Home THEN 0 ELSE Nowhere]
  /\ note = [s \in Scopes |-> Nowhere]
  /\ authority = [c \in Resumers |-> Nowhere]
  /\ holder = [b \in Spots |-> Nowhere]
  /\ resume = [c \in Resumers |-> NoResume]
  /\ leaving = {} /\ precious = [w \in Spots |-> Clean]
  /\ churn = 0 /\ upsets = 0

Upset == upsets < MaxUpsets /\ upsets' = upsets + 1
Upon(c, step) == resume' = [resume EXCEPT ![c].at = step]
Return(c) == resume' = [resume EXCEPT ![c] = NoResume]
Free(c) == Registered(c) /\ resume[c].at = "idle"
FreeBranch(b) == holder' = [holder EXCEPT ![b] = Nowhere]

(* cleanup_managed_worktree, of each workspace that is clean *)
Removed(W) == [w \in Spots |-> IF w \in W \ {Home} /\ place[w].files = Clean
                               THEN Gone ELSE place[w]]
-----------------------------------------------------------------------------
(* Contexts *)

(* A new client, with the baseline checkpoint of its context *)
Open(c) ==
  /\ entry[c].state = "new"
  /\ entry' = [entry EXCEPT ![c] = [NoEntry EXCEPT !.state = "live"]]
  /\ authority' = [authority EXCEPT ![c] = SnapshotOf(Home)]
  /\ UNCHANGED <<place, tip, note, holder, resume, leaving, precious, churn, upsets>>

(* call_tool of a session whose context has expired: its new context       *)
(* starts in the workspace of the old one.                                 *)
Succeed(c, old) ==
  /\ entry[c].state = "new" /\ entry[old].state = "expired" /\ There(entry[old].workspace)
  /\ entry' = [entry EXCEPT ![c] = [NoEntry EXCEPT !.state = "live",
                 !.workspace = entry[old].workspace, !.shared = entry[old].workspace # Home]]
  /\ authority' = [authority EXCEPT ![c] = SnapshotOf(entry[old].workspace)]
  /\ UNCHANGED <<place, tip, note, holder, resume, leaving, precious, churn, upsets>>

(* prune: what belongs to a context that is gone is not looked at again,   *)
(* but for its workspace.                                                  *)
Expire(c) ==
  /\ Free(c)
  /\ entry' = [entry EXCEPT ![c].state = "expired", ![c].claimed = FALSE,
                             ![c].shared = FALSE]
  /\ authority' = [authority EXCEPT ![c] = Nowhere]
  /\ leaving' = leaving \cup ({entry[c].workspace} \ {Home})
  /\ Return(c)
  /\ UNCHANGED <<place, tip, note, holder, precious, churn, upsets>>

(* The callback looks at the worktree, not at who has resumed it since. *)
CleanUp(w) ==
  /\ w \in leaving /\ leaving' = leaving \ {w}
  /\ place' = Removed({w})
  /\ entry' = [c \in Resumers |->
       IF Registered(c) /\ entry[c].workspace = w /\ place[w].files = Clean
       THEN [entry[c] EXCEPT !.shared = TRUE] ELSE entry[c]]
  /\ UNCHANGED <<tip, note, authority, holder, resume, precious, churn, upsets>>

(* The server stops or crashes, and recover_managed_worktrees runs when it *)
(* starts again; the leases of its calls expire.                           *)
RestartServer ==
  /\ Upset
  /\ entry' = [c \in Resumers |-> IF entry[c] = NoEntry THEN NoEntry
                                  ELSE [NoEntry EXCEPT !.state = "lost"]]
  /\ authority' = [c \in Resumers |-> Nowhere]
  /\ place' = Removed(Resumers)
  /\ holder' = [b \in Spots |-> Nowhere]
  /\ resume' = [c \in Resumers |-> NoResume]
  /\ leaving' = {}
  /\ UNCHANGED <<tip, note, precious, churn>>

(* A tool that may write: claim_mutation_workspace and its own worktree *)
Contender(c) == \E d \in Resumers \ {c} : Registered(d) /\ entry[d].claimed

ClaimPlace(c) ==
  /\ Free(c) /\ ~entry[c].claimed /\ There(entry[c].workspace)
  /\ entry' = [entry EXCEPT ![c].claimed = TRUE]
  /\ resume' = [resume EXCEPT ![c] = [NoResume EXCEPT !.at =
       IF Contender(c) /\ entry[c].workspace = Home THEN "bind" ELSE "idle"]]
  /\ UNCHANGED <<place, tip, note, authority, holder, leaving, precious, churn, upsets>>

BindPlace(c) ==
  /\ resume[c].at = "bind" /\ Return(c)
  /\ IF tip[c] = Nowhere /\ ~There(c)
       THEN /\ tip' = [tip EXCEPT ![c] = authority[c].head]
            /\ place' = [place EXCEPT ![c] = [branch |-> c, files |-> Clean]]
            /\ entry' = [entry EXCEPT ![c].workspace = c]
            /\ authority' = [authority EXCEPT ![c] =
                 [branch |-> c, head |-> authority[c].head, files |-> Clean]]
       ELSE /\ entry' = [entry EXCEPT ![c].claimed = FALSE]
            /\ UNCHANGED <<tip, place, authority>>
  /\ UNCHANGED <<note, holder, leaving, precious, churn, upsets>>

(* The contents of a workspace become files, on a new commit or not. *)
Changes(w, files, commits) ==
  LET b == place[w].branch IN
  /\ place' = [place EXCEPT ![w].files = files]
  /\ tip' = IF commits THEN [tip EXCEPT ![b] = churn + 1] ELSE tip
  /\ precious' = [precious EXCEPT ![w] = files]
  /\ churn < MaxChanges /\ churn' = churn + 1

(* A guarded tool of the owner *)
MutatePlace(c, commits) ==
  LET w == entry[c].workspace IN
  /\ Free(c) /\ entry[c].claimed /\ There(w)
  /\ holder[place[w].branch] = Nowhere
  /\ authority[c] = SnapshotOf(w)
  /\ Changes(w, IF commits THEN Clean ELSE churn + 1, commits)
  /\ authority' = [authority EXCEPT ![c] =
       [branch |-> place[w].branch, head |-> tip'[place[w].branch], files |-> place'[w].files]]
  /\ Return(c)
  /\ UNCHANGED <<entry, note, holder, leaving, upsets>>
-----------------------------------------------------------------------------
(* continuation_checkpoint(action="write") *)

(* The branch, then its lease *)
BeginWrite(c, s) ==
  LET w == entry[c].workspace
      b == place[w].branch
  IN
  /\ Free(c) /\ There(w) /\ holder[b] = Nowhere
  /\ holder' = [holder EXCEPT ![b] = c]
  /\ resume' = [resume EXCEPT ![c] =
       [NoResume EXCEPT !.at = "snapshot", !.scope = s, !.branch = b, !.target = w]]
  /\ UNCHANGED <<entry, place, tip, note, authority, leaving, precious, churn, upsets>>

NoteOf(branch, snapshot, w) ==
  [branch |-> branch, head |-> snapshot.head, print |-> snapshot,
   kind |-> IF w = Home THEN "canonical" ELSE "managed", dirty |-> snapshot.files # Clean]

(* The snapshot, its checkpoint, and write_checkpoint (one os.replace).     *)
(* Evidence that is not that of the state as it is ends the call, and so   *)
(* does drift without evidence.  What happens between the three is no      *)
(* different from what happens after them.                                 *)
WriteNote(c, evidence) ==
  LET w == resume[c].target
      refused == \/ ~There(w) \/ evidence = "older"
                 \/ evidence = "none" /\ SnapshotOf(w) # authority[c]
  IN
  /\ resume[c].at = "snapshot" /\ Return(c) /\ FreeBranch(resume[c].branch)
  /\ IF refused
       THEN UNCHANGED <<note, authority>>
       ELSE /\ note' = [note EXCEPT ![resume[c].scope] =
                 NoteOf(resume[c].branch, SnapshotOf(w), w)]
            /\ authority' = [authority EXCEPT ![c] = SnapshotOf(w)]
  /\ UNCHANGED <<entry, place, tip, leaving, precious, churn, upsets>>

(* action="clear" *)
ClearNote(c, s) ==
  /\ Free(c) /\ note[s] # Nowhere
  /\ note' = [note EXCEPT ![s] = Nowhere]
  /\ UNCHANGED <<entry, place, tip, authority, holder, resume, leaving, precious, churn,
                 upsets>>
-----------------------------------------------------------------------------
(* action="resume" *)

(* _validate_resume_snapshot *)
Valid(saved, w) ==
  /\ There(w)
  /\ place[w].branch = saved.branch /\ tip[place[w].branch] = saved.head
  /\ SnapshotOf(w) = saved.print

(* read_checkpoint.  A context with a workspace of its own goes on only    *)
(* from the canonical one; "already_resumed" changes nothing.              *)
ReadNote(c, s) ==
  /\ Free(c) /\ There(entry[c].workspace) /\ note[s] # Nowhere
  /\ entry[c].claimed => entry[c].workspace = Home /\ ~Valid(note[s], Home)
  /\ resume' = [resume EXCEPT ![c] =
       [NoResume EXCEPT !.at = "target", !.scope = s, !.saved = note[s],
          !.branch = note[s].branch,
          !.before = [workspace |-> entry[c].workspace, claimed |-> entry[c].claimed]]]
  /\ UNCHANGED <<entry, place, tip, note, authority, holder, leaving, precious, churn, upsets>>

(* _resume_target: the workspace of the saved state, or Nowhere *)
Managed(saved) ==
  {w \in Resumers : /\ There(w) /\ place[w].branch = saved.branch
                    /\ tip[saved.branch] = saved.head}

Target(saved) ==
  IF saved.kind = "canonical" /\ Valid(saved, Home) THEN {Home}
  ELSE IF saved.kind = "canonical" /\ saved.dirty THEN {}
  ELSE Managed(saved)

CanAttach(c, saved) ==
  /\ ~saved.dirty /\ Target(saved) = {} /\ tip[saved.branch] = saved.head
  /\ \A w \in Spots : place[w].branch # saved.branch
  /\ ~There(c)

(* A failed resume: the binding it replaced comes back, and a worktree it  *)
(* attached goes, unless it has changes.                                   *)
RollBack(c) ==
  LET r == resume[c] IN
  /\ entry' = IF r.taken THEN [entry EXCEPT ![c].workspace = r.before.workspace,
                                            ![c].claimed = r.before.claimed]
              ELSE entry
  /\ place' = IF r.created THEN Removed({r.target}) ELSE place
  /\ FreeBranch(r.branch)
  /\ resume' = [resume EXCEPT ![c] = [NoResume EXCEPT !.before = r.before, !.result = "failed"]]

(* Another context has the lease of the saved branch. *)
LeaseHeld(c) ==
  /\ resume[c].at = "target" /\ holder[resume[c].branch] # Nowhere
  /\ Return(c)
  /\ UNCHANGED <<entry, place, tip, note, authority, holder, leaving, precious, churn, upsets>>

(* The lease, then the target.  What others do between the two they could  *)
(* as well have done before: the lease keeps out only those who want it.   *)
FindTarget(c) ==
  LET saved == resume[c].saved
      found(w, created) ==
        /\ resume' = [resume EXCEPT ![c].at = "claim", ![c].target = w, ![c].created = created]
        /\ holder' = [holder EXCEPT ![saved.branch] = c]
        /\ UNCHANGED entry
  IN
  /\ resume[c].at = "target" /\ holder[saved.branch] = Nowhere
  /\ \/ \E w \in Target(saved) : found(w, FALSE) /\ UNCHANGED place
     \/ /\ CanAttach(c, saved) /\ found(c, TRUE)
        /\ place' = [place EXCEPT ![c] = [branch |-> saved.branch, files |-> Clean]]
     \/ Target(saved) = {} /\ ~CanAttach(c, saved) /\ RollBack(c)
  /\ UNCHANGED <<tip, note, authority, leaving, precious, churn, upsets>>

(* claim_existing_workspace *)
Claimable(c, w) ==
  /\ entry[c].claimed => entry[c].workspace = w
  /\ \A d \in Resumers \ {c} : ~(Registered(d) /\ entry[d].claimed /\ entry[d].workspace = w)

ClaimTarget(c) ==
  LET w == resume[c].target IN
  /\ resume[c].at = "claim"
  /\ IF Valid(resume[c].saved, w) /\ Claimable(c, w)
       THEN /\ entry' = [entry EXCEPT ![c].workspace = w, ![c].claimed = TRUE]
            /\ resume' = [resume EXCEPT ![c].at = "check", ![c].taken = TRUE]
            /\ UNCHANGED <<place, holder>>
       ELSE RollBack(c)
  /\ UNCHANGED <<tip, note, authority, leaving, precious, churn, upsets>>

(* Mutant: what was validated before the claim is not looked at again. *)
StillSavedUnchecked(c) == There(resume[c].target)

StillSaved(c) == Valid(resume[c].saved, resume[c].target)

(* The second validation; the checkpoint of the snapshot it returns, and   *)
(* the renewed record.                                                     *)
Renewed(c) == NoteOf(resume[c].branch, SnapshotOf(resume[c].target), resume[c].target)

Accept(c) ==
  /\ resume[c].at = "check" /\ StillSaved(c)
  /\ authority' = [authority EXCEPT ![c] = SnapshotOf(resume[c].target)]
  /\ note' = [note EXCEPT ![resume[c].scope] = Renewed(c)]
  /\ entry' = [entry EXCEPT ![c].shared = FALSE]
  /\ FreeBranch(resume[c].branch)
  /\ resume' = [resume EXCEPT ![c] = [NoResume EXCEPT !.saved = resume[c].saved,
                                       !.target = resume[c].target, !.result = "resumed"]]
  /\ UNCHANGED <<place, tip, leaving, precious, churn, upsets>>

Reject(c) ==
  /\ resume[c].at = "check" /\ ~StillSaved(c)
  /\ RollBack(c)
  /\ UNCHANGED <<tip, note, authority, leaving, precious, churn, upsets>>

(* The record cannot be written; the checkpoint was. *)
RenewFails(c) ==
  /\ resume[c].at = "check" /\ StillSaved(c) /\ Upset
  /\ authority' = [authority EXCEPT ![c] = SnapshotOf(resume[c].target)]
  /\ RollBack(c)
  /\ UNCHANGED <<tip, note, leaving, precious, churn>>
-----------------------------------------------------------------------------
(* Editors, commands and git outside the leases *)

EditPlace(w) ==
  /\ There(w)
  /\ \E files \in {Clean, churn + 1} \ {place[w].files} : Changes(w, files, FALSE)
  /\ UNCHANGED <<entry, note, authority, holder, resume, leaving, upsets>>

CommitPlace(w) ==
  /\ There(w) /\ Changes(w, Clean, TRUE)
  /\ UNCHANGED <<entry, note, authority, holder, resume, leaving, upsets>>

SwitchHome(b) ==
  /\ Upset /\ tip[b] # Nowhere /\ place[Home].files = Clean
  /\ \A w \in Spots : place[w].branch # b
  /\ place' = [place EXCEPT ![Home].branch = b]
  /\ UNCHANGED <<entry, tip, note, authority, holder, resume, leaving, precious, churn>>

ContStep(c) ==
  \/ Open(c) \/ (\E d \in Resumers : Succeed(c, d)) \/ Expire(c)
  \/ ClaimPlace(c) \/ BindPlace(c) \/ \E commits \in BOOLEAN : MutatePlace(c, commits)
  \/ \E s \in Scopes : BeginWrite(c, s) \/ ClearNote(c, s) \/ ReadNote(c, s)
  \/ \E evidence \in {"none", "older", "actual"} : WriteNote(c, evidence)
  \/ LeaseHeld(c) \/ FindTarget(c) \/ ClaimTarget(c)
  \/ Accept(c) \/ Reject(c) \/ RenewFails(c)

ContNext ==
  \/ \E c \in Resumers : ContStep(c)
  \/ \E w \in Spots : CleanUp(w) \/ EditPlace(w) \/ CommitPlace(w) \/ SwitchHome(w)
  \/ RestartServer

ContSpec == ContInit /\ [][ContNext]_contVars
-----------------------------------------------------------------------------
(* No two live contexts own a workspace, however claims, resumptions and   *)
(* expiries fall together - unless one of them inherited it from an        *)
(* expired context without asking who has resumed it since, or had it      *)
(* removed by the late cleanup of one that expired.                        *)
OneOwner ==
  \A c, d \in Resumers :
    /\ c # d /\ Registered(c) /\ Registered(d) /\ entry[c].claimed /\ entry[d].claimed
    /\ entry[c].workspace = entry[d].workspace
    /\ resume[c].at # "bind" /\ resume[d].at # "bind"
    => entry[c].shared \/ entry[d].shared

(* A resume that succeeds binds its context to the workspace and accepts   *)
(* exactly the state that was saved, whatever others did meanwhile; one    *)
(* that fails leaves the binding as it was.                                *)
ResumedOrNot ==
  \A c \in Resumers : Free(c) =>
    LET r == resume[c] IN
    /\ r.result = "resumed" =>
         /\ entry[c].claimed /\ entry[c].workspace = r.target
         /\ authority[c] = r.saved.print /\ r.saved.branch = r.saved.print.branch
    /\ r.result = "failed" =>
         /\ entry[c].workspace = r.before.workspace
         /\ entry[c].claimed = r.before.claimed

(* No worktree with uncommitted changes is removed, by an expiry, by a     *)
(* failed resume or at a start of the server.                              *)
WorktreesKept == \A w \in Spots : precious[w] # Clean => place[w].files = precious[w]

ContinuationSound == OneOwner /\ ResumedOrNot /\ WorktreesKept
=============================================================================
