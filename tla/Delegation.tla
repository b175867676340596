----------------------------- MODULE Delegation -----------------------------
(***************************************************************************)
(* antigravity_delegate (coding_tools_mcp/server.py) with                  *)
(* run_bounded_process (processes.py): an external agent works in a        *)
(* detached worktree and its validated edits are applied to the selected   *)
(* checkout, where the user and other delegations work meanwhile.          *)
(*                                                                         *)
(* A file's contents are named after who wrote them: a file stands for the *)
(* lines a hunk touches with their context.  Every git command is a step   *)
(* of its own.  `git apply` compares all of them before it writes, and     *)
(* writes all or none, unless its timeout kills it.  The agent's process   *)
(* group is gone at the end of an attempt (POSIX).                         *)
(***************************************************************************)
EXTENDS Integers, FiniteSets

CONSTANTS
  Delegations,   \* calls of antigravity_delegate
  Sources,       \* files
  Labels,        \* branches of the checkout
  Original,      \* the contents of a file at the start
  ByUser,        \* contents the user writes
  NoSource,      \* the file does not exist
  MaxUserSteps,  \* bound on what the user does
  MaxGitFaults   \* bound on git commands that fail or time out

ASSUME DelegationAssumption ==
  /\ MaxUserSteps \in Nat /\ MaxGitFaults \in Nat
  /\ {Original, ByUser, NoSource} \cap Delegations = {}

VARIABLES
  position,   \* HEAD of the checkout: commit and branch
  committed,  \* the files of that commit
  index,      \* the files of the index
  present,    \* the files of the checkout
  task,       \* per call: its step and locals; ghosts
  worktree,   \* per call: the delegate worktree
  landed,     \* ghost: per call: the files it wrote to the checkout
  killed,     \* ghost: calls whose `git apply` timed out
  userSteps,
  gitFaults

userVars == <<position, committed, index, userSteps>>
dlgVars == <<position, committed, index, present, task, worktree, landed, killed, userSteps, gitFaults>>

(* "read_only" is treated like "verify" *)
DelegationModes == {"workspace_edit", "verify"}
NoTree == [f \in Sources |-> NoSource]
Nowhere == [commit |-> 0, branch |-> NoSource]

(* Ghosts: overtaken: the checkout changed after the check that would have  *)
(* seen it; on, clean, over: HEAD and branch, whether there were changes,   *)
(* and the files, when the edits landed.                                    *)
NewTask == [at |-> "call", mode |-> "verify", retry |-> FALSE, attempts |-> 0,
            from |-> Nowhere, base |-> NoTree, result |-> "none",
            overtaken |-> FALSE, on |-> Nowhere, clean |-> FALSE, over |-> NoTree]
NoWorktree == [exists |-> FALSE, files |-> NoTree, moved |-> FALSE]

DlgInit ==
  /\ position \in [commit : {0}, branch : Labels]
  /\ committed \in [Sources -> {Original, NoSource}]
  /\ index = committed /\ present = committed
  /\ task = [x \in Delegations |-> NewTask]
  /\ worktree = [x \in Delegations |-> NoWorktree]
  /\ landed = [x \in Delegations |-> {}] /\ killed = {}
  /\ userSteps = 0 /\ gitFaults = 0

Step(x, at) == task' = [task EXCEPT ![x].at = at]
Return(x, result) == task' = [task EXCEPT ![x] = [NewTask EXCEPT !.at = "done", !.result = result]]
Conclude(x, result) == task' = [task EXCEPT ![x].at = "finally", ![x].result = result]

(* git diff --quiet: the files of the index; git diff --cached --quiet *)
CleanTree == \A f \in Sources : index[f] # NoSource => present[f] = index[f]
CleanIndex == index = committed

(* Arguments, the first clean check (nothing relies on it later), the      *)
(* binary and its options                                                  *)
Preflight(x, mode, retry) ==
  /\ task[x].at = "call" /\ CleanTree /\ CleanIndex
  /\ task' = [task EXCEPT ![x].at = "base", ![x].mode = mode, ![x].retry = retry]
  /\ UNCHANGED <<userVars, present, worktree, landed, killed, gitFaults>>

(* rev-parse HEAD, and the files of that commit *)
ReadBase(x) ==
  /\ task[x].at = "base"
  /\ task' = [task EXCEPT ![x].at = "named", ![x].from.commit = position.commit,
                          ![x].base = committed]
  /\ UNCHANGED <<userVars, present, worktree, landed, killed, gitFaults>>

(* symbolic-ref HEAD *)
ReadBranch(x) ==
  /\ task[x].at = "named"
  /\ task' = [task EXCEPT ![x].at = "add", ![x].from.branch = position.branch]
  /\ UNCHANGED <<userVars, present, worktree, landed, killed, gitFaults>>

(* git worktree add --detach *)
AddWorktree(x) ==
  /\ task[x].at = "add"
  /\ worktree' = [worktree EXCEPT ![x] =
       [exists |-> TRUE, files |-> task[x].base, moved |-> FALSE]]
  /\ task' = [task EXCEPT ![x].at = "run", ![x].attempts = 1]
  /\ UNCHANGED <<userVars, present, landed, killed, gitFaults>>

AddFails(x) ==
  /\ task[x].at = "add" /\ gitFaults < MaxGitFaults /\ gitFaults' = gitFaults + 1
  /\ Return(x, "error")
  /\ UNCHANGED <<userVars, present, worktree, landed, killed>>

(* What the agent does in an attempt: it edits, deletes, commits. *)
AgentWorks(x, edited, deleted, commits) ==
  /\ edited \cap deleted = {} /\ (commits => ~worktree[x].moved)
  /\ worktree' = [worktree EXCEPT ![x].moved = @ \/ commits, ![x].files =
       [f \in Sources |-> IF f \in edited THEN x ELSE IF f \in deleted THEN NoSource ELSE @[f]]]

(* Exit code 0 and no "ERROR" status *)
AgentSucceeds(x, edited, deleted, commits) ==
  /\ task[x].at = "run"
  /\ AgentWorks(x, edited, deleted, commits)
  /\ Step(x, "inspect")
  /\ UNCHANGED <<userVars, present, landed, killed, gitFaults>>

AttemptsLeft(x) == task[x].retry /\ task[x].attempts = 1

(* A timeout or a transient upstream failure: once more, in the same worktree *)
AgentRetries(x, edited, deleted, commits) ==
  /\ task[x].at = "run" /\ AttemptsLeft(x)
  /\ AgentWorks(x, edited, deleted, commits)
  /\ task' = [task EXCEPT ![x].attempts = @ + 1]
  /\ UNCHANGED <<userVars, present, landed, killed, gitFaults>>

(* Cancelled, failed, reported an error, or out of attempts; its worktree is not read again *)
AgentFails(x) ==
  /\ task[x].at = "run"
  /\ Conclude(x, "error")
  /\ UNCHANGED <<userVars, present, worktree, landed, killed, gitFaults>>

Changed(x) == {f \in Sources : worktree[x].files[f] # task[x].base[f]}
Deleted(x) == {f \in Changed(x) : worktree[x].files[f] = NoSource}
AddedFiles(x) == {f \in Changed(x) : task[x].base[f] = NoSource}

(* HEAD unmoved, no deletions, and no edits at all unless they were asked for *)
Allowed(x) ==
  /\ ~worktree[x].moved /\ Deleted(x) = {}
  /\ task[x].mode # "workspace_edit" => Changed(x) = {}

Inspect(x) ==
  /\ task[x].at = "inspect"
  /\ IF ~Allowed(x) THEN Conclude(x, "error")
     ELSE IF Changed(x) = {} THEN Conclude(x, "unchanged")
     ELSE Step(x, "head")
  /\ UNCHANGED <<userVars, present, worktree, landed, killed, gitFaults>>

(* The checks before git apply; the first that fails is TRANSACTION_CONFLICT. *)
Check(x, step, passed, next) ==
  /\ task[x].at = step
  /\ IF passed THEN Step(x, next) ELSE Conclude(x, "error")
  /\ UNCHANGED <<userVars, present, worktree, landed, killed, gitFaults>>

CheckHead(x) == Check(x, "head", position.commit = task[x].from.commit, "branch")
CheckBranch(x) == Check(x, "branch", position.branch = task[x].from.branch, "diff")
CheckTree(x) == Check(x, "diff", CleanTree, "cached")
CheckIndex(x) == Check(x, "cached", CleanIndex, "additions")
CheckAdditions(x) ==
  Check(x, "additions", \A f \in AddedFiles(x) : present[f] = NoSource, "apply")

(* The calls of C that a change overtakes: of HEAD, of the branch, or of    *)
(* tracked files or the index, past the check of it.                        *)
PastTree == {"cached", "additions", "apply"}
PastBranch == PastTree \cup {"diff"}
PastHead == PastBranch \cup {"branch"}
Overtake(C, past) ==
  [y \in Delegations |->
     [task[y] EXCEPT !.overtaken = @ \/ (y \in C /\ task[y].at \in past)]]

(* The files of the worktree go to the checkout and the call concludes. *)
Lands(x, files, result) ==
  /\ present' = [f \in Sources |-> IF f \in files THEN worktree[x].files[f] ELSE present[f]]
  /\ landed' = [landed EXCEPT ![x] = files]
  /\ task' = [Overtake(Delegations \ {x}, PastTree) EXCEPT
       ![x] = [task[x] EXCEPT !.at = "finally", !.result = result, !.on = position,
                 !.clean = CleanTree /\ CleanIndex, !.over = present]]

(* Mutant: git apply is given --3way or --reject, and does what it can. *)
AppliesAnyway(x) == TRUE

(* git apply: every file is still what the patch was made from *)
Applies(x) == \A f \in Changed(x) : present[f] = task[x].base[f]

GitApply(x) ==
  /\ task[x].at = "apply"
  /\ IF Applies(x)
     THEN Lands(x, Changed(x), "applied")
     ELSE Conclude(x, "error") /\ UNCHANGED <<present, landed>>
  /\ UNCHANGED <<userVars, worktree, killed, gitFaults>>

(* Its timeout of 60 s kills it between two files. *)
GitApplyKilled(x, files) ==
  /\ task[x].at = "apply" /\ gitFaults < MaxGitFaults /\ gitFaults' = gitFaults + 1
  /\ Applies(x) /\ files \subseteq Changed(x)
  /\ Lands(x, files, "error") /\ killed' = killed \cup {x}
  /\ UNCHANGED <<userVars, worktree>>

(* finally: git worktree remove --force *)
RemoveWorktree(x) ==
  /\ task[x].at = "finally"
  /\ worktree' = [worktree EXCEPT ![x] = NoWorktree]
  /\ Return(x, task[x].result)
  /\ UNCHANGED <<userVars, present, landed, killed, gitFaults>>

(* A failed removal is the call's error, also after the edits were applied. *)
RemoveFails(x) ==
  /\ task[x].at = "finally" /\ gitFaults < MaxGitFaults /\ gitFaults' = gitFaults + 1
  /\ Return(x, "uncleaned")
  /\ UNCHANGED <<userVars, present, worktree, landed, killed>>
----------------------------------------------------------------------------
(* The user, in the checkout *)

UserActs(past) ==
  /\ userSteps < MaxUserSteps /\ userSteps' = userSteps + 1
  /\ task' = Overtake(Delegations, past)
  /\ UNCHANGED <<worktree, landed, killed, gitFaults>>

UserEdits(f) ==
  /\ present[f] # ByUser /\ present' = [present EXCEPT ![f] = ByUser]
  /\ UserActs(PastTree)
  /\ UNCHANGED <<position, committed, index>>

(* git add, git restore --staged *)
UserStages(f, contents) ==
  /\ contents \in {present[f], committed[f]} \ {index[f]}
  /\ index' = [index EXCEPT ![f] = contents]
  /\ UserActs(PastTree)
  /\ UNCHANGED <<position, committed, present>>

(* git commit, with or without -a, perhaps of other files only *)
UserCommits(all) ==
  /\ index' = IF all THEN [f \in Sources |-> IF index[f] # NoSource THEN present[f] ELSE NoSource]
              ELSE index
  /\ committed' = index'
  /\ position' = [position EXCEPT !.commit = @ + 1]
  /\ UserActs(PastHead)
  /\ UNCHANGED present

(* A branch at the same commit *)
UserSwitches(b) ==
  /\ b # position.branch /\ position' = [position EXCEPT !.branch = b]
  /\ UserActs(PastBranch)
  /\ UNCHANGED <<committed, index, present>>

DelegationStep(x) ==
  \/ \E mode \in DelegationModes, retry \in BOOLEAN : Preflight(x, mode, retry)
  \/ ReadBase(x) \/ ReadBranch(x) \/ AddWorktree(x) \/ AddFails(x)
  \/ \E edited, deleted \in SUBSET Sources, commits \in BOOLEAN :
       \/ AgentSucceeds(x, edited, deleted, commits)
       \/ AgentRetries(x, edited, deleted, commits)
  \/ AgentFails(x)
  \/ Inspect(x) \/ CheckHead(x) \/ CheckBranch(x) \/ CheckTree(x) \/ CheckIndex(x)
  \/ CheckAdditions(x) \/ GitApply(x)
  \/ \E files \in SUBSET Sources : GitApplyKilled(x, files)
  \/ RemoveWorktree(x) \/ RemoveFails(x)

DlgNext ==
  \/ \E x \in Delegations : DelegationStep(x)
  \/ \E f \in Sources :
       UserEdits(f) \/ UserStages(f, present[f]) \/ UserStages(f, committed[f])
  \/ \E all \in BOOLEAN : UserCommits(all)
  \/ \E b \in Labels : UserSwitches(b)

DlgSpec == DlgInit /\ [][DlgNext]_dlgVars
----------------------------------------------------------------------------
(* Whatever the agent, the user and other delegations do meanwhile: edits  *)
(* of a delegation reach the checkout only in workspace_edit mode and from *)
(* an accepted attempt (the first or the one retry that was asked for);    *)
(* every file they replace held what the agent started from, even when it  *)
(* was changed after the checks; HEAD and branch are those of the start    *)
(* and the checkout has no other changes, unless one came after the check  *)
(* that would have seen it.  A result that says so means all edits are     *)
(* there, any other that none is.  Excepted from the last are a git apply  *)
(* that times out, which may leave some, and a worktree that cannot be     *)
(* removed, which is reported whatever the rest did.                       *)
DelegationSound ==
  \A x \in Delegations :
    LET t == task[x]
    IN  /\ t.at = "finally" /\ landed[x] # {} =>
             /\ t.mode = "workspace_edit"
             /\ t.attempts \in 1..2 /\ (t.attempts = 2 => t.retry)
             /\ \A f \in landed[x] : t.over[f] = t.base[f]
             /\ ~t.overtaken => t.on = t.from /\ t.clean
        /\ t.at = "finally" =>
             /\ t.result = "applied" => landed[x] = Changed(x) /\ Deleted(x) = {}
             /\ t.result # "applied" => landed[x] = {} \/ x \in killed
        /\ t.at = "done" /\ t.result \in {"error", "unchanged"} =>
             (landed[x] = {} \/ x \in killed) /\ ~worktree[x].exists
        /\ \A f \in Sources : present[f] = x => f \in landed[x]
=============================================================================
