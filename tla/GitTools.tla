------------------------------ MODULE GitTools ------------------------------
(***************************************************************************)
(* The Git tools of a workspace (git_create_branch ... git_push in         *)
(* coding_tools_mcp/server.py) while clients call them concurrently, files *)
(* are edited between their subprocesses, and another clone pushes.        *)
(*                                                                         *)
(* A tool is a sequence of git commands; each command is atomic (it holds  *)
(* Git's own locks), the tool is not.  What a git command does is          *)
(* external; it is modelled as far as these tools depend on it.  Arguments *)
(* that are refused before the first command that matters are left out.    *)
(***************************************************************************)
EXTENDS Integers, Sequences, FiniteSets

CONSTANTS
  Callers,      \* requests served at the same time
  Files,        \* paths of the repository
  Heads,        \* branch names
  Trunk,        \* the branch of the first commit
  MaxCommits,   \* bound on commits
  MaxFileEdits,     \* bound on edits of files
  MaxCalls,     \* bound on tool calls
  MaxKills      \* bound on merges that exceed their timeout

ASSUME GitAssumption ==
  /\ Trunk \in Heads
  /\ MaxCommits \in Nat \ {0} /\ MaxFileEdits \in Nat
  /\ MaxCalls \in Nat /\ MaxKills \in Nat

VARIABLES
  commits,   \* every commit: its ancestors and itself, its tree, and what was asked
  local,     \* refs/heads, 0 where there is none
  tracking,  \* refs/remotes/origin
  origin,    \* the branches of the remote
  upstream,  \* the branches with an upstream
  current,   \* the branch of HEAD
  index,     \* the staged content of each file
  work,      \* the content of each file in the work tree
  mergeHead, \* MERGE_HEAD, or 0
  call,      \* what each caller has left to do
  fileEdits,     \* the number of edits so far
  safe,      \* ghost: per file, the last edit, if no merge was in progress at it
  late,      \* ghost: a file was edited or staged in the middle of a merge
  calls,     \* the number of calls so far
  kills      \* merges that exceeded their timeout

refs == <<local, tracking, origin, upstream>>
checkout == <<current, index, work, mergeHead>>
gitGhosts == <<fileEdits, safe, late>>
counts == <<calls, kills>>
gitVars == <<commits, refs, checkout, call, gitGhosts, counts>>

NoFile == 0
Conflict == -1
Done == [tool |-> "none", at |-> "idle", branch |-> Trunk, files |-> {}]

Tree(c) == commits[c].tree
Past(c) == commits[c].past
HEAD == local[current]

GitInit ==
  /\ commits = <<[past |-> {1}, tree |-> [f \in Files |-> NoFile],
                  parent |-> 1, asked |-> {}]>>
  /\ local = [b \in Heads |-> IF b = Trunk THEN 1 ELSE 0]
  /\ tracking = local /\ origin = local /\ upstream = {Trunk}
  /\ current = Trunk
  /\ index = Tree(1) /\ work = Tree(1) /\ mergeHead = 0
  /\ call = [x \in Callers |-> Done]
  /\ fileEdits = 0 /\ safe = Tree(1) /\ late = FALSE /\ calls = 0 /\ kills = 0

-----------------------------------------------------------------------------
(* What git does *)

(* A commit with the given parents *)
Commit(parents, tree, asked) ==
  /\ Len(commits) < MaxCommits
  /\ commits' = Append(commits,
       [past   |-> (UNION {Past(c) : c \in parents}) \cup {Len(commits) + 1},
        tree   |-> tree,
        parent |-> CHOOSE c \in parents : c = HEAD \/ HEAD \notin parents,
        asked  |-> asked])

(* Going from the tree of HEAD to another one keeps what is not committed, *)
(* and is refused where it could not.                                      *)
CanCheckout(to) ==
  \A f \in Files : \/ to[f] = Tree(HEAD)[f] \/ to[f] = index[f]
                   \/ index[f] = Tree(HEAD)[f] /\ work[f] = index[f]
Carried(state, to) ==
  [f \in Files |-> IF to[f] = Tree(HEAD)[f] \/ to[f] = index[f] THEN state[f] ELSE to[f]]
Checkout(to) == index' = Carried(index, to) /\ work' = Carried(work, to)

Staged == {f \in Files : index[f] # Tree(HEAD)[f]}

(* git status --porcelain=v1 --untracked-files=no prints nothing *)
CleanTracked == Staged = {} /\ \A f \in Files : index[f] # NoFile => work[f] = index[f]

(* The outcomes of merging a commit that HEAD does not contain: each file  *)
(* comes from one side, or is in conflict.                                 *)
Merged(c) ==
  {t \in [Files -> {Conflict} \cup 0..MaxFileEdits] :
     \A f \in Files : t[f] \in IF Tree(c)[f] = Tree(HEAD)[f] THEN {Tree(c)[f]}
                               ELSE {Conflict, Tree(HEAD)[f], Tree(c)[f]}}

(* git merge refuses before it changes anything. *)
MergeRefused(c, t) ==
  \/ mergeHead # 0
  \/ IF HEAD \in Past(c) THEN ~CanCheckout(Tree(c))
     ELSE Staged # {} \/ \E f \in Files : t[f] # Tree(HEAD)[f] /\ work[f] # index[f]

-----------------------------------------------------------------------------
Goes(x, at) == call' = [call EXCEPT ![x].at = at]
Returns(x) == call' = [call EXCEPT ![x] = Done]

Called(x) ==
  /\ call[x] = Done /\ calls < MaxCalls
  /\ calls' = calls + 1 /\ UNCHANGED kills

(* The checks before the first command that changes something; they read   *)
(* the current branch.                                                     *)
CallTool(x, tool, branch, asked) ==
  /\ Called(x)
  /\ call' = [call EXCEPT ![x] =
       [tool |-> tool, at |-> "run", branch |-> branch, files |-> asked]]
  /\ UNCHANGED <<commits, refs, checkout, gitGhosts>>

BeginPull(x) == CleanTracked /\ CallTool(x, "pull", current, {})
BeginMerge(x, b) == CleanTracked /\ tracking[b] # 0 /\ CallTool(x, "merge", b, {})
BeginPush(x) == CallTool(x, "push", current, {})
BeginDelete(x, b) == b # current /\ CallTool(x, "delete", b, {})
BeginCommit(x, asked) == Staged \subseteq asked /\ CallTool(x, "commit", current, asked)

At(x, tool, at) == call[x].tool = tool /\ call[x].at = at

(* git_create_branch, git_switch_branch: the git command repeats the check *)
(* of the tool, so one step says it, and refuses while a merge is open.     *)
CreateBranch(x, b) ==
  /\ Called(x) /\ local[b] = 0 /\ mergeHead = 0
  /\ local' = [local EXCEPT ![b] = HEAD] /\ current' = b
  /\ UNCHANGED <<commits, tracking, origin, upstream, index, work, mergeHead, call, gitGhosts>>

SwitchBranch(x, b) ==
  /\ Called(x) /\ local[b] # 0 /\ b # current
  /\ mergeHead = 0 /\ CanCheckout(Tree(local[b]))
  /\ Checkout(Tree(local[b])) /\ current' = b
  /\ UNCHANGED <<commits, refs, mergeHead, call, gitGhosts>>

(* git fetch --prune *)
Fetch(x) ==
  /\ Called(x)
  /\ tracking' = origin
  /\ UNCHANGED <<commits, local, origin, upstream, checkout, call, gitGhosts>>

(* git pull --ff-only origin branch, into the branch that is current now *)
Pull(x) ==
  LET c == origin[call[x].branch] IN
  /\ At(x, "pull", "run") /\ Returns(x)
  /\ tracking' = IF c = 0 THEN tracking ELSE [tracking EXCEPT ![call[x].branch] = c]
  /\ IF c # 0 /\ mergeHead = 0 /\ HEAD \in Past(c) /\ CanCheckout(Tree(c))
       THEN local' = [local EXCEPT ![current] = c] /\ Checkout(Tree(c))
       ELSE UNCHANGED <<local, index, work>>
  /\ UNCHANGED <<commits, origin, upstream, current, mergeHead, gitGhosts, counts>>

-----------------------------------------------------------------------------
(* git_merge_remote_branch: git merge *)

MergeNothing(x) ==
  LET c == tracking[call[x].branch] IN
  /\ At(x, "merge", "run") /\ mergeHead = 0 /\ c # 0 /\ c \in Past(HEAD)
  /\ Returns(x)
  /\ UNCHANGED <<commits, refs, checkout, gitGhosts, counts>>

FastForward(x) ==
  LET c == tracking[call[x].branch] IN
  /\ At(x, "merge", "run") /\ c # 0 /\ c # HEAD /\ HEAD \in Past(c)
  /\ ~MergeRefused(c, Tree(c))
  /\ local' = [local EXCEPT ![current] = c] /\ Checkout(Tree(c))
  /\ Returns(x)
  /\ UNCHANGED <<commits, tracking, origin, upstream, current, mergeHead, gitGhosts, counts>>

(* The remaining outcomes of git merge: a merge commit, or conflicts, or a *)
(* refusal.  The tool aborts after the last two, unless the merge exceeded *)
(* its timeout: TimeoutExpired leaves the tool at once.                    *)
MergeCommit(x) ==
  LET c == tracking[call[x].branch] IN
  /\ At(x, "merge", "run") /\ c # 0 /\ c \notin Past(HEAD) /\ HEAD \notin Past(c)
  /\ \E t \in Merged(c) :
       /\ \A f \in Files : t[f] # Conflict
       /\ ~MergeRefused(c, t)
       /\ Commit({HEAD, c}, t, Files)
       /\ Checkout(t)
  /\ local' = [local EXCEPT ![current] = Len(commits')]
  /\ Returns(x)
  /\ UNCHANGED <<tracking, origin, upstream, current, mergeHead, gitGhosts, counts>>

(* Mutant: only the error is reported. *)
AfterMergeReturns(x) == Returns(x) /\ UNCHANGED counts

AfterMerge(x) ==
  \/ Goes(x, "abort") /\ UNCHANGED counts
  \/ kills < MaxKills /\ kills' = kills + 1 /\ Returns(x) /\ UNCHANGED calls

MergeConflict(x) ==
  LET c == tracking[call[x].branch] IN
  /\ At(x, "merge", "run") /\ c # 0 /\ c \notin Past(HEAD) /\ HEAD \notin Past(c)
  /\ \E t \in Merged(c) :
       /\ \E f \in Files : t[f] = Conflict
       /\ ~MergeRefused(c, t)
       /\ index' = t
       /\ work' = [f \in Files |-> IF t[f] = Tree(HEAD)[f] THEN work[f] ELSE t[f]]
  /\ mergeHead' = c
  /\ AfterMerge(x)
  /\ UNCHANGED <<commits, refs, current, gitGhosts>>

MergeFails(x) ==
  LET c == tracking[call[x].branch] IN
  /\ At(x, "merge", "run")
  /\ IF c = 0 \/ mergeHead # 0 THEN TRUE
     ELSE c \notin Past(HEAD) /\ \E t \in Merged(c) : MergeRefused(c, t)
  /\ AfterMerge(x)
  /\ UNCHANGED <<commits, refs, checkout, gitGhosts>>

(* git merge --abort, of whichever merge is in progress.  It resets the    *)
(* files of the merge, keeps the others, and gives up when a file of the   *)
(* merge was edited.  The tool does not look at its result.                *)
CanAbort ==
  /\ mergeHead # 0
  /\ \A f \in Staged : index[f] = Conflict \/ work[f] = index[f]
MergeAbort(x) ==
  /\ At(x, "merge", "abort") /\ Returns(x)
  /\ IF CanAbort
       THEN /\ work' = [f \in Files |-> IF f \in Staged THEN Tree(HEAD)[f] ELSE work[f]]
            /\ index' = Tree(HEAD) /\ mergeHead' = 0
       ELSE UNCHANGED <<index, work, mergeHead>>
  /\ UNCHANGED <<commits, refs, current, gitGhosts, counts>>

-----------------------------------------------------------------------------
(* git_commit: git add, the second check, git commit *)

GitAdd(x) ==
  LET asked == call[x].files
      known == \A f \in asked : index[f] # NoFile \/ work[f] # NoFile
  IN
  /\ At(x, "commit", "run")
  /\ IF known THEN /\ index' = [f \in Files |-> IF f \in asked THEN work[f] ELSE index[f]]
                   /\ Goes(x, "check")
              ELSE Returns(x) /\ UNCHANGED index
  /\ late' = (late \/ mergeHead # 0)
  /\ safe' = IF mergeHead = 0 THEN safe
             ELSE [f \in Files |-> IF f \in asked THEN NoFile ELSE safe[f]]
  /\ UNCHANGED <<commits, refs, current, work, mergeHead, fileEdits, counts>>

CheckStaged(x) ==
  /\ At(x, "commit", "check")
  /\ IF Staged \subseteq call[x].files /\ Staged # {} THEN Goes(x, "commit") ELSE Returns(x)
  /\ UNCHANGED <<commits, refs, checkout, gitGhosts, counts>>

(* Mutant: git commit without the paths takes all of the index. *)
CommitTreeIndex(asked) == index

(* git commit -- paths: the files named, as they are in the work tree *)
CommitTree(asked) == [f \in Files |-> IF f \in asked THEN work[f] ELSE Tree(HEAD)[f]]

CommitPaths(x) ==
  LET asked == call[x].files IN
  /\ At(x, "commit", "commit")
  /\ mergeHead = 0 /\ CommitTree(asked) # Tree(HEAD)
  /\ Commit({HEAD}, CommitTree(asked), asked)
  /\ local' = [local EXCEPT ![current] = Len(commits')]
  /\ index' = [f \in Files |-> IF f \in asked THEN work[f] ELSE index[f]]
  /\ Returns(x)
  /\ UNCHANGED <<tracking, origin, upstream, current, work, mergeHead, gitGhosts, counts>>

(* Nothing to commit, a merge in progress, or git fails for another        *)
(* reason: what was added stays staged.                                    *)
CommitFails(x) ==
  /\ At(x, "commit", "commit") /\ Returns(x)
  /\ UNCHANGED <<commits, refs, checkout, gitGhosts, counts>>

-----------------------------------------------------------------------------
(* git push --set-upstream origin branch, without force *)
Push(x) ==
  LET b == call[x].branch IN
  /\ At(x, "push", "run") /\ Returns(x)
  /\ IF local[b] # 0 /\ (origin[b] # 0 => origin[b] \in Past(local[b]))
       THEN /\ origin' = [origin EXCEPT ![b] = local[b]]
            /\ tracking' = [tracking EXCEPT ![b] = local[b]]
            /\ upstream' = upstream \cup {b}
       ELSE UNCHANGED <<tracking, origin, upstream>>
  /\ UNCHANGED <<commits, local, checkout, gitGhosts, counts>>

(* git branch -d: only what its upstream, or else HEAD, contains *)
DeleteBranch(x) ==
  LET b == call[x].branch
      onto == IF b \in upstream /\ tracking[b] # 0 THEN tracking[b] ELSE HEAD
  IN
  /\ At(x, "delete", "run") /\ Returns(x)
  /\ IF local[b] # 0 /\ b # current /\ local[b] \in Past(onto)
       THEN local' = [local EXCEPT ![b] = 0] /\ upstream' = upstream \ {b}
       ELSE UNCHANGED <<local, upstream>>
  /\ UNCHANGED <<commits, tracking, origin, checkout, gitGhosts, counts>>

(* git push --delete *)
DeleteRemoteBranch(x, b) ==
  /\ Called(x) /\ origin[b] # 0
  /\ origin' = [origin EXCEPT ![b] = 0] /\ tracking' = [tracking EXCEPT ![b] = 0]
  /\ UNCHANGED <<commits, local, upstream, checkout, call, gitGhosts>>

-----------------------------------------------------------------------------
(* An edit of the work tree, by a tool, a command or a user *)
EditFile(f) ==
  /\ fileEdits < MaxFileEdits /\ fileEdits' = fileEdits + 1
  /\ work' = [work EXCEPT ![f] = fileEdits + 1]
  /\ safe' = [safe EXCEPT ![f] = IF mergeHead = 0 THEN fileEdits + 1 ELSE NoFile]
  /\ late' = (late \/ mergeHead # 0)
  /\ UNCHANGED <<commits, refs, current, index, mergeHead, call, counts>>

(* Another clone pushes a commit. *)
PeerPushes(b, f) ==
  /\ origin[b] # 0 /\ fileEdits < MaxFileEdits /\ fileEdits' = fileEdits + 1
  /\ Commit({origin[b]}, [Tree(origin[b]) EXCEPT ![f] = fileEdits + 1], {f})
  /\ origin' = [origin EXCEPT ![b] = Len(commits')]
  /\ UNCHANGED <<local, tracking, upstream, checkout, call, safe, late, counts>>

ToolStep(x) ==
  \/ Pull(x) \/ MergeNothing(x) \/ FastForward(x) \/ MergeCommit(x)
  \/ MergeConflict(x) \/ MergeFails(x) \/ MergeAbort(x)
  \/ GitAdd(x) \/ CheckStaged(x) \/ CommitPaths(x) \/ CommitFails(x)
  \/ Push(x) \/ DeleteBranch(x)

ToolCall(x) ==
  \/ BeginPull(x) \/ BeginPush(x) \/ Fetch(x)
  \/ \E b \in Heads : \/ BeginMerge(x, b) \/ BeginDelete(x, b) \/ CreateBranch(x, b)
                      \/ SwitchBranch(x, b) \/ DeleteRemoteBranch(x, b)
  \/ \E asked \in (SUBSET Files) \ {{}} : BeginCommit(x, asked)

GitNext ==
  \/ \E x \in Callers : ToolStep(x) \/ ToolCall(x)
  \/ \E f \in Files : EditFile(f) \/ \E b \in Heads : PeerPushes(b, f)

GitSpec == GitInit /\ [][GitNext]_gitVars

-----------------------------------------------------------------------------
(* Every commit of git_commit changes only the files that its caller named,*)
(* however staging, edits, switches and merges of others fall between its  *)
(* two checks and the commit.                                              *)
CommitScoped ==
  \A c \in 1..Len(commits) :
    \A f \in Files \ commits[c].asked : Tree(c)[f] = Tree(commits[c].parent)[f]

(* No tool destroys work: the last edit of a file is in the work tree or   *)
(* in a commit, and the files of a merge that failed are back as they were *)
(* once its call has ended.  Out of reach of the tools are a merge that    *)
(* was killed by its timeout, and what others edit or stage between a      *)
(* merge and its abort: the abort may give up, or reset that as well.      *)
WorkKept ==
  /\ \A f \in Files :
       safe[f] # NoFile => work[f] = safe[f] \/ \E c \in 1..Len(commits) : Tree(c)[f] = safe[f]
  /\ kills = 0 /\ ~late /\ (\A x \in Callers : ~At(x, "merge", "abort")) =>
       /\ mergeHead = 0
       /\ \A f \in Files : index[f] # Conflict /\ work[f] # Conflict
=============================================================================
