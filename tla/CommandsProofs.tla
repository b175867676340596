--------------------------- MODULE CommandsProofs ---------------------------
(***************************************************************************)
(* Theorems about what a Runtime runs for its clients, for any number of   *)
(* calls, files, branches, processes and bytes: delegations to an external *)
(* agent, execution transactions, and the output that is kept and paged.   *)
(***************************************************************************)
EXTENDS Delegation, Transactions, OutputBuffers, FiniteSetTheorems, SequenceTheorems, TLAPS

-----------------------------------------------------------------------------
(* Delegation.  What a call may have written at each of its steps, and     *)
(* what its worktree holds: its own edits, deletions, or the base.  What   *)
(* each check found stays true of a call that nothing overtook until its   *)
(* edits land.                                                             *)

Checking == {"head", "branch", "diff", "cached", "additions", "apply"}
DelegationSteps == {"call", "base", "named", "add", "run", "inspect", "finally", "done"} \cup Checking
Results == {"none", "error", "unchanged", "applied", "uncleaned"}
Texts == Delegations \cup {Original, ByUser, NoSource}
Positions == [commit : Nat, branch : Labels]
Places == [commit : Nat, branch : Labels \cup {NoSource}]
TaskRecord == [at : DelegationSteps, mode : DelegationModes, retry : BOOLEAN, attempts : Nat,
               from : Places, base : [Sources -> Texts], result : Results,
               overtaken : BOOLEAN, on : Places, clean : BOOLEAN, over : [Sources -> Texts]]
TreeRecord == [exists : BOOLEAN, files : [Sources -> Texts], moved : BOOLEAN]

DlgType ==
  /\ position \in Positions
  /\ committed \in [Sources -> Texts] /\ index \in [Sources -> Texts]
  /\ present \in [Sources -> Texts]
  /\ task \in [Delegations -> TaskRecord]
  /\ worktree \in [Delegations -> TreeRecord]
  /\ landed \in [Delegations -> SUBSET Sources]

Attempted(x) == task[x].attempts \in 1..2 /\ (task[x].attempts = 2 => task[x].retry)

OwnFiles(x) ==
  \A f \in Sources : worktree[x].files[f] \in {x, NoSource, task[x].base[f]}

CallInv(x) ==
  /\ task[x].at \notin {"finally", "done"} => landed[x] = {}
  /\ task[x].at \in {"call", "base", "named", "add"} => ~worktree[x].exists
  /\ task[x].at \in {"run", "inspect"} \cup Checking => Attempted(x) /\ OwnFiles(x)
  /\ task[x].at \in Checking => task[x].mode = "workspace_edit" /\ Deleted(x) = {}
  /\ task[x].at = "finally" =>
       /\ landed[x] # {} =>
            /\ task[x].mode = "workspace_edit" /\ Attempted(x)
            /\ \A f \in landed[x] : task[x].over[f] = task[x].base[f]
       /\ task[x].result = "applied" => landed[x] = Changed(x) /\ Deleted(x) = {}
       /\ task[x].result # "applied" => landed[x] = {} \/ x \in killed
  /\ task[x].at = "done" /\ task[x].result \in {"error", "unchanged"} =>
       (landed[x] = {} \/ x \in killed) /\ ~worktree[x].exists

Checked(x) ==
  ~task[x].overtaken =>
    /\ task[x].at \in PastHead => task[x].from.commit = position.commit
    /\ task[x].at \in PastBranch => task[x].from.branch = position.branch
    /\ task[x].at \in PastTree => CleanTree
    /\ task[x].at \in {"additions", "apply"} => CleanIndex
    /\ task[x].at = "finally" /\ landed[x] # {} => task[x].on = task[x].from /\ task[x].clean

Signed == \A x \in Delegations : \A f \in Sources : present[f] = x => f \in landed[x]

DlgInv == DlgType /\ Signed /\ \A x \in Delegations : CallInv(x) /\ Checked(x)

(* The records that calls start with and end in are well formed. *)
LEMMA TaskTypes ==
  /\ NewTask \in TaskRecord /\ NewTask.at = "call" /\ NewTask.result = "none"
  /\ NoWorktree \in TreeRecord /\ ~NoWorktree.exists
BY DEF NewTask, NoWorktree, NoTree, Nowhere, Places, TaskRecord, TreeRecord, DelegationSteps,
   DelegationModes, Results, Texts

(* Nothing but that it was overtaken changed about a call. *)
Alike(r, t) ==
  /\ r.at = t.at /\ r.mode = t.mode /\ r.retry = t.retry /\ r.attempts = t.attempts
  /\ r.from = t.from /\ r.base = t.base /\ r.result = t.result
  /\ r.on = t.on /\ r.clean = t.clean /\ r.over = t.over

(* A step of somebody else leaves what is said of a call as it was. *)
LEMMA OtherCalls ==
  ASSUME DlgInv, NEW y \in Delegations,
         Alike(task'[y], task[y]), worktree'[y] = worktree[y], landed'[y] = landed[y],
         killed \subseteq killed'
  PROVE  CallInv(y)'
BY DEF Alike, DlgInv, CallInv, Attempted, OwnFiles, Changed, Deleted

(* A step of a call that leaves the checkout alone *)
LEMMA QuietCall ==
  ASSUME DlgInv, NEW x \in Delegations, NEW r \in TaskRecord, NEW w \in TreeRecord,
         task' = [task EXCEPT ![x] = r], worktree' = [worktree EXCEPT ![x] = w],
         UNCHANGED <<userVars, present, landed, killed>>,
         CallInv(x)', Checked(x)'
  PROVE  DlgInv'
<1>1. DlgType' /\ Signed'
  BY DEF DlgInv, DlgType, Signed, userVars
<1>2. ASSUME NEW y \in Delegations, y # x PROVE CallInv(y)' /\ Checked(y)'
  <2>1. task'[y] = task[y] /\ worktree'[y] = worktree[y] /\ landed'[y] = landed[y]
    BY <1>2 DEF DlgInv, DlgType
  <2>2. CallInv(y)'
    BY <1>2, <2>1, OtherCalls DEF Alike
  <2>3. UNCHANGED <<position, committed, index, present>> /\ Checked(y)
    BY DEF userVars, DlgInv
  <2>4. Checked(y)'
    BY <2>1, <2>3 DEF Checked, CleanTree, CleanIndex
  <2>5. QED
    BY <2>2, <2>4
<1>3. QED
  BY <1>1, <1>2 DEF DlgInv

(* A step that moves the record of a call and nothing else *)
LEMMA RecordCall ==
  ASSUME DlgInv, NEW x \in Delegations, NEW r \in TaskRecord,
         task' = [task EXCEPT ![x] = r], UNCHANGED <<userVars, present, worktree, landed, killed>>,
         CallInv(x)', Checked(x)'
  PROVE  DlgInv'
<1>1. worktree[x] \in TreeRecord /\ worktree' = [worktree EXCEPT ![x] = worktree[x]]
  BY DEF DlgInv, DlgType
<1>2. QED
  BY <1>1, QuietCall

(* A call that concludes without having written *)
LEMMA ConcludeCall ==
  ASSUME DlgInv, NEW x \in Delegations, NEW result \in {"error", "unchanged"},
         Conclude(x, result), landed[x] = {},
         UNCHANGED <<userVars, present, worktree, landed, killed>>
  PROVE  DlgInv'
<1> DEFINE r == [task[x] EXCEPT !.at = "finally", !.result = result]
<1>1. task \in [Delegations -> TaskRecord] /\ task[x] \in TaskRecord
  BY DEF DlgInv, DlgType
<1>2. r \in TaskRecord /\ task' = [task EXCEPT ![x] = r]
  BY <1>1 DEF Conclude, TaskRecord, DelegationSteps, Results
<1>3. task'[x].at = "finally" /\ task'[x].result = result /\ landed'[x] = {}
  BY <1>1, <1>2 DEF TaskRecord
<1>4. CallInv(x)' /\ Checked(x)'
  BY <1>3 DEF CallInv, Checked, Checking, PastHead, PastBranch, PastTree
<1>5. QED
  BY <1>2, <1>4, RecordCall

(* A check that passes, with what it found *)
LEMMA CheckPasses ==
  ASSUME DlgInv, NEW x \in Delegations, NEW next \in Checking, task[x].at \in Checking \cup {"inspect"},
         Step(x, next), UNCHANGED <<userVars, present, worktree, landed, killed>>,
         task[x].mode = "workspace_edit", Deleted(x) = {},
         ~task[x].overtaken =>
           /\ next \in PastHead => task[x].from.commit = position.commit
           /\ next \in PastBranch => task[x].from.branch = position.branch
           /\ next \in PastTree => CleanTree
           /\ next \in {"additions", "apply"} => CleanIndex
  PROVE  DlgInv'
<1> DEFINE r == [task[x] EXCEPT !.at = next]
<1>1. task \in [Delegations -> TaskRecord] /\ task[x] \in TaskRecord /\ CallInv(x)
  BY DEF DlgInv, DlgType
<1>2. r \in TaskRecord /\ task' = [task EXCEPT ![x] = r]
  BY <1>1 DEF Step, TaskRecord, DelegationSteps, Checking
<1>3. /\ task'[x].at = next /\ task'[x].mode = task[x].mode /\ task'[x].base = task[x].base
      /\ task'[x].retry = task[x].retry /\ task'[x].attempts = task[x].attempts
      /\ task'[x].from = task[x].from /\ task'[x].overtaken = task[x].overtaken
  BY <1>1, <1>2 DEF TaskRecord
<1>4. landed[x] = {} /\ Attempted(x) /\ OwnFiles(x)
  BY <1>1 DEF CallInv, Checking
<1>5. CallInv(x)'
  BY <1>3, <1>4 DEF CallInv, Checking, Attempted, OwnFiles, Changed, Deleted
<1>6. UNCHANGED <<position, committed, index, present>>
  BY DEF userVars
<1>7. Checked(x)'
  BY <1>3, <1>6 DEF Checked, Checking, CleanTree, CleanIndex
<1>8. QED
  BY <1>2, <1>5, <1>7, RecordCall

(* The steps of a call that write nowhere keep the inductive invariant. *)
LEMMA QuietSteps ==
  ASSUME DlgInv, NEW x \in Delegations,
         \/ \E mode \in DelegationModes, retry \in BOOLEAN : Preflight(x, mode, retry)
         \/ ReadBase(x) \/ ReadBranch(x) \/ AddFails(x) \/ AgentFails(x) \/ Inspect(x)
         \/ CheckHead(x) \/ CheckBranch(x) \/ CheckTree(x) \/ CheckIndex(x) \/ CheckAdditions(x)
  PROVE  DlgInv'
<1>t. /\ task \in [Delegations -> TaskRecord] /\ task[x] \in TaskRecord
      /\ CallInv(x) /\ Checked(x) /\ position \in Positions /\ committed \in [Sources -> Texts]
  BY DEF DlgInv, DlgType
<1> USE DEF Checking
<1>0. ASSUME NEW r \in TaskRecord, task' = [task EXCEPT ![x] = r],
             r.at \in {"base", "named", "add"}, task[x].at \in {"call", "base", "named", "add"},
             UNCHANGED <<userVars, present, worktree, landed, killed>>
      PROVE  DlgInv'
  <2>1. task'[x] = r
    BY <1>t, <1>0
  <2>2. CallInv(x)' /\ Checked(x)'
    BY <1>t, <1>0, <2>1 DEF CallInv, Checked, PastHead, PastBranch, PastTree
  <2>3. QED
    BY <1>0, <2>2, RecordCall
<1>1. ASSUME NEW mode \in DelegationModes, NEW retry \in BOOLEAN, Preflight(x, mode, retry)
      PROVE  DlgInv'
  <2> DEFINE r == [task[x] EXCEPT !.at = "base", !.mode = mode, !.retry = retry]
  <2>1. r \in TaskRecord /\ r.at = "base" /\ task' = [task EXCEPT ![x] = r]
    BY <1>t, <1>1 DEF Preflight, TaskRecord, DelegationSteps
  <2> QED
    BY <1>0, <1>1, <2>1 DEF Preflight
<1>2. CASE ReadBase(x)
  <2> DEFINE at == [task[x].from EXCEPT !.commit = position.commit]
             r == [task[x] EXCEPT !.at = "named", !.from = at, !.base = committed]
  <2>1. at \in Places
    BY <1>t DEF TaskRecord, Places, Positions
  <2>2. task' = [task EXCEPT ![x] = r]
    BY <1>t, <1>2 DEF ReadBase, TaskRecord
  <2> HIDE DEF at
  <2>3. r \in TaskRecord /\ r.at = "named"
    BY <1>t, <2>1 DEF TaskRecord, DelegationSteps
  <2> QED
    BY <1>0, <1>2, <2>2, <2>3 DEF ReadBase
<1>3. CASE ReadBranch(x)
  <2> DEFINE at == [task[x].from EXCEPT !.branch = position.branch]
             r == [task[x] EXCEPT !.at = "add", !.from = at]
  <2>1. at \in Places
    BY <1>t DEF TaskRecord, Places, Positions
  <2>2. task' = [task EXCEPT ![x] = r]
    BY <1>t, <1>3 DEF ReadBranch, TaskRecord
  <2> HIDE DEF at
  <2>3. r \in TaskRecord /\ r.at = "add"
    BY <1>t, <2>1 DEF TaskRecord, DelegationSteps
  <2> QED
    BY <1>0, <1>3, <2>2, <2>3 DEF ReadBranch
<1>4. CASE AddFails(x)
  <2> DEFINE r == [NewTask EXCEPT !.at = "done", !.result = "error"]
  <2>1. r \in TaskRecord /\ r.at = "done" /\ task' = [task EXCEPT ![x] = r]
        /\ UNCHANGED <<userVars, present, worktree, landed, killed>>
    BY <1>t, <1>4, TaskTypes DEF AddFails, Return, TaskRecord, DelegationSteps, Results
  <2>2. task'[x].at = "done"
    BY <1>t, <2>1
  <2>3. CallInv(x)' /\ Checked(x)'
    BY <1>t, <1>4, <2>1, <2>2 DEF AddFails, CallInv, Checked, PastHead, PastBranch, PastTree
  <2> QED
    BY <2>1, <2>3, RecordCall
<1>5. CASE AgentFails(x)
  BY <1>t, <1>5, ConcludeCall DEF AgentFails, CallInv
<1>6. CASE Inspect(x)
  <2>1. CASE ~Allowed(x) \/ Changed(x) = {}
    BY <1>t, <1>6, <2>1, ConcludeCall DEF Inspect, CallInv
  <2>2. CASE Allowed(x) /\ Changed(x) # {}
    <3>1. task[x].mode = "workspace_edit" /\ Deleted(x) = {}
      BY <2>2 DEF Allowed
    <3> QED
      BY <1>6, <2>2, <3>1, CheckPasses DEF Inspect, PastHead, PastBranch, PastTree
  <2> QED
    BY <2>1, <2>2
<1>7. ASSUME task[x].at \in Checking, Conclude(x, "error"),
             UNCHANGED <<userVars, present, worktree, landed, killed>>
      PROVE  DlgInv'
  BY <1>t, <1>7, ConcludeCall DEF CallInv
<1>8. task[x].at \in Checking => task[x].mode = "workspace_edit" /\ Deleted(x) = {}
  BY <1>t DEF CallInv
<1> USE DEF PastHead, PastBranch, PastTree
<1>9. CASE CheckHead(x)
  <2>1. CASE position.commit = task[x].from.commit
    BY <1>8, <1>9, <2>1, CheckPasses DEF CheckHead, Check
  <2> QED
    BY <1>7, <1>9, <2>1 DEF CheckHead, Check
<1>10. CASE CheckBranch(x)
  <2>1. CASE position.branch = task[x].from.branch
    BY <1>t, <1>8, <1>10, <2>1, CheckPasses DEF CheckBranch, Check, Checked
  <2> QED
    BY <1>7, <1>10, <2>1 DEF CheckBranch, Check
<1>11. CASE CheckTree(x)
  <2>1. CASE CleanTree
    BY <1>t, <1>8, <1>11, <2>1, CheckPasses DEF CheckTree, Check, Checked
  <2> QED
    BY <1>7, <1>11, <2>1 DEF CheckTree, Check
<1>12. CASE CheckIndex(x)
  <2>1. CASE CleanIndex
    BY <1>t, <1>8, <1>12, <2>1, CheckPasses DEF CheckIndex, Check, Checked
  <2> QED
    BY <1>7, <1>12, <2>1 DEF CheckIndex, Check
<1>13. CASE CheckAdditions(x)
  <2>1. CASE Step(x, "apply")
    BY <1>t, <1>8, <1>13, <2>1, CheckPasses DEF CheckAdditions, Check, Checked
  <2> QED
    BY <1>7, <1>13, <2>1 DEF CheckAdditions, Check
<1>14. QED
  BY <1>1, <1>2, <1>3, <1>4, <1>5, <1>6, <1>9, <1>10, <1>11, <1>12, <1>13

(* So do the steps on the worktree: it is made, worked in and removed. *)
LEMMA WorktreeSteps ==
  ASSUME DlgInv, NEW x \in Delegations,
         \/ AddWorktree(x) \/ RemoveWorktree(x) \/ RemoveFails(x)
         \/ \E edited, deleted \in SUBSET Sources, commits \in BOOLEAN :
              \/ AgentSucceeds(x, edited, deleted, commits)
              \/ AgentRetries(x, edited, deleted, commits)
  PROVE  DlgInv'
<1>t. /\ task \in [Delegations -> TaskRecord] /\ task[x] \in TaskRecord /\ CallInv(x)
      /\ worktree \in [Delegations -> TreeRecord] /\ worktree[x] \in TreeRecord
  BY DEF DlgInv, DlgType
<1> USE DEF CallInv, Attempted, OwnFiles, Changed, Deleted, Checking
<1>1. ASSUME NEW r \in TaskRecord, NEW w \in TreeRecord,
             task' = [task EXCEPT ![x] = r], worktree' = [worktree EXCEPT ![x] = w],
             UNCHANGED <<userVars, present, landed, killed>>, CallInv(x)',
             r.at \in {"run", "inspect", "done"}
      PROVE  DlgInv'
  <2>1. task'[x] = r
    BY <1>t, <1>1
  <2>2. Checked(x)'
    BY <1>1, <2>1 DEF Checked, PastHead, PastBranch, PastTree
  <2>3. QED
    BY <1>1, <2>2, QuietCall
<1>2. CASE AddWorktree(x)
  <2> DEFINE r == [task[x] EXCEPT !.at = "run", !.attempts = 1]
             w == [exists |-> TRUE, files |-> task[x].base, moved |-> FALSE]
  <2>1. r \in TaskRecord /\ w \in TreeRecord /\ r.at = "run" /\ r.base = task[x].base
        /\ r.attempts = 1
    BY <1>t DEF TaskRecord, TreeRecord, DelegationSteps
  <2>2. task' = [task EXCEPT ![x] = r] /\ worktree' = [worktree EXCEPT ![x] = w]
        /\ UNCHANGED <<userVars, present, landed, killed>>
    BY <1>t, <1>2 DEF AddWorktree
  <2>3. task'[x] = r /\ worktree'[x] = w /\ w.files = task[x].base
    BY <1>t, <2>2
  <2> HIDE DEF r, w
  <2>4. CallInv(x)'
    BY <1>t, <1>2, <2>1, <2>2, <2>3 DEF AddWorktree
  <2> QED
    BY <1>1, <2>1, <2>2, <2>4
<1>3. ASSUME NEW edited \in SUBSET Sources, NEW deleted \in SUBSET Sources, NEW commits \in BOOLEAN,
             AgentWorks(x, edited, deleted, commits)
      PROVE  \E w \in TreeRecord :
               /\ worktree' = [worktree EXCEPT ![x] = w]
               /\ \A f \in Sources : w.files[f] \in {x, NoSource, worktree[x].files[f]}
  <2> DEFINE files == [f \in Sources |-> IF f \in edited THEN x
                         ELSE IF f \in deleted THEN NoSource ELSE worktree[x].files[f]]
             w == [worktree[x] EXCEPT !.moved = @ \/ commits, !.files = files]
  <2>1. files \in [Sources -> Texts]
    BY <1>t DEF TreeRecord, Texts
  <2>2. w \in TreeRecord /\ w.files = files
    BY <1>t, <2>1 DEF TreeRecord
  <2>3. worktree' = [worktree EXCEPT ![x] = w]
    BY <1>t, <1>3 DEF AgentWorks
  <2>4. \A f \in Sources : w.files[f] \in {x, NoSource, worktree[x].files[f]}
    BY <2>2
  <2> QED
    BY <2>2, <2>3, <2>4
<1>4. ASSUME NEW edited \in SUBSET Sources, NEW deleted \in SUBSET Sources, NEW commits \in BOOLEAN,
             AgentWorks(x, edited, deleted, commits), task[x].at = "run",
             NEW r \in TaskRecord, task' = [task EXCEPT ![x] = r],
             r.at \in {"run", "inspect"}, r.base = task[x].base,
             r.attempts \in 1..2 /\ (r.attempts = 2 => r.retry),
             UNCHANGED <<userVars, present, landed, killed>>
      PROVE  DlgInv'
  <2>1. PICK w \in TreeRecord :
               /\ worktree' = [worktree EXCEPT ![x] = w]
               /\ \A f \in Sources : w.files[f] \in {x, NoSource, worktree[x].files[f]}
    BY <1>3, <1>4
  <2>2. task'[x] = r /\ worktree'[x] = w
    BY <1>t, <1>4, <2>1
  <2>3. CallInv(x)'
    BY <1>t, <1>4, <2>1, <2>2
  <2> QED
    BY <1>1, <1>4, <2>1, <2>3
<1>5. ASSUME NEW edited \in SUBSET Sources, NEW deleted \in SUBSET Sources, NEW commits \in BOOLEAN,
             \/ AgentSucceeds(x, edited, deleted, commits)
             \/ AgentRetries(x, edited, deleted, commits)
      PROVE  DlgInv'
  <2>1. CASE AgentSucceeds(x, edited, deleted, commits)
    <3> DEFINE r == [task[x] EXCEPT !.at = "inspect"]
    <3>1. r \in TaskRecord /\ r.at = "inspect" /\ r.base = task[x].base
          /\ r.attempts \in 1..2 /\ (r.attempts = 2 => r.retry)
          /\ task' = [task EXCEPT ![x] = r]
      BY <1>t, <2>1 DEF AgentSucceeds, Step, TaskRecord, DelegationSteps
    <3> QED
      BY <1>4, <2>1, <3>1 DEF AgentSucceeds
  <2>2. CASE AgentRetries(x, edited, deleted, commits)
    <3> DEFINE r == [task[x] EXCEPT !.attempts = @ + 1]
    <3>0. task[x].attempts = 1 /\ task[x].retry /\ task[x].at = "run"
      BY <2>2 DEF AgentRetries, AttemptsLeft
    <3>1. r \in TaskRecord /\ r.at = "run" /\ r.base = task[x].base
          /\ r.attempts \in 1..2 /\ (r.attempts = 2 => r.retry)
      BY <1>t, <3>0 DEF TaskRecord
    <3>2. task' = [task EXCEPT ![x] = r]
      BY <1>t, <2>2 DEF AgentRetries
    <3> QED
      BY <1>4, <2>2, <3>1, <3>2 DEF AgentRetries
  <2> QED
    BY <1>5, <2>1, <2>2
<1>6. CASE RemoveWorktree(x)
  <2> DEFINE r == [NewTask EXCEPT !.at = "done", !.result = task[x].result]
  <2>1. r \in TaskRecord /\ NoWorktree \in TreeRecord
        /\ r.at = "done" /\ r.result = task[x].result
    BY <1>t, TaskTypes DEF TaskRecord, DelegationSteps
  <2>2. task' = [task EXCEPT ![x] = r] /\ worktree' = [worktree EXCEPT ![x] = NoWorktree]
        /\ UNCHANGED <<userVars, present, landed, killed>>
    BY <1>t, <1>6 DEF RemoveWorktree, Return
  <2> HIDE DEF r
  <2>3. task'[x].at = "done" /\ task'[x].result = task[x].result /\ ~worktree'[x].exists
    BY <1>t, <2>1, <2>2, TaskTypes
  <2>4. CallInv(x)'
    BY <1>t, <1>6, <2>2, <2>3 DEF RemoveWorktree
  <2> QED
    BY <1>1, <2>1, <2>2, <2>4
<1>7. CASE RemoveFails(x)
  <2> DEFINE r == [NewTask EXCEPT !.at = "done", !.result = "uncleaned"]
  <2>1. r \in TaskRecord /\ r.at = "done" /\ r.result = "uncleaned"
    BY <1>t, TaskTypes DEF TaskRecord, DelegationSteps, Results
  <2>2. task' = [task EXCEPT ![x] = r]
        /\ UNCHANGED <<userVars, present, worktree, landed, killed>>
    BY <1>t, <1>7 DEF RemoveFails, Return
  <2> HIDE DEF r
  <2>3. task'[x] = r
    BY <1>t, <2>2
  <2>4. CallInv(x)' /\ Checked(x)'
    BY <1>t, <2>1, <2>2, <2>3 DEF Checked, PastHead, PastBranch, PastTree
  <2> QED
    BY <2>1, <2>2, <2>4, RecordCall
<1>8. QED
  BY <1>2, <1>5, <1>6, <1>7

(* So does git apply, complete or killed: what it writes to a file is the  *)
(* call's own edit, since deletions were refused and the base is not       *)
(* written.                                                                *)
LEMMA ApplySteps ==
  ASSUME DlgInv, NEW x \in Delegations,
         GitApply(x) \/ \E files \in SUBSET Sources : GitApplyKilled(x, files)
  PROVE  DlgInv'
<1>t. /\ task \in [Delegations -> TaskRecord] /\ task[x] \in TaskRecord
      /\ CallInv(x) /\ Checked(x)
      /\ worktree \in [Delegations -> TreeRecord] /\ worktree[x] \in TreeRecord
      /\ task[x].at = "apply" /\ position \in Positions /\ present \in [Sources -> Texts]
  BY DEF DlgInv, DlgType, GitApply, GitApplyKilled
<1>1. ASSUME NEW files \in SUBSET Changed(x), NEW result \in {"applied", "error"},
             Applies(x), Lands(x, files, result),
             UNCHANGED <<userVars, worktree>>, killed \subseteq killed',
             \/ result = "applied" /\ files = Changed(x)
             \/ result = "error" /\ x \in killed'
      PROVE  DlgInv'
  <2> DEFINE clean == CleanTree /\ CleanIndex
             r == [task[x] EXCEPT !.at = "finally", !.result = result, !.on = position,
                     !.clean = clean, !.over = present]
  <2>0. clean \in BOOLEAN /\ (clean <=> CleanTree /\ CleanIndex) /\ position \in Places
    BY <1>t DEF CleanTree, CleanIndex, Positions, Places
  <2>1. task' = [Overtake(Delegations \ {x}, PastTree) EXCEPT ![x] = r]
    BY <1>1 DEF Lands
  <2> HIDE DEF clean
  <2>2. /\ r \in TaskRecord /\ r.at = "finally" /\ r.result = result /\ r.on = position
        /\ r.clean = clean /\ r.over = present /\ r.mode = task[x].mode
        /\ r.retry = task[x].retry /\ r.attempts = task[x].attempts /\ r.base = task[x].base
        /\ r.from = task[x].from /\ r.overtaken = task[x].overtaken
    BY <1>t, <1>1, <2>0 DEF TaskRecord, DelegationSteps, Results
  <2> HIDE DEF r
  <2>3. task'[x] = r
    BY <2>1 DEF Overtake
  <2>4. ASSUME NEW y \in Delegations, y # x
        PROVE  /\ task'[y] \in TaskRecord /\ Alike(task'[y], task[y])
               /\ task'[y].overtaken = (task[y].overtaken \/ task[y].at \in PastTree)
    <3>1. task'[y] = [task[y] EXCEPT !.overtaken =
                        @ \/ (y \in Delegations \ {x} /\ task[y].at \in PastTree)]
      BY <2>1, <2>4 DEF Overtake
    <3>2. task[y] \in TaskRecord
      BY <1>t
    <3>3. QED
      BY <2>4, <3>1, <3>2 DEF TaskRecord, Alike
  <2>5. task' \in [Delegations -> TaskRecord]
    <3>1. DOMAIN task' = Delegations /\ task' = [y \in Delegations |-> task'[y]]
      BY <2>1 DEF Overtake
    <3>2. QED
      BY <2>2, <2>3, <2>4, <3>1
  <2>6. files \in SUBSET Sources /\ landed' = [landed EXCEPT ![x] = files]
    BY <1>1 DEF Lands, Changed
  <2>7. present' \in [Sources -> Texts]
    BY <1>t, <1>1 DEF Lands, TreeRecord
  <2>8. DlgType'
    BY <1>1, <2>5, <2>6, <2>7 DEF DlgInv, DlgType, userVars
  <2>9. landed'[x] = files /\ \A f \in files : present[f] = task[x].base[f]
    BY <1>1, <2>6 DEF Applies, DlgInv, DlgType
  <2>10. CallInv(x)'
    BY <1>t, <1>1, <2>2, <2>3, <2>9 DEF CallInv, Attempted, Changed, Deleted, Checking
  <2>11. Checked(x)'
    <3>1. ASSUME ~r.overtaken PROVE r.on = r.from /\ r.clean
      <4>1. CleanTree /\ CleanIndex /\ task[x].from.commit = position.commit
            /\ task[x].from.branch = position.branch
        BY <1>t, <2>2, <3>1 DEF Checked, PastHead, PastBranch, PastTree
      <4>2. task[x].from = position
        BY <1>t, <4>1 DEF TaskRecord, Places, Positions
      <4>3. QED
        BY <2>0, <2>2, <4>1, <4>2
    <3>2. QED
      BY <2>2, <2>3, <3>1 DEF Checked, PastHead, PastBranch, PastTree
  <2>12. ASSUME NEW y \in Delegations, y # x PROVE CallInv(y)' /\ Checked(y)'
    <3>1. worktree'[y] = worktree[y] /\ landed'[y] = landed[y]
      BY <1>1, <2>6, <2>12 DEF DlgInv, DlgType
    <3>2. CallInv(y)'
      BY <1>1, <2>4, <2>12, <3>1, OtherCalls
    <3>3. Checked(y) /\ UNCHANGED <<position, committed, index>>
      BY <1>1 DEF DlgInv, userVars
    <3>4. Checked(y)'
      BY <2>4, <2>12, <3>1, <3>3 DEF Checked, Alike, PastTree
    <3>5. QED
      BY <3>2, <3>4
  <2>13. \A f \in files : present'[f] \in {x, NoSource}
    BY <1>t, <1>1, <2>6 DEF Lands, CallInv, OwnFiles, Changed, Checking
  <2>14. \A f \in Sources \ files : present'[f] = present[f]
    BY <1>1 DEF Lands
  <2>15. landed[x] = {}
    BY <1>t DEF CallInv
  <2>16. ASSUME NEW y \in Delegations, NEW f \in Sources, present'[f] = y PROVE f \in landed'[y]
    <3>1. CASE f \in files
      <4>1. y = x
        BY <2>13, <2>16, <3>1, DelegationAssumption
      <4>2. QED
        BY <2>6, <3>1, <4>1 DEF DlgInv, DlgType
    <3>2. CASE f \notin files
      <4>1. f \in landed[y]
        BY <2>14, <2>16, <3>2 DEF DlgInv, Signed
      <4>2. QED
        BY <2>6, <2>15, <4>1 DEF DlgInv, DlgType
    <3>3. QED
      BY <3>1, <3>2
  <2>17. QED
    BY <2>8, <2>10, <2>11, <2>12, <2>16 DEF DlgInv, Signed
<1>2. CASE GitApply(x)
  <2>1. CASE Applies(x)
    BY <1>1, <1>2, <2>1 DEF GitApply
  <2>2. CASE ~Applies(x)
    BY <1>t, <1>2, <2>2, ConcludeCall DEF GitApply, CallInv
  <2> QED
    BY <2>1, <2>2
<1>3. ASSUME NEW files \in SUBSET Sources, GitApplyKilled(x, files) PROVE DlgInv'
  BY <1>1, <1>3 DEF GitApplyKilled
<1>4. QED
  BY <1>2, <1>3

(* What the user's steps have in common *)
LEMMA UserStep ==
  ASSUME DlgInv, NEW past, UserActs(past), past \in {PastTree, PastBranch, PastHead},
         position' \in Positions, committed' \in [Sources -> Texts],
         index' \in [Sources -> Texts], present' \in [Sources -> Texts],
         \A f \in Sources : present'[f] \in {present[f], ByUser},
         past # PastHead => position'.commit = position.commit,
         past = PastTree => position' = position,
         past = PastBranch => UNCHANGED <<committed, index, present>>
  PROVE  DlgInv'
<1>1. ASSUME NEW y \in Delegations
      PROVE  /\ task'[y] \in TaskRecord /\ Alike(task'[y], task[y])
             /\ task'[y].overtaken = (task[y].overtaken \/ task[y].at \in past)
  <2>1. task'[y] = [task[y] EXCEPT !.overtaken = @ \/ (y \in Delegations /\ task[y].at \in past)]
    BY DEF UserActs, Overtake
  <2>2. task[y] \in TaskRecord
    BY DEF DlgInv, DlgType
  <2>3. QED
    BY <2>1, <2>2 DEF TaskRecord, Alike
<1>2. task' \in [Delegations -> TaskRecord]
  <2>1. task' = [y \in Delegations |-> task'[y]]
    BY DEF UserActs, Overtake
  <2>2. QED
    BY <1>1, <2>1
<1>3. DlgType'
  BY <1>2 DEF DlgInv, DlgType, UserActs
<1>4. Signed'
  BY DelegationAssumption DEF DlgInv, DlgType, Signed, UserActs
<1>5. ASSUME NEW y \in Delegations PROVE CallInv(y)' /\ Checked(y)'
  <2>1. CallInv(y)'
    BY <1>1, OtherCalls DEF UserActs
  <2>2. Checked(y) /\ landed'[y] = landed[y]
    BY DEF DlgInv, UserActs
  <2>3. ASSUME ~task'[y].overtaken
        PROVE  /\ ~task[y].overtaken /\ task[y].at \notin past
               /\ task'[y].at = task[y].at /\ task'[y].from = task[y].from
               /\ task'[y].on = task[y].on /\ task'[y].clean = task[y].clean
    BY <1>1, <2>3 DEF Alike
  <2>4. Checked(y)'
    <3> USE DEF Checked, PastTree, PastBranch, PastHead
    <3>1. CASE past = PastTree
      BY <2>2, <2>3, <3>1
    <3>2. CASE past = PastBranch
      <4>1. past # PastHead /\ (CleanTree' <=> CleanTree) /\ (CleanIndex' <=> CleanIndex)
        BY <3>2 DEF CleanTree, CleanIndex
      <4>2. QED
        BY <2>2, <2>3, <3>2, <4>1
    <3>3. CASE past = PastHead
      BY <2>2, <2>3, <3>3
    <3>4. QED
      BY <3>1, <3>2, <3>3
  <2>5. QED
    BY <2>1, <2>4
<1>6. QED
  BY <1>3, <1>4, <1>5 DEF DlgInv

(* So do the user's steps: what the user writes is no delegation's. *)
LEMMA UserSteps ==
  ASSUME DlgInv,
         \/ \E f \in Sources :
              UserEdits(f) \/ UserStages(f, present[f]) \/ UserStages(f, committed[f])
         \/ \E all \in BOOLEAN : UserCommits(all)
         \/ \E b \in Labels : UserSwitches(b)
  PROVE  DlgInv'
<1>t. /\ position \in Positions /\ committed \in [Sources -> Texts]
      /\ index \in [Sources -> Texts] /\ present \in [Sources -> Texts]
      /\ ByUser \in Texts /\ NoSource \in Texts /\ PastTree # PastBranch /\ PastTree # PastHead
      /\ PastBranch # PastHead
  <2>1. "diff" \notin PastTree /\ "diff" \in PastBranch /\ "branch" \in PastHead
        /\ "branch" \notin PastBranch /\ "branch" \notin PastTree
    BY DEF PastTree, PastBranch, PastHead
  <2>2. PastTree # PastBranch /\ PastTree # PastHead /\ PastBranch # PastHead
    BY <2>1
  <2>3. QED
    BY <2>2 DEF DlgInv, DlgType, Texts
<1>1. ASSUME NEW f \in Sources, UserEdits(f) PROVE DlgInv'
  <2>1. /\ UserActs(PastTree) /\ UNCHANGED <<position, committed, index>>
        /\ present' = [present EXCEPT ![f] = ByUser]
    BY <1>1 DEF UserEdits
  <2>2. present' \in [Sources -> Texts] /\ \A g \in Sources : present'[g] \in {present[g], ByUser}
    BY <1>t, <2>1
  <2>3. QED
    BY <1>t, <2>1, <2>2, UserStep
<1>2. ASSUME NEW f \in Sources, NEW contents \in {present[f], committed[f]}, UserStages(f, contents)
      PROVE  DlgInv'
  <2>1. /\ UserActs(PastTree) /\ UNCHANGED <<position, committed, present>>
        /\ index' = [index EXCEPT ![f] = contents]
    BY <1>2 DEF UserStages
  <2>2. contents \in Texts
    BY <1>t
  <2>3. index' \in [Sources -> Texts]
    BY <1>t, <2>1, <2>2
  <2>4. QED
    BY <1>t, <2>1, <2>3, UserStep
<1>3. ASSUME NEW all \in BOOLEAN, UserCommits(all) PROVE DlgInv'
  <2>1. /\ UserActs(PastHead) /\ UNCHANGED present /\ committed' = index'
        /\ position' = [position EXCEPT !.commit = @ + 1]
    BY <1>3 DEF UserCommits
  <2>2. index' \in [Sources -> Texts]
    <3>1. CASE all
      BY <1>t, <1>3, <3>1 DEF UserCommits
    <3>2. CASE ~all
      BY <1>t, <1>3, <3>2 DEF UserCommits
    <3>3. QED
      BY <3>1, <3>2
  <2>3. position' \in Positions
    BY <1>t, <2>1 DEF Positions
  <2>4. QED
    BY <1>t, <2>1, <2>2, <2>3, UserStep
<1>4. ASSUME NEW b \in Labels, UserSwitches(b) PROVE DlgInv'
  <2>1. /\ UserActs(PastBranch) /\ UNCHANGED <<committed, index, present>>
        /\ position' = [position EXCEPT !.branch = b]
    BY <1>4 DEF UserSwitches
  <2>2. position' \in Positions /\ position'.commit = position.commit
    BY <1>t, <2>1 DEF Positions
  <2>3. QED
    BY <1>t, <2>1, <2>2, UserStep
<1>5. QED
  BY <1>1, <1>2, <1>3, <1>4

(* Edits of an agent reach the checkout only from an accepted attempt and  *)
(* in workspace_edit mode, replace nothing but what the agent started      *)
(* from, and land on a clean checkout at its HEAD and branch unless that   *)
(* changed after its check; all of them land or none, and what the result  *)
(* says is what happened (antigravity_delegate).                           *)
THEOREM DelegationsAreSound == DlgSpec => []DelegationSound
<1>1. DlgInit => DlgInv
  <2> SUFFICES ASSUME DlgInit PROVE DlgInv
    OBVIOUS
  <2>1. DlgType
    BY TaskTypes DEF DlgInit, DlgType, Positions, Texts
  <2>2. Signed
    BY DelegationAssumption DEF DlgInit, Signed
  <2>3. ASSUME NEW x \in Delegations PROVE CallInv(x) /\ Checked(x)
    BY TaskTypes DEF DlgInit, CallInv, Checked, Checking, PastHead, PastBranch, PastTree
  <2>4. QED
    BY <2>1, <2>2, <2>3 DEF DlgInv
<1>2. DlgInv /\ [DlgNext]_dlgVars => DlgInv'
  <2>1. CASE UNCHANGED dlgVars
    BY <2>1 DEF dlgVars, DlgInv, DlgType, Signed, CallInv, Attempted, OwnFiles, Changed, Deleted,
       Checked, CleanTree, CleanIndex
  <2>2. QED
    BY <2>1, QuietSteps, WorktreeSteps, ApplySteps, UserSteps DEF DlgNext, DelegationStep
<1>3. DlgInv => DelegationSound
  BY DEF DlgInv, Signed, CallInv, Checked, Attempted, DelegationSound
<1>4. QED
  BY <1>1, <1>2, <1>3, PTL DEF DlgSpec

-----------------------------------------------------------------------------
(* Transactions.  The snapshot in use is the only live one and is counted  *)
(* once per holder; unless somebody else changed it, the snapshot of a     *)
(* command is its baseline with the command's own writes on top.           *)

TxSteps == {"idle", "checked", "held", "captured", "running", "exited", "prepared", "done"}
Files == [TxFiles -> Entries \cup {Nil}]
TxRecord == [at : TxSteps, dir : TxCalls \cup {Nil}, before : Files, after : Files,
             gitHead : Nat, ok : BOOLEAN, released : BOOLEAN]
DirRecord == [files : Files, state : {"none", "live", "clearing", "gone"}]

TxType ==
  /\ tree \in Files /\ gitHead \in Nat
  /\ dir \in [TxCalls -> DirRecord]
  /\ sandbox \in TxCalls \cup {Nil} /\ users \in Nat
  /\ tx \in [TxCalls -> TxRecord]
  /\ own \in [TxCalls -> Files] /\ installed \in [TxCalls -> Files]
  /\ foreign \in [TxCalls -> BOOLEAN]

Holders == {x \in TxCalls : Holds(x)}

PoolInv ==
  /\ \A x \in TxCalls : Holds(x) =>
       sandbox = tx[x].dir /\ sandbox \in TxCalls /\ dir[sandbox].state = "live"
  /\ users = Cardinality(Holders)
  /\ \A d \in TxCalls : dir[d].state = "live" => d = sandbox
  /\ sandbox # Nil => Holders # {}

Written(x, f) == IF own[x][f] = Nil THEN tx[x].before[f] ELSE own[x][f]

Control(x) ==
  /\ tx[x].at \in {"idle", "checked", "done"} => ~Holds(x)
  /\ tx[x].at \in {"held", "captured", "running"} => Holds(x)
  /\ tx[x].at \in {"held", "captured", "running", "exited", "prepared"} => tx[x].dir \in TxCalls
  /\ tx[x].at \in {"idle", "checked", "held", "captured"} => own[x] = Nothing
  /\ tx[x].at # "done" => installed[x] = Nothing
  /\ tx[x].at = "prepared" \/ installed[x] # Nothing => tx[x].ok

Faithful(x) ==
  /\ tx[x].at \in {"captured", "running", "exited"} =>
       Holds(x) /\ \A f \in TxFiles : dir[tx[x].dir].files[f] = Written(x, f)
  /\ tx[x].at = "prepared" => \A f \in TxFiles : tx[x].after[f] = Written(x, f)
  /\ installed[x] # Nothing => \A f \in TxFiles :
       installed[x][f] = IF own[x][f] \in {Nil, tx[x].before[f]} THEN Nil ELSE own[x][f]

TxInv == TxType /\ PoolInv /\ \A x \in TxCalls : Control(x) /\ (~foreign[x] => Faithful(x))

(* A step of one call leaves what is said of another as it was, when it    *)
(* leaves the files of its snapshot alone or counts as foreign.            *)
LEMMA OtherTx ==
  ASSUME TxInv, NEW y \in TxCalls,
         tx'[y] = tx[y], own'[y] = own[y], installed'[y] = installed[y],
         foreign[y] => foreign'[y],
         ~foreign'[y] /\ Holds(y) => dir'[tx[y].dir].files = dir[tx[y].dir].files
  PROVE  Control(y)' /\ (~foreign'[y] => Faithful(y)')
<1>1. Control(y)'
  BY DEF TxInv, Control, Holds
<1>2. ASSUME ~foreign'[y] PROVE Faithful(y)'
  BY <1>2 DEF TxInv, Faithful, Holds, Written
<1>3. QED
  BY <1>1, <1>2

(* The snapshots a set of calls may hold can be counted. *)
LEMMA HoldersFinite ==
  ASSUME NEW S \in SUBSET TxCalls
  PROVE  IsFiniteSet(S) /\ Cardinality(S) \in Nat
BY TxAssumption, FS_Subset, FS_CardinalityType

(* A step that leaves the pool and who holds it alone keeps its count. *)
LEMMA PoolFrame ==
  ASSUME TxInv, UNCHANGED <<sandbox, users>>,
         \A d \in TxCalls : dir'[d].state = "live" <=> dir[d].state = "live",
         \A x \in TxCalls : tx'[x].released = tx[x].released /\ tx'[x].dir = tx[x].dir
  PROVE  PoolInv'
<1>1. Holders' = Holders /\ \A x \in TxCalls : Holds(x)' = Holds(x)
  BY DEF Holders, Holds
<1>2. QED
  BY <1>1 DEF TxInv, PoolInv

(* The last holder takes the snapshot with it, and only the last. *)
LEMMA ReleaseKeepsPool ==
  ASSUME TxInv, NEW x \in TxCalls, Holds(x), ReleasePool(x),
         \A y \in TxCalls : /\ tx'[y].released = (y = x \/ tx[y].released)
                            /\ tx'[y].dir = tx[y].dir
  PROVE  /\ PoolInv'
         /\ dir' \in [TxCalls -> DirRecord] /\ sandbox' \in TxCalls \cup {Nil} /\ users' \in Nat
         /\ \A d \in TxCalls : dir'[d].files = dir[d].files
<1>1. sandbox = tx[x].dir /\ sandbox \in TxCalls /\ Holders \in SUBSET TxCalls /\ x \in Holders
  BY DEF TxInv, PoolInv, Holders
<1>2. Holders' = Holders \ {x}
  BY DEF Holders, Holds
<1>3. /\ IsFiniteSet(Holders) /\ Cardinality(Holders) \in Nat /\ users = Cardinality(Holders)
      /\ Cardinality(Holders') = users - 1
  BY <1>1, <1>2, HoldersFinite, FS_RemoveElement DEF TxInv, PoolInv
<1>4. CASE LastUser(x)
  <2>1. users' = 0 /\ sandbox' = Nil /\ dir' = [dir EXCEPT ![sandbox].state = "clearing"]
    BY <1>1, <1>4 DEF ReleasePool
  <2>2. users = 1
    <3>1. Cardinality(Holders) # 0
      BY <1>1, <1>3, FS_EmptySet
    <3>2. QED
      BY <1>3, <1>4, <3>1 DEF LastUser
  <2>3. Holders' = {}
    <3>1. IsFiniteSet(Holders') /\ Cardinality(Holders') = 0
      BY <1>2, <1>3, <2>2, FS_RemoveElement
    <3>2. QED
      BY <3>1, FS_EmptySet
  <2>4. dir' \in [TxCalls -> DirRecord] /\ \A d \in TxCalls : dir'[d].files = dir[d].files
    BY <1>1, <2>1 DEF TxInv, TxType, DirRecord
  <2>5. \A d \in TxCalls : dir'[d].state # "live"
    BY <1>1, <2>1 DEF TxInv, TxType, PoolInv, DirRecord
  <2>6. PoolInv'
    BY <1>3, <2>1, <2>2, <2>3, <2>5 DEF PoolInv, Holders
  <2>7. QED
    BY <2>1, <2>4, <2>6
<1>5. CASE ~LastUser(x)
  <2>1. users' = users - 1 /\ UNCHANGED <<dir, sandbox>>
    BY <1>1, <1>5 DEF ReleasePool
  <2>2. users > 1
    BY <1>3, <1>5 DEF LastUser
  <2>3. Holders' # {}
    <3>1. Cardinality(Holders') # 0
      BY <1>3, <2>2
    <3>2. QED
      BY <3>1, FS_EmptySet
  <2>4. PoolInv'
    <3>1. \A y \in TxCalls : Holds(y)' => Holds(y) /\ tx'[y].dir = tx[y].dir
      BY DEF Holds
    <3>2. QED
      BY <1>3, <2>1, <2>3, <3>1 DEF TxInv, PoolInv
  <2>5. QED
    BY <1>3, <2>1, <2>2, <2>4 DEF TxInv, TxType
<1>6. QED
  BY <1>4, <1>5

(* A step that moves the record of one call and leaves the rest alone *)
LEMMA TxQuiet ==
  ASSUME TxInv, NEW x \in TxCalls, NEW r \in TxRecord, tx' = [tx EXCEPT ![x] = r],
         r.released = tx[x].released, r.dir = tx[x].dir,
         UNCHANGED <<tree, gitHead, pool, txGhosts>>,
         Control(x)', ~foreign[x] => Faithful(x)'
  PROVE  TxInv'
<1>1. TxType'
  BY DEF TxInv, TxType, pool, txGhosts
<1>2. PoolInv'
  <2>1. \A y \in TxCalls : tx'[y].released = tx[y].released /\ tx'[y].dir = tx[y].dir
    BY DEF TxInv, TxType
  <2>2. QED
    BY <2>1, PoolFrame DEF pool
<1>3. ASSUME NEW y \in TxCalls, y # x PROVE Control(y)' /\ (~foreign'[y] => Faithful(y)')
  <2>1. tx'[y] = tx[y]
    BY <1>3 DEF TxInv, TxType
  <2>2. QED
    BY <2>1, OtherTx DEF pool, txGhosts
<1>4. QED
  BY <1>1, <1>2, <1>3 DEF TxInv, txGhosts

(* The steps of a call that change neither the pool nor a file *)
LEMMA TxQuietSteps ==
  ASSUME TxInv, NEW x \in TxCalls,
         CheckAlone(x) \/ Capture(x) \/ Start(x) \/ \E ok \in BOOLEAN : CommandExits(x, ok)
  PROVE  TxInv'
<1>t. /\ tx \in [TxCalls -> TxRecord] /\ tx[x] \in TxRecord /\ Control(x)
      /\ ~foreign[x] => Faithful(x)
      /\ dir \in [TxCalls -> DirRecord] /\ gitHead \in Nat /\ own \in [TxCalls -> Files]
  BY DEF TxInv, TxType
<1> USE DEF Control, Holds, Faithful, Written, pool, txGhosts
<1>1. CASE CheckAlone(x)
  <2> DEFINE r == [tx[x] EXCEPT !.at = "checked"]
  <2>1. /\ r \in TxRecord /\ tx' = [tx EXCEPT ![x] = r]
        /\ r.released = tx[x].released /\ r.dir = tx[x].dir
    BY <1>t, <1>1 DEF CheckAlone, Moves, TxRecord, TxSteps
  <2>2. UNCHANGED <<tree, gitHead, pool, txGhosts>> /\ tx[x].at = "idle"
    BY <1>1 DEF CheckAlone
  <2>3. Control(x)' /\ (~foreign[x] => Faithful(x)')
    BY <1>t, <2>1, <2>2
  <2> QED
    BY <2>1, <2>2, <2>3, TxQuiet
<1>2. CASE Capture(x)
  <2> DEFINE r == [tx[x] EXCEPT !.at = "captured", !.before = Baseline(x), !.gitHead = gitHead]
  <2>0. Baseline(x) \in Files /\ tx[x].at = "held"
    BY <1>t, <1>2 DEF Baseline, Capture, DirRecord
  <2>1. /\ r \in TxRecord /\ tx' = [tx EXCEPT ![x] = r]
        /\ r.released = tx[x].released /\ r.dir = tx[x].dir /\ r.at = "captured"
        /\ r.before = dir[tx[x].dir].files
    BY <1>t, <1>2, <2>0 DEF Capture, TxRecord, TxSteps, Baseline
  <2>2. UNCHANGED <<tree, gitHead, pool, txGhosts>>
    BY <1>2 DEF Capture
  <2> HIDE DEF r
  <2>3. tx'[x] = r
    BY <1>t, <2>1
  <2>4. own[x] = Nothing /\ \A f \in TxFiles : own[x][f] = Nil
    BY <1>t, <2>0 DEF Nothing
  <2>5. Control(x)'
    BY <1>t, <2>0, <2>1, <2>2, <2>3
  <2>6. Faithful(x)'
    BY <1>t, <2>0, <2>1, <2>2, <2>3, <2>4
  <2> QED
    BY <2>1, <2>2, <2>5, <2>6, TxQuiet
<1>3. CASE Start(x)
  <2> DEFINE r == [tx[x] EXCEPT !.at = "running"]
  <2>1. /\ r \in TxRecord /\ tx' = [tx EXCEPT ![x] = r]
        /\ r.released = tx[x].released /\ r.dir = tx[x].dir
    BY <1>t, <1>3 DEF Start, Moves, TxRecord, TxSteps
  <2>2. UNCHANGED <<tree, gitHead, pool, txGhosts>> /\ tx[x].at = "captured"
    BY <1>3 DEF Start
  <2>3. Control(x)' /\ (~foreign[x] => Faithful(x)')
    BY <1>t, <2>1, <2>2
  <2> QED
    BY <2>1, <2>2, <2>3, TxQuiet
<1>4. ASSUME NEW ok \in BOOLEAN, CommandExits(x, ok) PROVE TxInv'
  <2> DEFINE r == [tx[x] EXCEPT !.at = "exited", !.ok = ok]
  <2>1. /\ r \in TxRecord /\ tx' = [tx EXCEPT ![x] = r]
        /\ r.released = tx[x].released /\ r.dir = tx[x].dir
    BY <1>t, <1>4 DEF CommandExits, TxRecord, TxSteps
  <2>2. UNCHANGED <<tree, gitHead, pool, txGhosts>> /\ tx[x].at = "running"
    BY <1>4 DEF CommandExits
  <2>3. Control(x)' /\ (~foreign[x] => Faithful(x)')
    BY <1>t, <2>1, <2>2
  <2> QED
    BY <2>1, <2>2, <2>3, TxQuiet
<1>5. QED
  BY <1>1, <1>2, <1>3, <1>4

(* A step that gives the snapshot back, whatever else it says of its call *)
LEMMA TxRelease ==
  ASSUME TxInv, NEW x \in TxCalls, NEW r \in TxRecord, ReleasePool(x),
         tx' = [tx EXCEPT ![x] = r], r.released, r.dir = tx[x].dir,
         tree' \in Files, UNCHANGED <<gitHead, own>>,
         installed' \in [TxCalls -> Files], foreign' \in [TxCalls -> BOOLEAN],
         \A y \in TxCalls : y # x => installed'[y] = installed[y] /\ foreign'[y] = foreign[y],
         Control(x)', ~foreign'[x] => Faithful(x)'
  PROVE  TxInv'
<1>1. \A y \in TxCalls : /\ tx'[y].released = (y = x \/ tx[y].released)
                         /\ tx'[y].dir = tx[y].dir /\ (y # x => tx'[y] = tx[y])
  BY DEF TxInv, TxType, TxRecord
<1>2. /\ PoolInv' /\ dir' \in [TxCalls -> DirRecord]
      /\ sandbox' \in TxCalls \cup {Nil} /\ users' \in Nat
      /\ \A d \in TxCalls : dir'[d].files = dir[d].files
  <2>1. CASE Holds(x)
    BY <1>1, <2>1, ReleaseKeepsPool
  <2>2. CASE ~Holds(x)
    <3>1. UNCHANGED pool
      BY <2>2 DEF ReleasePool
    <3>2. \A y \in TxCalls : tx'[y].released = tx[y].released
      BY <1>1, <2>2 DEF Holds, TxInv, TxType, TxRecord
    <3>3. PoolInv'
      BY <1>1, <3>1, <3>2, PoolFrame DEF pool
    <3>4. QED
      BY <3>1, <3>3 DEF TxInv, TxType, pool
  <2>3. QED
    BY <2>1, <2>2
<1>3. TxType'
  BY <1>2 DEF TxInv, TxType
<1>4. ASSUME NEW y \in TxCalls, y # x PROVE Control(y)' /\ (~foreign'[y] => Faithful(y)')
  <2>1. Holds(y) => tx[y].dir \in TxCalls
    BY DEF TxInv, PoolInv
  <2>2. QED
    BY <1>1, <1>2, <1>4, <2>1, OtherTx
<1>5. QED
  BY <1>2, <1>3, <1>4 DEF TxInv

(* The steps that end a call, or take its snapshot away from it *)
LEMMA TxReleaseSteps ==
  ASSUME TxInv, NEW x \in TxCalls, GiveUp(x) \/ Prepare(x) \/ Apply(x) \/ Cancel(x)
  PROVE  TxInv'
<1>t. /\ tx \in [TxCalls -> TxRecord] /\ tx[x] \in TxRecord /\ Control(x)
      /\ ~foreign[x] => Faithful(x)
      /\ dir \in [TxCalls -> DirRecord] /\ gitHead \in Nat /\ own \in [TxCalls -> Files]
      /\ installed \in [TxCalls -> Files] /\ foreign \in [TxCalls -> BOOLEAN]
      /\ tree \in Files
  BY DEF TxInv, TxType
<1> DEFINE over == [tx[x] EXCEPT !.at = "done", !.released = TRUE]
<1>o. /\ over \in TxRecord /\ over.at = "done" /\ over.released /\ over.dir = tx[x].dir
      /\ over.ok = tx[x].ok /\ over.before = tx[x].before
      /\ Ends(x) => tx' = [tx EXCEPT ![x] = over] /\ tx'[x] = over
  BY <1>t DEF TxRecord, TxSteps, Ends
<1> HIDE DEF over
<1>1. ASSUME ReleasePool(x), Ends(x), tx[x].at # "done", UNCHANGED <<tree, gitHead, txGhosts>>
      PROVE  TxInv'
  <2>1. installed[x] = Nothing
    BY <1>t, <1>1 DEF Control
  <2>2. Control(x)' /\ Faithful(x)'
    BY <1>o, <1>1, <2>1 DEF Control, Faithful, Holds, txGhosts
  <2>3. QED
    BY <1>t, <1>o, <1>1, <2>2, TxRelease DEF txGhosts
<1>2. CASE GiveUp(x)
  BY <1>1, <1>2 DEF GiveUp
<1>3. CASE Prepare(x)
  <2>1. CASE tx[x].ok /\ dir[tx[x].dir].state # "gone"
    <3> DEFINE r == [tx[x] EXCEPT !.at = "prepared", !.after = dir[tx[x].dir].files]
    <3>0. tx[x].at = "exited" /\ tx[x].dir \in TxCalls /\ dir[tx[x].dir].files \in Files
      BY <1>t, <1>3 DEF Prepare, Control, DirRecord
    <3>1. /\ r \in TxRecord /\ tx' = [tx EXCEPT ![x] = r] /\ tx'[x] = r
          /\ r.released = tx[x].released /\ r.dir = tx[x].dir /\ r.at = "prepared"
          /\ r.ok = tx[x].ok /\ r.before = tx[x].before /\ r.after = dir[tx[x].dir].files
      BY <1>t, <1>3, <2>1, <3>0 DEF Prepare, TxRecord, TxSteps
    <3>2. UNCHANGED <<tree, gitHead, pool, txGhosts>>
      BY <1>3, <2>1 DEF Prepare
    <3> HIDE DEF r
    <3>3. Control(x)'
      BY <1>t, <2>1, <3>0, <3>1, <3>2 DEF Control, Holds, txGhosts
    <3>4. ~foreign[x] => Faithful(x)'
      BY <1>t, <3>0, <3>1, <3>2 DEF Control, Faithful, Written, txGhosts
    <3>5. QED
      BY <3>1, <3>2, <3>3, <3>4, TxQuiet
  <2>2. CASE ~(tx[x].ok /\ dir[tx[x].dir].state # "gone")
    BY <1>1, <1>3, <2>2 DEF Prepare
  <2>3. QED
    BY <2>1, <2>2
<1>4. CASE Apply(x)
  <2> DEFINE put == [f \in TxFiles |-> IF f \in Delta(x) THEN tx[x].after[f] ELSE Nil]
  <2>1. CASE Unmodified(x)
    <3>0. /\ tx[x].at = "prepared" /\ tx[x].ok /\ put \in Files
          /\ UNCHANGED <<gitHead, own, foreign>> /\ ReleasePool(x) /\ Ends(x)
          /\ installed' = [installed EXCEPT ![x] = put] /\ installed'[x] = put
      BY <1>t, <1>4, <2>1 DEF Apply, Control, Files, TxRecord
    <3>1. ASSUME NEW f \in TxFiles, ~foreign[x]
          PROVE  put[f] = IF own[x][f] \in {Nil, tx[x].before[f]} THEN Nil ELSE own[x][f]
      BY <1>t, <3>0, <3>1 DEF Faithful, Written, Delta
    <3>2. Control(x)'
      BY <1>o, <3>0 DEF Control, Holds
    <3>3. ~foreign'[x] => Faithful(x)'
      BY <1>o, <3>0, <3>1 DEF Faithful
    <3>4. installed' \in [TxCalls -> Files]
          /\ \A y \in TxCalls : y # x => installed'[y] = installed[y]
      BY <1>t, <3>0
    <3>5. tree' \in Files
      BY <1>t, <1>4, <2>1 DEF Apply, Files, TxRecord
    <3>6. QED
      BY <1>t, <1>o, <3>0, <3>2, <3>3, <3>4, <3>5, TxRelease
  <2>2. CASE ~Unmodified(x)
    BY <1>1, <1>4, <2>2 DEF Apply, txGhosts
  <2>3. QED
    BY <2>1, <2>2
<1>5. CASE Cancel(x)
  <2> DEFINE r == [tx[x] EXCEPT !.released = TRUE, !.at = IF @ = "running" THEN "exited" ELSE @]
  <2>0. tx[x].at \in {"running", "exited", "prepared"}
    BY <1>5 DEF Cancel
  <2>1. /\ r \in TxRecord /\ tx' = [tx EXCEPT ![x] = r] /\ tx'[x] = r
        /\ r.released /\ r.dir = tx[x].dir /\ r.ok = tx[x].ok
        /\ r.at \in {"exited", "prepared"} /\ (r.at = "prepared" <=> tx[x].at = "prepared")
    BY <1>t, <1>5, <2>0 DEF Cancel, TxRecord, TxSteps
  <2> HIDE DEF r
  <2>2. foreign' = [foreign EXCEPT ![x] = TRUE] /\ foreign'[x]
        /\ UNCHANGED <<tree, gitHead, own, installed>> /\ ReleasePool(x)
    BY <1>t, <1>5 DEF Cancel
  <2>3. Control(x)'
    BY <1>t, <2>0, <2>1, <2>2 DEF Control, Holds
  <2>4. QED
    BY <1>t, <2>1, <2>2, <2>3, TxRelease
<1>6. QED
  BY <1>2, <1>3, <1>4, <1>5

(* A new snapshot is made only when nobody holds one; a shared one is      *)
(* foreign to all who share it.                                            *)
LEMMA AcquireInv ==
  ASSUME TxInv, NEW x \in TxCalls, Acquire(x)
  PROVE  TxInv'
<1> DEFINE new == sandbox = Nil
           d == IF new THEN x ELSE sandbox
           r == [tx[x] EXCEPT !.at = "held", !.dir = d, !.released = FALSE]
<1>t. /\ tx \in [TxCalls -> TxRecord] /\ tx[x] \in TxRecord /\ Control(x) /\ ~Holds(x)
      /\ dir \in [TxCalls -> DirRecord] /\ sandbox \in TxCalls \cup {Nil}
      /\ foreign \in [TxCalls -> BOOLEAN] /\ tx[x].at = "checked"
  BY DEF TxInv, TxType, Acquire, Control
<1>1. d \in TxCalls /\ d # Nil
  BY <1>t, TxAssumption
<1>2. /\ sandbox' = d /\ users' = users + 1 /\ tx' = [tx EXCEPT ![x] = r]
      /\ dir' = IF new THEN [dir EXCEPT ![x] = [files |-> tree, state |-> "live"]] ELSE dir
      /\ foreign' = [y \in TxCalls |->
           foreign[y] \/ (~new /\ (y = x \/ (Holds(y) /\ tx[y].dir = d)))]
      /\ UNCHANGED <<tree, gitHead, own, installed>>
  BY <1>t DEF Acquire
<1>3. r \in TxRecord /\ tx'[x] = r /\ r.at = "held" /\ r.dir = d /\ ~r.released /\ r.ok = tx[x].ok
      /\ \A y \in TxCalls : y # x => tx'[y] = tx[y]
  BY <1>t, <1>1, <1>2 DEF TxRecord, TxSteps
<1>4. foreign' \in [TxCalls -> BOOLEAN] /\ \A y \in TxCalls : foreign[y] => foreign'[y]
  BY <1>t, <1>2
<1>5. Holders' = Holders \cup {x} /\ x \notin Holders
  BY <1>t, <1>3, ZenonT(60) DEF Holders, Holds
<1>6. users' = Cardinality(Holders') /\ users' \in Nat
  <2>1. Holders \in SUBSET TxCalls
    BY DEF Holders
  <2>2. Cardinality(Holders') = Cardinality(Holders) + 1
    BY <1>5, <2>1, HoldersFinite, FS_AddElement
  <2>3. QED
    BY <1>2, <2>2 DEF TxInv, TxType, PoolInv
<1>7. CASE new
  <2>1. Holders = {}
    <3>1. \A y \in TxCalls : ~Holds(y)
      BY <1>7, TxAssumption DEF TxInv, PoolInv
    <3>2. QED
      BY <3>1 DEF Holders
  <2>2. dir' \in [TxCalls -> DirRecord] /\ dir'[x].state = "live" /\ d = x
        /\ \A y \in TxCalls : y # x => dir'[y] = dir[y]
    BY <1>t, <1>2, <1>7 DEF DirRecord, TxInv, TxType
  <2>3. PoolInv'
    <3>1. \A y \in TxCalls : Holds(y)' => y = x
      BY <1>3, <2>1 DEF Holders, Holds
    <3>2. \A y \in TxCalls : dir'[y].state = "live" => y = x
      BY <1>7, <2>2, TxAssumption DEF TxInv, PoolInv
    <3>3. QED
      BY <1>2, <1>3, <1>5, <1>6, <2>2, <3>1, <3>2 DEF PoolInv
  <2>4. TxType'
    BY <1>1, <1>2, <1>3, <1>4, <1>6, <2>2 DEF TxInv, TxType
  <2>5. ASSUME NEW y \in TxCalls, y # x PROVE Control(y)' /\ (~foreign'[y] => Faithful(y)')
    <3>1. ~Holds(y)
      BY <2>1 DEF Holders
    <3>2. QED
      BY <1>2, <1>3, <1>4, <2>5, <3>1, OtherTx
  <2>6. Control(x)' /\ Faithful(x)'
    BY <1>t, <1>1, <1>2, <1>3 DEF Control, Faithful, Holds
  <2>7. QED
    BY <2>3, <2>4, <2>5, <2>6 DEF TxInv
<1>8. CASE ~new
  <2>1. UNCHANGED <<dir, sandbox>> /\ d = sandbox
    BY <1>2, <1>8
  <2>2. PoolInv'
    <3>1. dir[sandbox].state = "live"
      BY <1>8 DEF TxInv, PoolInv, Holders
    <3>2. \A y \in TxCalls : Holds(y)' => y = x \/ Holds(y)
      BY <1>3 DEF Holds
    <3>3. QED
      BY <1>1, <1>3, <1>5, <1>6, <2>1, <3>1, <3>2 DEF TxInv, PoolInv
  <2>3. TxType'
    BY <1>1, <1>2, <1>3, <1>4, <1>6, <2>1 DEF TxInv, TxType
  <2>4. ASSUME NEW y \in TxCalls, y # x PROVE Control(y)' /\ (~foreign'[y] => Faithful(y)')
    BY <1>2, <1>3, <1>4, <2>1, <2>4, OtherTx
  <2>5. Control(x)' /\ Faithful(x)'
    BY <1>t, <1>1, <1>2, <1>3 DEF Control, Faithful, Holds
  <2>6. QED
    BY <2>2, <2>3, <2>4, <2>5 DEF TxInv
<1>9. QED
  BY <1>7, <1>8

(* A change of a file of one snapshot is the command's own, or foreign to  *)
(* everyone who holds that snapshot.                                       *)
LEMMA FilesInv ==
  ASSUME TxInv, NEW d \in TxCalls, NEW f \in TxFiles, NEW c \in Entries,
         dir' = [dir EXCEPT ![d].files[f] = c],
         tree' \in Files, UNCHANGED <<gitHead, sandbox, users, tx, installed>>,
         own' \in [TxCalls -> Files], foreign' \in [TxCalls -> BOOLEAN],
         \A y \in TxCalls :
           /\ foreign[y] => foreign'[y]
           /\ \/ own'[y] = own[y] /\ (~foreign'[y] /\ Holds(y) => tx[y].dir # d)
              \/ Control(y)' /\ (~foreign'[y] => Faithful(y)')
  PROVE  TxInv'
<1>1. dir' \in [TxCalls -> DirRecord] /\ \A e \in TxCalls :
        dir'[e].state = dir[e].state /\ (e # d => dir'[e] = dir[e])
  BY ZenonT(60) DEF TxInv, TxType, DirRecord, Files
<1>2. TxType'
  BY <1>1 DEF TxInv, TxType
<1>3. PoolInv'
  BY <1>1, PoolFrame
<1>4. ASSUME NEW y \in TxCalls PROVE Control(y)' /\ (~foreign'[y] => Faithful(y)')
  <2>1. Holds(y) => tx[y].dir \in TxCalls
    BY DEF TxInv, PoolInv
  <2>2. CASE own'[y] = own[y] /\ (~foreign'[y] /\ Holds(y) => tx[y].dir # d)
    BY <1>1, <2>1, <2>2, OtherTx
  <2>3. QED
    BY <2>2
<1>5. QED
  BY <1>2, <1>3, <1>4 DEF TxInv

(* The command writes into its snapshot. *)
LEMMA CommandWritesInv ==
  ASSUME TxInv, NEW x \in TxCalls, NEW f \in TxFiles, NEW c \in Entries, CommandWrites(x, f, c)
  PROVE  TxInv'
<1> DEFINE d == tx[x].dir
<1>t. /\ tx[x].at = "running" /\ Control(x) /\ (~foreign[x] => Faithful(x)) /\ d \in TxCalls
      /\ Holds(x) /\ dir \in [TxCalls -> DirRecord] /\ own \in [TxCalls -> Files]
      /\ foreign \in [TxCalls -> BOOLEAN] /\ tree \in Files /\ c # Nil
  BY TxAssumption DEF TxInv, TxType, Control, CommandWrites, Entries
<1>1. /\ dir' = [dir EXCEPT ![d].files[f] = c] /\ own' = [own EXCEPT ![x][f] = c]
      /\ UNCHANGED <<tree, gitHead, sandbox, users, tx, installed>>
      /\ foreign' = [y \in TxCalls |-> foreign[y] \/ (y # x /\ Holds(y) /\ tx[y].dir = d)]
  BY DEF CommandWrites, Disturb
<1>2. own' \in [TxCalls -> Files] /\ foreign' \in [TxCalls -> BOOLEAN]
  BY <1>t, <1>1 DEF Files
<1>3. Control(x)' /\ (~foreign'[x] => Faithful(x)')
  <2>1. foreign'[x] = foreign[x]
    BY <1>t, <1>1
  <2>2. Control(x)'
    BY <1>t, <1>1 DEF Control, Holds
  <2>3. ASSUME ~foreign[x], NEW g \in TxFiles PROVE dir'[d].files[g] = Written(x, g)'
    BY <1>t, <1>1, <2>3 DEF Faithful, Written, Files, DirRecord
  <2>4. ASSUME ~foreign[x] PROVE Faithful(x)'
    <3>1. installed[x] = Nothing
      BY <1>t DEF Control
    <3>2. QED
      BY <1>t, <1>1, <2>3, <2>4, <3>1 DEF Faithful, Holds
  <2>5. QED
    BY <2>1, <2>2, <2>4
<1>4. ASSUME NEW y \in TxCalls, y # x
      PROVE  own'[y] = own[y] /\ (~foreign'[y] /\ Holds(y) => tx[y].dir # d)
  BY <1>t, <1>1, <1>4
<1>5. \A y \in TxCalls : foreign[y] => foreign'[y]
  BY <1>1
<1>6. \A y \in TxCalls :
        /\ foreign[y] => foreign'[y]
        /\ \/ own'[y] = own[y] /\ (~foreign'[y] /\ Holds(y) => tx[y].dir # d)
           \/ Control(y)' /\ (~foreign'[y] => Faithful(y)')
  <2> HIDE DEF d
  <2> TAKE y \in TxCalls
  <2>1. CASE y = x
    BY <1>3, <1>5, <2>1, Zenon
  <2>2. CASE y # x
    BY <1>4, <1>5, <2>2, Zenon
  <2> QED  BY <2>1, <2>2, Zenon
<1> HIDE DEF d
<1>7. QED
  BY <1>t, <1>1, <1>2, <1>6, FilesInv, ZenonT(60)

(* A snapshot that is being removed is nobody's, and others edit the       *)
(* workspace, and with apply_patch the snapshot in use.                    *)
LEMMA OutsideSteps ==
  ASSUME TxInv,
         \/ \E x \in TxCalls : ClearRoot(x) \/ \E f \in TxFiles : ClearFile(x, f)
         \/ \E f \in TxFiles, c \in Entries : EditTree(f, c) \/ PatchTree(f, c)
         \/ HeadMoves
  PROVE  TxInv'
<1>t. /\ dir \in [TxCalls -> DirRecord] /\ own \in [TxCalls -> Files]
      /\ foreign \in [TxCalls -> BOOLEAN] /\ tree \in Files
      /\ \A y \in TxCalls : Holds(y) =>
           tx[y].dir = sandbox /\ sandbox \in TxCalls /\ dir[sandbox].state = "live"
      /\ NoEntry \in Entries
  BY DEF TxInv, TxType, PoolInv, Entries
<1>1. ASSUME NEW x \in TxCalls, NEW f \in TxFiles, ClearFile(x, f) PROVE TxInv'
  <2>1. \A y \in TxCalls : Holds(y) => tx[y].dir # x
    BY <1>t, <1>1 DEF ClearFile
  <2>2. QED
    BY <1>t, <1>1, <2>1, FilesInv DEF ClearFile, txGhosts
<1>2. ASSUME NEW x \in TxCalls, ClearRoot(x) PROVE TxInv'
  <2>1. /\ dir[x].state = "clearing" /\ dir' = [dir EXCEPT ![x].state = "gone"]
        /\ UNCHANGED <<tree, gitHead, sandbox, users, tx, own, foreign, installed>>
    BY <1>2 DEF ClearRoot, txGhosts
  <2>2. dir' \in [TxCalls -> DirRecord] /\ \A e \in TxCalls : dir'[e].files = dir[e].files
        /\ (dir'[e].state = "live" <=> dir[e].state = "live")
    BY <1>t, <2>1 DEF DirRecord
  <2>3. TxType'
    BY <2>1, <2>2 DEF TxInv, TxType
  <2>4. PoolInv'
    BY <2>1, <2>2, PoolFrame
  <2>5. \A y \in TxCalls : Control(y)' /\ (~foreign'[y] => Faithful(y)')
    BY <1>t, <2>1, <2>2, OtherTx
  <2>6. QED
    BY <2>3, <2>4, <2>5 DEF TxInv
<1>3. ASSUME UNCHANGED <<pool, tx, txGhosts>>, tree' \in Files, gitHead' \in Nat PROVE TxInv'
  <2>1. TxType'
    BY <1>3 DEF TxInv, TxType, pool, txGhosts
  <2>2. PoolInv'
    BY <1>3, PoolFrame DEF pool
  <2>3. \A y \in TxCalls : Control(y)' /\ (~foreign'[y] => Faithful(y)')
    BY <1>3, OtherTx DEF pool, txGhosts
  <2>4. QED
    BY <2>1, <2>2, <2>3 DEF TxInv
<1>4. CASE HeadMoves
  BY <1>t, <1>3, <1>4 DEF HeadMoves, TxInv, TxType
<1>5. ASSUME NEW f \in TxFiles, NEW c \in Entries PROVE [tree EXCEPT ![f] = c] \in Files
  BY <1>t DEF Files
<1>6. ASSUME NEW f \in TxFiles, NEW c \in Entries, EditTree(f, c) PROVE TxInv'
  BY <1>3, <1>5, <1>6 DEF EditTree, TxInv, TxType
<1>7. ASSUME NEW f \in TxFiles, NEW c \in Entries, PatchTree(f, c) PROVE TxInv'
  <2>0. /\ tree' \in Files /\ UNCHANGED <<gitHead, sandbox, users, tx, own, installed>>
        /\ foreign' = [y \in TxCalls |-> foreign[y] \/ (y # Nil /\ Holds(y) /\ tx[y].dir = sandbox)]
        /\ foreign' \in [TxCalls -> BOOLEAN]
    BY <1>t, <1>5, <1>7 DEF PatchTree, Disturb
  <2>1. \A y \in TxCalls : y # Nil
    BY TxAssumption
  <2>2. \A y \in TxCalls : (foreign[y] => foreign'[y]) /\ (~foreign'[y] => ~Holds(y))
    BY <1>t, <2>0, <2>1
  <2>3. CASE sandbox = Nil
    <3>1. dir' = dir
      BY <1>7, <2>3 DEF PatchTree
    <3>2. TxType'
      BY <2>0, <3>1 DEF TxInv, TxType
    <3>3. PoolInv'
      BY <2>0, <3>1, PoolFrame
    <3>4. \A y \in TxCalls : Control(y)' /\ (~foreign'[y] => Faithful(y)')
      BY <2>0, <2>2, <3>1, OtherTx
    <3>5. QED
      BY <3>2, <3>3, <3>4 DEF TxInv
  <2>4. CASE sandbox # Nil
    <3>1. sandbox \in TxCalls /\ dir' = [dir EXCEPT ![sandbox].files[f] = c]
      BY <1>7, <2>4 DEF PatchTree, TxInv, TxType
    <3>2. QED
      BY <1>t, <2>0, <2>2, <3>1, FilesInv
  <2>5. QED
    BY <2>3, <2>4
<1>8. QED
  BY <1>1, <1>2, <1>4, <1>6, <1>7

(* What a transactional command leaves in the workspace is what that       *)
(* command wrote, and the snapshot it works in is there for as long as it  *)
(* is held, for any number of calls that share, release and cancel it.     *)
THEOREM TransactionsAreSound == TxSpec => []TransactionSound
<1>1. TxInit => TxInv
  <2> SUFFICES ASSUME TxInit PROVE TxInv
    OBVIOUS
  <2>1. /\ Waiting \in TxRecord /\ Waiting.at = "idle" /\ Waiting.released /\ Nothing \in Files
    BY DEF Waiting, TxRecord, TxSteps, Nothing, Files
  <2>2. TxType
    BY <2>1 DEF TxInit, TxType, DirRecord, Files
  <2>3. \A x \in TxCalls : ~Holds(x) /\ tx[x].at = "idle"
    BY <2>1 DEF TxInit, Holds
  <2>4. PoolInv
    <3>1. Holders = {}
      BY <2>3 DEF Holders
    <3>2. QED
      BY <2>3, <3>1, FS_EmptySet DEF TxInit, PoolInv
  <2>5. ASSUME NEW x \in TxCalls PROVE Control(x) /\ Faithful(x)
    BY <2>3 DEF TxInit, Control, Faithful
  <2>6. QED
    BY <2>2, <2>4, <2>5 DEF TxInv
<1>2. TxInv /\ [TxNext]_txVars => TxInv'
  <2> SUFFICES ASSUME TxInv, [TxNext]_txVars PROVE TxInv'
    OBVIOUS
  <2>1. CASE UNCHANGED txVars
    <3>1. TxType' /\ PoolInv'
      BY <2>1, PoolFrame DEF txVars, pool, txGhosts, TxInv, TxType
    <3>2. \A y \in TxCalls : Control(y)' /\ (~foreign'[y] => Faithful(y)')
      BY <2>1, OtherTx DEF txVars, pool, txGhosts
    <3>3. QED
      BY <3>1, <3>2 DEF TxInv
  <2>2. QED
    BY <2>1, TxQuietSteps, TxReleaseSteps, AcquireInv, CommandWritesInv, OutsideSteps DEF TxNext
<1>3. TxInv => TransactionSound
  <2> SUFFICES ASSUME TxInv PROVE TransactionSound
    OBVIOUS
  <2>1. TransactionFaithful
    BY DEF TxInv, Control, Faithful, TransactionFaithful
  <2>2. SnapshotHeld
    BY TxAssumption DEF TxInv, TxType, PoolInv, Holders, SnapshotHeld
  <2>3. QED
    BY <2>1, <2>2 DEF TransactionSound
<1>4. QED
  BY <1>1, <1>2, <1>3, PTL DEF TxSpec

-----------------------------------------------------------------------------
(* OutputBuffers.  Stream positions, buffer positions and the cursor stay  *)
(* in step: the buffer is the last part of the stream and ends at total,   *)
(* and neither the cursor nor a page is ahead of it.                       *)

(* A set of natural numbers that is not empty has a least element. *)
LEMMA LeastNumber ==
  ASSUME NEW S \in SUBSET Nat, S # {}
  PROVE  \E m \in S : \A j \in S : m <= j
<1> DEFINE R == {ss \in Nat \X Nat : ss[1] < ss[2]}
<1>1. IsWellFoundedOn(R, Nat)
  BY NatLessThanWellFounded, Zenon DEF OpToRel
<1>2. \E m \in S : \A j \in S : ~(<<j, m>> \in R)
  <2>1. S \subseteq Nat
    OBVIOUS
  <2> HIDE DEF R
  <2>2. QED
    BY <1>1, <2>1, WFMin, Zenon
<1>3. ASSUME NEW j \in Nat, NEW m \in Nat, j < m PROVE <<j, m>> \in R
  BY <1>3
<1> HIDE DEF R
<1>4. PICK m \in S : \A j \in S : <<j, m>> \notin R
  BY <1>2, Zenon
<1>5. \A j \in S : ~(j < m)
  BY <1>3, <1>4
<1>6. QED
  BY <1>5


Kinds == {"newline", "byte"}

OutputType ==
  /\ written \in Seq(Kinds) /\ ended \in BOOLEAN
  /\ buf \in Seq(Nat) /\ start \in Nat /\ total \in Nat /\ cursor \in Nat
  /\ reply.content \in Seq(Nat) /\ reply.since \in Nat
  /\ page.next \in Nat /\ page.omitted \in Nat

InStep ==
  /\ total <= Len(written) /\ cursor <= total /\ page.next <= total
  /\ Len(buf) <= BufferLimit /\ start + Len(buf) = total /\ dropped = start
  /\ \A k \in 1..Len(buf) : buf[k] = start + k - 1
  /\ total > 0 => Len(buf) > 0
  /\ page.done => ended

OutputInv == OutputType /\ InStep /\ PollsAccount /\ PagesAccount

(* What is left of a sequence from a position on *)
LEMMA FromProperties ==
  ASSUME NEW S, NEW s \in Seq(S), NEW k \in 1..Len(s) + 1
  PROVE  /\ From(s, k) \in Seq(S) /\ Len(From(s, k)) = Len(s) - k + 1
         /\ \A i \in 1..Len(s) - k + 1 : From(s, k)[i] = s[k + i - 1]
<1>1. Len(s) \in Nat /\ \A i \in k..Len(s) : s[i] \in S
  BY LenProperties, ElementOfSeq
<1>2. QED
  BY <1>1, SubSeqProperties DEF From

(* A line starts somewhere: there is a last position that no newline       *)
(* follows.                                                                *)
LEMMA LastLine ==
  ASSUME NEW s \in Seq(Nat)
  PROVE  \E k \in 1..Len(s) + 1 :
           /\ k = 1 \/ EndsLine(s[k - 1])
           /\ \A j \in k..Len(s) : ~EndsLine(s[j])
<1> DEFINE D == {d \in 0..Len(s) : d = Len(s) \/ EndsLine(s[Len(s) - d])}
<1>0. Len(s) \in Nat
  BY LenProperties
<1>1. Len(s) \in D /\ D \in SUBSET Nat
  BY <1>0
<1> HIDE DEF D
<1>2. PICK d \in D : \A e \in D : d <= e
  BY <1>1, LeastNumber
<1>3. d \in 0..Len(s) /\ (d = Len(s) \/ EndsLine(s[Len(s) - d]))
  BY <1>2 DEF D
<1> DEFINE k == Len(s) - d + 1
<1>4. k \in 1..Len(s) + 1 /\ k - 1 = Len(s) - d /\ (k = 1 <=> d = Len(s))
  BY <1>0, <1>3
<1>5. ASSUME NEW j \in k..Len(s), EndsLine(s[j]) PROVE FALSE
  <2>0. j \in Int /\ d \in Nat /\ Len(s) - d + 1 <= j /\ j <= Len(s) /\ d <= Len(s)
    BY <1>0, <1>3
  <2>1. Len(s) - j \in 0..Len(s) /\ Len(s) - (Len(s) - j) = j /\ Len(s) - j < d
    BY <1>0, <2>0
  <2>2. Len(s) - j \in D
    <3>1. EndsLine(s[Len(s) - (Len(s) - j)])
      BY <1>5, <2>1
    <3>2. QED
      BY <2>1, <3>1 DEF D
  <2>3. QED
    BY <1>2, <1>3, <2>1, <2>2, <1>0
<1>6. QED
  BY <1>3, <1>4, <1>5

(* t is a piece of s that fits into a reply and reaches to its end, but    *)
(* for the newline there.                                                  *)
EndOf(t, s) ==
  /\ t \in Seq(Nat) /\ Len(t) <= PollBytes
  /\ \E i \in Nat, j \in {0, 1} :
       /\ Len(t) + i + j = Len(s)
       /\ \A m \in 1..Len(t) : t[m] = s[m + i]
       /\ j = 1 => EndsLine(s[Len(s)])
       /\ Len(t) = 0 /\ Len(s) > 0 => j = 1

(* truncate_text_tail returns such a piece. *)
LEMMA TailShape ==
  ASSUME NEW s \in Seq(Nat)
  PROVE  EndOf(TruncateTail(s), s)
<1> DEFINE text == IF s # <<>> /\ EndsLine(s[Len(s)]) THEN SubSeq(s, 1, Len(s) - 1) ELSE s
           whole == {k \in 1..Len(text) + 1 :
                       (k = 1 \/ EndsLine(text[k - 1])) /\ Fits(From(text, k))}
           least == CHOOSE k \in whole : \A j \in whole : k <= j
<1>0. Len(s) \in Nat /\ \A i \in 1..Len(s) : s[i] \in Nat
  BY LenProperties, ElementOfSeq
<1>1. CASE Fits(s)
  <2>1. TruncateTail(s) = s /\ Len(s) <= PollBytes
    BY <1>1 DEF TruncateTail, Fits
  <2>2. Len(s) + 0 + 0 = Len(s) /\ \A m \in 1..Len(s) : s[m] = s[m + 0]
    BY <1>0
  <2>3. EndOf(s, s)
    <3>1. 0 \in Nat /\ 0 \in {0, 1} /\ (0 = 1 => EndsLine(s[Len(s)]))
          /\ ~(Len(s) = 0 /\ Len(s) > 0)
      BY <1>0
    <3>2. QED
      BY <2>1, <2>2, <3>1, Zenon DEF EndOf
  <2>4. QED
    BY <2>1, <2>3
<1>2. \E j \in {0, 1} :
        /\ text \in Seq(Nat) /\ Len(text) = Len(s) - j
        /\ \A m \in 1..Len(text) : text[m] = s[m]
        /\ j = 1 => EndsLine(s[Len(s)])
        /\ j = 0 => Len(s) = 0 \/ ~EndsLine(s[Len(s)])
  <2>1. CASE s # <<>> /\ EndsLine(s[Len(s)])
    <3>1. Len(s) > 0 /\ text = SubSeq(s, 1, Len(s) - 1)
      BY <2>1, EmptySeq
    <3>2. /\ text \in Seq(Nat) /\ Len(text) = Len(s) - 1
          /\ \A m \in 1..Len(s) - 1 : text[m] = s[m]
      <4>1. /\ SubSeq(s, 1, Len(s) - 1) \in Seq(Nat)
            /\ Len(SubSeq(s, 1, Len(s) - 1)) = IF 1 <= Len(s) - 1 THEN Len(s) - 1 - 1 + 1 ELSE 0
            /\ \A i \in 1..Len(s) - 1 - 1 + 1 : SubSeq(s, 1, Len(s) - 1)[i] = s[1 + i - 1]
        <5>1. \A i \in 1..Len(s) - 1 : s[i] \in Nat
          BY <1>0
        <5>2. Len(s) - 1 \in Int /\ 1 \in Int
          BY <1>0
        <5>3. QED
          BY <5>1, <5>2, SubSeqProperties
      <4> HIDE DEF text
      <4>2. ASSUME NEW m \in 1..Len(s) - 1 PROVE text[m] = s[m]
        <5>1. m \in 1..Len(s) - 1 - 1 + 1 /\ 1 + m - 1 = m
          BY <1>0, <4>2
        <5>2. QED
          BY <3>1, <4>1, <5>1
      <4>3. text \in Seq(Nat) /\ Len(text) = Len(s) - 1
        <5>1. \A n \in Nat \ {0} : (IF 1 <= n - 1 THEN n - 1 - 1 + 1 ELSE 0) = n - 1
          OBVIOUS
        <5>2. Len(s) \in Nat \ {0}
          BY <2>1, EmptySeq
        <5>3. QED
          BY <3>1, <4>1, <5>1, <5>2, Zenon
      <4>4. QED
        BY <4>2, <4>3
    <3> HIDE DEF text
    <3>3. QED
      BY <2>1, <3>2, <1>0
  <2>2. CASE ~(s # <<>> /\ EndsLine(s[Len(s)]))
    <3>1. text = s /\ (Len(s) = 0 \/ ~EndsLine(s[Len(s)]))
      BY <2>2, EmptySeq
    <3> HIDE DEF text
    <3>2. QED
      BY <3>1, <1>0
  <2>3. QED
    BY <2>1, <2>2
<1>3. PICK j \in {0, 1} :
        /\ text \in Seq(Nat) /\ Len(text) = Len(s) - j
        /\ \A m \in 1..Len(text) : text[m] = s[m]
        /\ j = 1 => EndsLine(s[Len(s)])
        /\ j = 0 => Len(s) = 0 \/ ~EndsLine(s[Len(s)])
  BY <1>2
<1>4. Len(text) \in Nat
  BY <1>3, LenProperties
<1>5. TruncateTail(s) = IF Fits(s) THEN s ELSE IF whole # {} THEN From(text, least)
                        ELSE From(text, Len(text) - PollBytes + 1)
  BY DEF TruncateTail
<1> HIDE DEF text
<1>6. ASSUME NEW k \in 1..Len(text) + 1, TruncateTail(s) = From(text, k),
             Len(From(text, k)) <= PollBytes,
             k = 1 \/ k <= Len(text) \/ EndsLine(text[k - 1])
      PROVE  EndOf(TruncateTail(s), s)
  <2>1. /\ From(text, k) \in Seq(Nat) /\ Len(From(text, k)) = Len(text) - k + 1
        /\ \A i \in 1..Len(text) - k + 1 : From(text, k)[i] = text[k + i - 1]
    BY <1>3, FromProperties
  <2>2. k - 1 \in Nat /\ Len(From(text, k)) + (k - 1) + j = Len(s)
    BY <1>0, <1>3, <1>4, <2>1
  <2>3. ASSUME NEW m \in 1..Len(From(text, k)) PROVE From(text, k)[m] = s[m + (k - 1)]
    <3>1. k + m - 1 = m + (k - 1) /\ k + m - 1 \in 1..Len(text) /\ m \in 1..Len(text) - k + 1
      BY <1>4, <2>1
    <3>2. QED
      BY <1>3, <2>1, <3>1
  <2>4. ASSUME Len(From(text, k)) = 0, Len(s) > 0 PROVE j = 1
    <3>1. k = Len(text) + 1
      BY <1>4, <2>1, <2>4
    <3>2. CASE Len(text) = 0
      BY <1>0, <1>3, <2>4, <3>2
    <3>3. CASE Len(text) # 0
      <4>1. EndsLine(text[k - 1]) /\ k - 1 = Len(text) /\ Len(text) \in 1..Len(text)
        BY <1>4, <1>6, <3>1, <3>3
      <4>2. EndsLine(s[Len(text)])
        <5>1. text[Len(text)] = s[Len(text)]
          BY <1>3, <4>1
        <5>2. QED
          BY <4>1, <5>1
      <4>3. ASSUME j = 0 PROVE FALSE
        <5>1. Len(text) = Len(s)
          BY <1>0, <1>3, <4>3
        <5>2. QED
          BY <1>0, <1>3, <2>4, <4>2, <4>3, <5>1
      <4>4. QED
        BY <4>3
    <3>4. QED
      BY <3>2, <3>3
  <2>5. QED
    BY <1>3, <1>6, <2>1, <2>2, <2>3, <2>4 DEF EndOf
<1>7. CASE ~Fits(s) /\ whole # {}
  <2>1. \E k \in whole : \A i \in whole : k <= i
    <3>1. whole \in SUBSET Nat
      BY <1>4
    <3> HIDE DEF whole
    <3>2. QED
      BY <1>7, <3>1, LeastNumber
  <2>2. least \in whole
    <3> HIDE DEF whole
    <3>1. QED
      BY <2>1
  <2>3. least \in 1..Len(text) + 1 /\ (least = 1 \/ EndsLine(text[least - 1]))
        /\ Fits(From(text, least))
    <3> HIDE DEF least
    <3>1. QED
      BY <2>2
  <2>4. TruncateTail(s) = From(text, least)
    BY <1>5, <1>7
  <2> HIDE DEF least
  <2>5. QED
    BY <1>6, <2>3, <2>4 DEF Fits
<1>8. CASE ~Fits(s) /\ whole = {}
  <2>1. PICK k \in 1..Len(text) + 1 :
          /\ k = 1 \/ EndsLine(text[k - 1])
          /\ \A i \in k..Len(text) : ~EndsLine(text[i])
    BY <1>3, LastLine
  <2> DEFINE line == From(text, k)
  <2>2. /\ line \in Seq(Nat) /\ Len(line) = Len(text) - k + 1
        /\ \A i \in 1..Len(text) - k + 1 : line[i] = text[k + i - 1]
    BY <1>3, FromProperties
  <2>3. ~Fits(line)
    BY <1>8, <2>1
  <2> HIDE DEF line
  <2>4. ASSUME NEW i \in DOMAIN line PROVE ~EndsLine(line[i])
    <3>1. i \in 1..Len(text) - k + 1 /\ k + i - 1 \in k..Len(text)
      <4>1. i \in 1..Len(line)
        BY <2>2, <2>4, LenProperties
      <4>2. QED
        BY <1>4, <2>2, <4>1
    <3>2. QED
      BY <2>1, <2>2, <3>1
  <2>5. LineCount(line) = 1
    <3>1. {i \in DOMAIN line : EndsLine(line[i])} = {}
      BY <2>4
    <3>2. QED
      BY <3>1, FS_EmptySet DEF LineCount
  <2>6. Len(line) > PollBytes
    BY <2>2, <2>3, <2>5, OutputAssumption, LenProperties DEF Fits
  <2> DEFINE p == Len(text) - PollBytes + 1
  <2>7. p \in 1..Len(text) + 1 /\ p <= Len(text) /\ Len(text) - p + 1 = PollBytes
    BY <1>4, <2>2, <2>6, OutputAssumption
  <2>8. TruncateTail(s) = From(text, p)
    BY <1>5, <1>8
  <2> HIDE DEF p
  <2>9. Len(From(text, p)) <= PollBytes
    <3>1. Len(From(text, p)) = Len(text) - p + 1
      BY <1>3, <2>7, FromProperties
    <3>2. QED
      BY <2>7, <3>1, OutputAssumption
  <2>10. QED
    BY <1>6, <2>7, <2>8, <2>9
<1>9. QED
  BY <1>1, <1>7, <1>8

(* The command writes: what was said of earlier bytes stays true. *)
LEMMA WriteInv ==
  ASSUME OutputInv, NEW kind \in Kinds, Write(kind)
  PROVE  OutputInv'
<1>1. /\ written \in Seq(Kinds) /\ written' \in Seq(Kinds) /\ Len(written') = Len(written) + 1
      /\ Len(written) \in Nat /\ \A i \in 1..Len(written) : written'[i] = written[i]
  BY AppendProperties, LenProperties DEF OutputInv, OutputType, Write
<1>2. ~page.done /\ UNCHANGED <<ended, buf, start, total, dropped, cursor, polled, reply, page>>
  BY DEF OutputInv, InStep, Write
<1>3. OutputType'
  BY <1>1, <1>2 DEF OutputInv, OutputType
<1>4. InStep'
  BY <1>1, <1>2, <1>3 DEF OutputInv, OutputType, InStep
<1>5. cursor > 0 => (EndsLine(cursor - 1)' <=> EndsLine(cursor - 1))
  <2>1. cursor > 0 => cursor - 1 + 1 \in 1..Len(written)
    BY <1>1 DEF OutputInv, OutputType, InStep
  <2>2. QED
    BY <1>1, <1>2, <2>1 DEF EndsLine
<1>6. PollsAccount'
  BY <1>2, <1>5 DEF OutputInv, OutputType, PollsAccount
<1>7. PagesAccount'
  BY <1>2 DEF OutputInv, PagesAccount
<1>8. QED
  BY <1>3, <1>4, <1>6, <1>7 DEF OutputInv

(* The reader thread appends a chunk and trims the front of the buffer. *)
LEMMA AppendInv ==
  ASSUME OutputInv, NEW n \in 1..MaxBytes, AppendOutput(n)
  PROVE  OutputInv'
<1> DEFINE chunk == [k \in 1..n |-> total + k - 1]
           all == buf \o chunk
           overflow == Len(all) - BufferLimit
           o == AtLeast(overflow, 0)
<1>t. /\ buf \in Seq(Nat) /\ Len(buf) \in Nat /\ start \in Nat /\ total \in Nat /\ dropped = start
      /\ start + Len(buf) = total /\ Len(buf) <= BufferLimit /\ n \in Nat /\ n >= 1
      /\ \A k \in 1..Len(buf) : buf[k] = start + k - 1
      /\ BufferLimit \in Nat /\ BufferLimit >= 1
  BY LenProperties, OutputAssumption DEF OutputInv, OutputType, InStep
<1>1. chunk \in Seq(Nat) /\ Len(chunk) = n
  <2>1. chunk \in [1..n -> Nat]
    BY <1>t
  <2> HIDE DEF chunk
  <2>2. chunk \in Seq(Nat)
    BY <1>t, <2>1, SeqDef
  <2>3. QED
    BY <1>t, <2>1, <2>2, LenProperties
<1>2. /\ all \in Seq(Nat) /\ Len(all) = Len(buf) + n
      /\ \A i \in 1..Len(buf) + n : all[i] = start + i - 1
  <2>1. /\ all \in Seq(Nat) /\ Len(all) = Len(buf) + n
        /\ \A i \in 1..Len(buf) + n :
             all[i] = IF i <= Len(buf) THEN buf[i] ELSE chunk[i - Len(buf)]
    <3> HIDE DEF chunk
    <3>1. QED
      BY <1>t, <1>1, ConcatProperties
  <2>2. ASSUME NEW i \in 1..Len(buf) + n PROVE all[i] = start + i - 1
    <3>1. CASE i <= Len(buf)
      <4> HIDE DEF all, chunk
      <4>1. i \in 1..Len(buf)
        BY <1>t, <3>1
      <4>2. QED
        BY <1>t, <2>1, <3>1, <4>1
    <3>2. CASE ~(i <= Len(buf))
      <4>1. i - Len(buf) \in 1..n
        BY <1>t, <3>2
      <4>2. \A k \in 1..n : chunk[k] = total + k - 1
        OBVIOUS
      <4> HIDE DEF all, chunk
      <4>3. chunk[i - Len(buf)] = total + (i - Len(buf)) - 1
        BY <4>1, <4>2
      <4>4. total + (i - Len(buf)) - 1 = start + i - 1
        BY <1>t, SMTT(40)
      <4>5. QED
        BY <2>1, <3>2, <4>3, <4>4
    <3>3. QED
      BY <3>1, <3>2
  <2> HIDE DEF all
  <2>3. QED
    BY <2>1, <2>2
<1>3. /\ total + n <= Len(written) /\ buf' = From(all, o + 1) /\ total' = total + n
      /\ start' = (IF overflow > 0 THEN total + n - BufferLimit ELSE start)
      /\ dropped' = dropped + o
      /\ UNCHANGED <<written, ended, cursor, polled, reply, page>>
  <2>1. UNCHANGED <<written, ended, cursor, polled, reply, page>>
    BY DEF AppendOutput
  <2>2. /\ total + n <= Len(written) /\ buf' = From(all, o + 1) /\ total' = total + n
        /\ start' = StartAfter(overflow, total + n) /\ dropped' = dropped + o
    BY Zenon DEF AppendOutput
  <2> HIDE DEF all, chunk, overflow, o
  <2>3. QED
    BY <1>t, <2>1, <2>2 DEF StartAfter
<1> HIDE DEF all, chunk
<1>4. /\ o \in Nat /\ o + 1 \in 1..Len(all) + 1 /\ start' = start + o
      /\ Len(all) - o <= BufferLimit /\ Len(all) - o >= 1
  <2>1. Len(all) = Len(buf) + n /\ overflow = Len(buf) + n - BufferLimit
        /\ o = IF overflow > 0 THEN overflow ELSE 0
    <3>1. Len(all) = Len(buf) + n
      BY <1>2
    <3>2. QED
      BY <1>t, <3>1 DEF AtLeast
  <2>2. start' = IF overflow > 0 THEN total + n - BufferLimit ELSE start
    BY <1>3
  <2> HIDE DEF o, overflow
  <2>3. CASE overflow > 0
    <3>1. o = Len(buf) + n - BufferLimit /\ o > 0 /\ Len(all) = Len(buf) + n
          /\ start' = total + n - BufferLimit
      BY <2>1, <2>2, <2>3
    <3>2. QED
      BY <1>t, <3>1, SMTT(40)
  <2>4. CASE ~(overflow > 0)
    <3>1. o = 0 /\ ~(Len(buf) + n - BufferLimit > 0) /\ Len(all) = Len(buf) + n /\ start' = start
      BY <2>1, <2>2, <2>4
    <3>2. QED
      BY <1>t, <3>1
  <2>5. QED
    BY <2>3, <2>4
<1> HIDE DEF o, overflow
<1>5. /\ buf' \in Seq(Nat) /\ Len(buf') = Len(all) - o
      /\ \A i \in 1..Len(all) - o : buf'[i] = all[o + i]
  <2>1. /\ buf' \in Seq(Nat) /\ Len(buf') = Len(all) - (o + 1) + 1
        /\ \A i \in 1..Len(all) - (o + 1) + 1 : buf'[i] = all[o + 1 + i - 1]
    BY <1>2, <1>3, <1>4, FromProperties
  <2>2. Len(all) - (o + 1) + 1 = Len(all) - o
    BY <1>t, <1>2, <1>4
  <2>3. ASSUME NEW i \in 1..Len(all) - o PROVE buf'[i] = all[o + i]
    <3>1. o + 1 + i - 1 = o + i
      BY <1>4
    <3>2. QED
      BY <2>1, <2>2, <3>1
  <2>4. QED
    BY <2>1, <2>2, <2>3
<1>6. \A k \in 1..Len(buf') : buf'[k] = start' + k - 1
  BY <1>t, <1>2, <1>4, <1>5
<1>7. start' + Len(buf') = total' /\ total' \in Nat /\ start' \in Nat /\ dropped' = start'
      /\ Len(buf') \in Nat /\ Len(buf') <= BufferLimit /\ Len(buf') > 0
  <2>1. Len(buf') = Len(buf) + n - o /\ total' = total + n /\ dropped' = dropped + o
    <3>1. Len(buf') = Len(all) - o
      BY <1>5
    <3>2. Len(all) = Len(buf) + n
      BY <1>2
    <3>3. total' = total + n /\ dropped' = dropped + o
      BY <1>3
    <3>4. QED
      BY <1>t, <1>4, <3>1, <3>2, <3>3
  <2>2. Len(buf) + n - o <= BufferLimit /\ Len(buf) + n - o >= 1
    BY <1>2, <1>4
  <2>3. QED
    <3>1. o \in Nat /\ start' = start + o
      BY <1>4
    <3>2. QED
      BY <1>t, <2>1, <2>2, <3>1
<1>8. OutputType'
  BY <1>3, <1>5, <1>7 DEF OutputInv, OutputType
<1>9. InStep'
  BY <1>t, <1>3, <1>6, <1>7, SMTT(40) DEF OutputInv, OutputType, InStep
<1>10. PollsAccount'
  BY <1>3 DEF OutputInv, PollsAccount, EndsLine
<1>11. PagesAccount'
  <2>1. DOMAIN buf' = 1..Len(buf')
    BY <1>5, LenProperties
  <2>2. QED
    BY <1>3, <1>6, <1>7, <2>1 DEF OutputInv, PagesAccount
<1>12. QED
  BY <1>8, <1>9, <1>10, <1>11 DEF OutputInv

(* A poll takes every byte from the cursor on: those that were trimmed are *)
(* omitted, the others shown or cut.                                       *)
LEMMA PollInv ==
  ASSUME OutputInv, Poll
  PROVE  OutputInv'
<1> DEFINE omitted == AtLeast(0, start - cursor)
           first == AtLeast(0, cursor - start) + 1
           data == From(buf, first)
           content == TruncateTail(data)
           b == cursor + omitted
<1>t. /\ buf \in Seq(Nat) /\ Len(buf) \in Nat /\ start \in Nat /\ total \in Nat /\ cursor \in Nat
      /\ start + Len(buf) = total /\ cursor <= total /\ (total > 0 => Len(buf) > 0)
      /\ \A k \in 1..Len(buf) : buf[k] = start + k - 1
      /\ PollBytes \in Nat /\ PollBytes >= 1
  BY LenProperties, OutputAssumption DEF OutputInv, OutputType, InStep
<1>1. /\ cursor' = total
      /\ reply' = [content |-> content, truncated |-> content # data \/ omitted > 0,
                   since |-> cursor]
      /\ polled' = [shown   |-> polled.shown \cup BytesOf(content),
                    cut     |-> polled.cut \cup (BytesOf(data) \ BytesOf(content)),
                    omitted |-> polled.omitted \cup cursor..cursor + omitted - 1]
  BY Zenon DEF Poll
<1>2. UNCHANGED <<written, ended, buf, start, total, dropped, page>>
  BY DEF Poll
<1>3. /\ omitted \in Nat /\ first \in 1..Len(buf) + 1 /\ b = start + first - 1
      /\ Len(buf) - first + 1 = total - b /\ b \in Nat /\ cursor <= b /\ b <= total
      /\ (cursor < total => b < total) /\ (omitted = 0 => b = cursor)
  <2>1. CASE start > cursor
    <3>1. omitted = start - cursor /\ first = 1 /\ b = start
      BY <1>t, <2>1 DEF AtLeast
    <3> HIDE DEF omitted, first, b
    <3>2. QED
      BY <1>t, <2>1, <3>1
  <2>2. CASE ~(start > cursor)
    <3>1. omitted = 0 /\ first = cursor - start + 1 /\ b = cursor
      BY <1>t, <2>2 DEF AtLeast
    <3> HIDE DEF omitted, first, b
    <3>2. QED
      BY <1>t, <2>2, <3>1
  <2>3. QED
    BY <2>1, <2>2
<1> HIDE DEF omitted, first
<1>4. /\ data \in Seq(Nat) /\ Len(data) = total - b
      /\ \A i \in 1..total - b : data[i] = b + i - 1
  <2>1. /\ data \in Seq(Nat) /\ Len(data) = Len(buf) - first + 1
        /\ \A i \in 1..Len(buf) - first + 1 : data[i] = buf[first + i - 1]
    BY <1>t, <1>3, FromProperties
  <2> HIDE DEF data, b
  <2>2. ASSUME NEW i \in 1..total - b PROVE data[i] = b + i - 1
    <3>1. first + i - 1 \in 1..Len(buf) /\ start + (first + i - 1) - 1 = b + i - 1
      BY <1>t, <1>3
    <3>2. data[i] = buf[first + i - 1]
      BY <1>3, <2>1
    <3>3. QED
      BY <1>t, <3>1, <3>2
  <2>3. QED
    BY <1>3, <2>1, <2>2
<1>5. EndOf(content, data)
  BY <1>4, TailShape
<1> HIDE DEF data, content
<1>6. PICK i \in Nat, j \in {0, 1} :
        /\ Len(content) + i + j = Len(data)
        /\ \A m \in 1..Len(content) : content[m] = data[m + i]
        /\ j = 1 => EndsLine(data[Len(data)])
        /\ Len(content) = 0 /\ Len(data) > 0 => j = 1
  BY <1>5 DEF EndOf
<1>7. /\ content \in Seq(Nat) /\ Len(content) \in Nat /\ Len(content) <= PollBytes
      /\ DOMAIN content = 1..Len(content) /\ DOMAIN data = 1..Len(data)
  BY <1>4, <1>5, LenProperties DEF EndOf
<1> HIDE DEF b
<1>8. /\ b + i + Len(content) + j = total
      /\ \A m \in 1..Len(content) : content[m] = b + i + m - 1
  <2>1. ASSUME NEW m \in 1..Len(content) PROVE content[m] = b + i + m - 1
    <3>1. m + i \in 1..total - b
      BY <1>3, <1>4, <1>6, <1>7
    <3>2. QED
      BY <1>3, <1>4, <1>6, <3>1
  <2>2. QED
    BY <1>t, <1>3, <1>4, <1>6, <1>7, <2>1
<1>9. BytesOf(data) = b..total - 1
  <2>1. ASSUME NEW x \in b..total - 1 PROVE x \in BytesOf(data)
    <3>1. x - b + 1 \in 1..total - b /\ x = b + (x - b + 1) - 1
      BY <1>t, <1>3
    <3>2. x - b + 1 \in DOMAIN data /\ data[x - b + 1] = x
      BY <1>4, <1>7, <3>1
    <3>3. QED
      BY <3>2 DEF BytesOf
  <2>2. ASSUME NEW k \in DOMAIN data PROVE data[k] \in b..total - 1
    <3>1. k \in 1..total - b /\ data[k] = b + k - 1
      BY <1>4, <1>7, <2>2
    <3>2. QED
      BY <1>t, <1>3, <3>1, SMTT(40)
  <2>3. QED
    BY <2>1, <2>2 DEF BytesOf
<1>10. BytesOf(content) \subseteq BytesOf(data)
  <2>1. ASSUME NEW k \in DOMAIN content PROVE content[k] \in b..total - 1
    <3>1. k \in 1..Len(content) /\ content[k] = b + i + k - 1
      BY <1>7, <1>8
    <3>2. b + i + Len(content) <= total /\ Len(content) \in Nat
      BY <1>t, <1>3, <1>6, <1>7, <1>8, SMTT(40)
    <3>3. b + i + k - 1 \in b..total - 1
      <4>1. k \in Nat /\ 1 <= k /\ k <= Len(content) /\ b \in Nat /\ total \in Nat /\ i \in Nat
        BY <1>t, <1>3, <3>1, <3>2
      <4>2. QED
        BY <3>2, <4>1
    <3>4. QED
      BY <3>1, <3>3
  <2>2. QED
    BY <1>9, <2>1 DEF BytesOf
<1>11. /\ polled'.shown \cup polled'.cut \cup polled'.omitted = 0..cursor' - 1
       /\ polled'.shown \cap (polled'.cut \cup polled'.omitted) = {}
       /\ polled'.cut \cap polled'.omitted = {}
  <2>1. /\ polled.shown \cup polled.cut \cup polled.omitted = 0..cursor - 1
        /\ polled.shown \cap (polled.cut \cup polled.omitted) = {}
        /\ polled.cut \cap polled.omitted = {}
    BY DEF OutputInv, PollsAccount
  <2> DEFINE C == BytesOf(content)
             D == BytesOf(data)
             O == cursor..cursor + omitted - 1
  <2>2. /\ polled'.shown = polled.shown \cup C /\ polled'.cut = polled.cut \cup (D \ C)
        /\ polled'.omitted = polled.omitted \cup O /\ C \subseteq D
    BY <1>1, <1>10
  <2>3. /\ 0..cursor' - 1 = (0..cursor - 1) \cup D \cup O
        /\ (0..cursor - 1) \cap D = {} /\ (0..cursor - 1) \cap O = {} /\ D \cap O = {}
    BY <1>t, <1>1, <1>3, <1>9, SMTT(40) DEF b
  <2> HIDE DEF C, D, O
  <2>4. QED
    BY <2>1, <2>2, <2>3
<1>12. /\ reply'.content = content /\ reply'.since = cursor
       /\ reply'.truncated <=> (content # data \/ omitted > 0)
  BY <1>1
<1>13. ~reply'.truncated => Len(reply'.content) = cursor' - reply'.since
  <2>1. ASSUME ~reply'.truncated PROVE Len(content) = total - cursor
    <3>1. content = data /\ b = cursor
      BY <1>3, <1>12, <2>1
    <3>2. QED
      BY <1>4, <3>1
  <2>2. QED
    BY <1>1, <1>12, <2>1
<1>14. \A k \in DOMAIN reply'.content : reply'.content[k] = reply'.content[1] + k - 1
  <2>1. ASSUME NEW k \in 1..Len(content) PROVE content[k] = content[1] + k - 1
    <3>1. content[1] = b + i + 1 - 1 /\ content[k] = b + i + k - 1
      BY <1>7, <1>8
    <3>2. QED
      BY <1>3, <1>6, <3>1
  <2>2. QED
    BY <1>7, <1>12, <2>1
<1>15. ASSUME cursor' > reply'.since
       PROVE  IF reply'.content = <<>> THEN EndsLine(cursor - 1)'
              ELSE \/ reply'.content[Len(reply'.content)] = cursor' - 1
                   \/ /\ EndsLine(cursor - 1)'
                      /\ reply'.content[Len(reply'.content)] = cursor' - 2
  <2>1. cursor < total /\ Len(data) > 0 /\ data[Len(data)] = total - 1
    BY <1>t, <1>1, <1>3, <1>4, <1>12, <1>15
  <2>2. j = 1 => EndsLine(total - 1)
    BY <1>6, <2>1
  <2>3. EndsLine(cursor - 1)' <=> EndsLine(total - 1)
    BY <1>1, <1>2 DEF EndsLine
  <2>4. CASE content = <<>>
    <3>1. Len(content) = 0
      BY <2>4
    <3>2. QED
      BY <1>6, <1>12, <2>1, <2>2, <2>3, <2>4, <3>1
  <2>5. CASE content # <<>>
    <3>1. Len(content) > 0 /\ Len(content) \in 1..Len(content)
      BY <1>7, <2>5, EmptySeq
    <3>2. content[Len(content)] = b + i + Len(content) - 1
      BY <1>8, <3>1
    <3>3. b + i + Len(content) - 1 = total - 1 - j
      BY <1>t, <1>3, <1>6, <1>7, <1>8
    <3>4. CASE j = 0
      BY <1>t, <1>1, <1>12, <2>5, <3>2, <3>3, <3>4
    <3>5. CASE j = 1
      <4>1. content[Len(content)] = total - 2
        BY <1>t, <3>2, <3>3, <3>5
      <4>2. QED
        BY <1>1, <1>12, <2>2, <2>3, <2>5, <3>5, <4>1
    <3>6. QED
      BY <3>4, <3>5
  <2>6. QED
    BY <2>4, <2>5
<1>16. PollsAccount'
  BY <1>7, <1>11, <1>12, <1>13, <1>14, <1>15 DEF PollsAccount
<1>17. OutputType'
  BY <1>t, <1>1, <1>2, <1>7, <1>12 DEF OutputInv, OutputType
<1>18. InStep'
  BY <1>t, <1>1, <1>2 DEF OutputInv, InStep
<1>19. PagesAccount'
  BY <1>2 DEF OutputInv, PagesAccount
<1>20. QED
  BY <1>16, <1>17, <1>18, <1>19 DEF OutputInv

(* A page starts where the last one ended or where the buffer starts now,  *)
(* and the bytes in between are counted as omitted.                        *)
LEMMA ReadPageInv ==
  ASSUME OutputInv, NEW limit \in PageLimits, ReadPage(limit)
  PROVE  OutputInv'
<1> DEFINE offset == PageOffset(page.next)
           from == AtLeast(0, offset - start)
           to == AtMost(from + limit, Len(buf))
           chunk == SubSeq(buf, from + 1, to)
           next == offset + Len(chunk)
<1>t. /\ buf \in Seq(Nat) /\ Len(buf) \in Nat /\ start \in Nat /\ total \in Nat
      /\ page.next \in Nat /\ page.omitted \in Nat /\ page.next <= total
      /\ start + Len(buf) = total /\ limit \in Nat /\ limit >= 1
      /\ \A k \in 1..Len(buf) : buf[k] = start + k - 1 /\ buf[k] \in Nat
      /\ page.read \subseteq 0..page.next - 1
      /\ Cardinality(page.read) + page.omitted = page.next
  <2>1. OutputType /\ InStep /\ PagesAccount
    BY DEF OutputInv
  <2>2. /\ buf \in Seq(Nat) /\ start \in Nat /\ total \in Nat
        /\ page.next \in Nat /\ page.omitted \in Nat
    BY <2>1 DEF OutputType
  <2>3. /\ page.next <= total /\ start + Len(buf) = total
        /\ \A k \in 1..Len(buf) : buf[k] = start + k - 1
    BY <2>1 DEF InStep
  <2>4. page.read \subseteq 0..page.next - 1 /\ Cardinality(page.read) + page.omitted = page.next
    BY <2>1 DEF PagesAccount
  <2>5. Len(buf) \in Nat /\ \A k \in 1..Len(buf) : buf[k] \in Nat
    BY <2>2, LenProperties, ElementOfSeq
  <2>6. limit \in Nat /\ limit >= 1
    BY OutputAssumption
  <2> QED  BY <2>2, <2>3, <2>4, <2>5, <2>6
<1>1. page' = [next |-> next, read |-> page.read \cup BytesOf(chunk),
               omitted |-> page.omitted + AtLeast(0, start - page.next),
               done |-> ended /\ next >= total /\ total = Len(written)]
  BY Zenon DEF ReadPage
<1>2. UNCHANGED <<written, ended, buf, start, total, dropped, cursor, polled, reply>>
  BY DEF ReadPage
<1>3. /\ offset \in Nat /\ page.next <= offset /\ offset <= total /\ from = offset - start
      /\ from \in Nat /\ from <= Len(buf) /\ AtLeast(0, start - page.next) = offset - page.next
  <2>1. CASE page.next > start
    <3>1. offset = page.next /\ AtLeast(0, start - page.next) = 0
      BY <1>t, <2>1 DEF PageOffset, AtLeast
    <3> HIDE DEF offset
    <3>2. QED
      BY <1>t, <2>1, <3>1, SMTT(40) DEF AtLeast
  <2>2. CASE ~(page.next > start)
    <3>1. offset = start /\ AtLeast(0, start - page.next) = start - page.next
      BY <1>t, <2>2 DEF PageOffset, AtLeast
    <3> HIDE DEF offset
    <3>2. QED
      BY <1>t, <2>2, <3>1 DEF AtLeast
  <2>3. QED
    BY <2>1, <2>2
<1> HIDE DEF offset, from
<1>4. to \in from..Len(buf)
  BY <1>t, <1>3 DEF AtMost
<1> HIDE DEF to
<1>5. /\ chunk \in Seq(Nat) /\ Len(chunk) = to - from /\ Len(chunk) \in Nat
      /\ DOMAIN chunk = 1..Len(chunk)
      /\ \A i \in 1..Len(chunk) : chunk[i] = offset + i - 1
  <2>1. from + 1 \in Int /\ to \in Int /\ \A i \in from + 1..to : buf[i] \in Nat
    BY <1>t, <1>3, <1>4, SMTT(40)
  <2>2. /\ chunk \in Seq(Nat)
        /\ Len(chunk) = IF from + 1 <= to THEN to - (from + 1) + 1 ELSE 0
        /\ \A i \in 1..to - (from + 1) + 1 : chunk[i] = buf[from + 1 + i - 1]
    BY <2>1, SubSeqProperties
  <2> HIDE DEF chunk
  <2>3. Len(chunk) = to - from /\ Len(chunk) \in Nat
    BY <1>3, <1>4, <2>2
  <2>4. ASSUME NEW i \in 1..Len(chunk) PROVE chunk[i] = offset + i - 1
    <3>1. i \in 1..to - (from + 1) + 1 /\ from + 1 + i - 1 \in 1..Len(buf)
      BY <1>t, <1>3, <1>4, <2>3
    <3>2. chunk[i] = start + (from + 1 + i - 1) - 1
      BY <1>t, <2>2, <3>1
    <3>3. QED
      BY <1>t, <1>3, <3>2
  <2>5. QED
    BY <2>2, <2>3, <2>4, LenProperties
<1> HIDE DEF chunk
<1>6. next \in Nat /\ offset <= next /\ next <= total /\ next - offset = Len(chunk)
  BY <1>t, <1>3, <1>4, <1>5
<1>7. BytesOf(chunk) = offset..next - 1
  <2>1. ASSUME NEW x \in offset..next - 1 PROVE x \in BytesOf(chunk)
    <3>1. x - offset + 1 \in 1..Len(chunk) /\ x = offset + (x - offset + 1) - 1
      BY <1>3, <1>5, <1>6
    <3>2. x - offset + 1 \in DOMAIN chunk /\ chunk[x - offset + 1] = x
      BY <1>5, <3>1
    <3>3. QED
      BY <3>2 DEF BytesOf
  <2>2. ASSUME NEW k \in DOMAIN chunk PROVE chunk[k] \in offset..next - 1
    <3>1. k \in 1..Len(chunk) /\ chunk[k] = offset + k - 1
      BY <1>5, <2>2
    <3>2. offset + k - 1 \in offset..next - 1
      BY <1>3, <1>5, <3>1
    <3>3. QED
      BY <3>1, <3>2
  <2>3. QED
    BY <2>1, <2>2 DEF BytesOf
<1> HIDE DEF next
<1>8. Cardinality(page.read \cup offset..next - 1) = Cardinality(page.read) + (next - offset)
  <2> DEFINE B == offset..next - 1
  <2>1. IsFiniteSet(B) /\ Cardinality(B) = next - offset
    <3>1. /\ IsFiniteSet(offset..next - 1)
          /\ Cardinality(offset..next - 1) =
               IF offset > next - 1 THEN 0 ELSE next - 1 - offset + 1
      <4>1. offset \in Int /\ next - 1 \in Int
        BY <1>3, <1>6
      <4>2. QED
        BY <4>1, FS_Interval
    <3>2. QED
      BY <1>3, <1>6, <3>1
  <2>2. IsFiniteSet(page.read) /\ Cardinality(page.read) \in Nat
    <3>1. IsFiniteSet(0..page.next - 1)
      <4>1. 0 \in Int /\ page.next - 1 \in Int
        BY <1>t
      <4>2. QED
        BY <4>1, FS_Interval
    <3>2. QED
      BY <1>t, <3>1, FS_Subset, FS_CardinalityType
  <2>3. page.read \cap B = {}
    BY <1>t, <1>3
  <2> HIDE DEF B
  <2>4. Cardinality(page.read \cup B) =
          Cardinality(page.read) + Cardinality(B) - Cardinality(page.read \cap B)
    BY <2>1, <2>2, FS_Union
  <2>5. Cardinality(page.read \cap B) = 0
    BY <2>3, FS_EmptySet
  <2>6. QED
    BY <1>3, <1>6, <2>1, <2>2, <2>4, <2>5 DEF B
<1>9. /\ page'.next = next /\ page'.read = page.read \cup offset..next - 1
      /\ page'.omitted = page.omitted + (offset - page.next)
      /\ page'.done => ended /\ next >= total /\ total = Len(written)
  BY <1>1, <1>3, <1>7
<1>10. /\ page'.read \subseteq 0..page'.next - 1
       /\ Cardinality(page'.read) + page'.omitted = page'.next
       /\ page'.done => page'.next = Len(written)
  <2>1. page.read \cup offset..next - 1 \subseteq 0..next - 1
    BY <1>t, <1>3, <1>6, SMTT(40)
  <2>2. Cardinality(page.read) \in Nat
    <3>1. IsFiniteSet(0..page.next - 1)
      <4>1. 0 \in Int /\ page.next - 1 \in Int
        BY <1>t
      <4>2. QED
        BY <4>1, FS_Interval
    <3>2. QED
      BY <1>t, <3>1, FS_Subset, FS_CardinalityType
  <2>3. Cardinality(page.read) + (next - offset) + (page.omitted + (offset - page.next)) = next
    <3>1. \A c, om, p, n, f \in Int : c + om = p => c + (n - f) + (om + (f - p)) = n
      OBVIOUS
    <3>2. /\ Cardinality(page.read) \in Int /\ page.omitted \in Int /\ page.next \in Int
          /\ next \in Int /\ offset \in Int
      BY <1>t, <1>3, <1>6, <2>2
    <3>3. QED
      BY <1>t, <3>1, <3>2, SMTT(40)
  <2>4. ASSUME page'.done PROVE page'.next = Len(written)
    BY <1>t, <1>6, <1>9, <2>4
  <2>5. QED
    BY <1>8, <1>9, <2>1, <2>3, <2>4
<1>11. OutputType'
  BY <1>t, <1>2, <1>3, <1>6, <1>9, SMTT(40) DEF OutputInv, OutputType
<1>12. InStep'
  BY <1>2, <1>6, <1>9 DEF OutputInv, InStep
<1>13. PollsAccount'
  BY <1>2 DEF OutputInv, PollsAccount, EndsLine
<1>14. PagesAccount'
  BY <1>2, <1>10 DEF OutputInv, PagesAccount
<1>15. QED
  BY <1>11, <1>12, <1>13, <1>14 DEF OutputInv

(* No byte of output is lost or repeated without the client being told, by *)
(* polling or by pages, for any limits, chunks and order of reads.         *)
THEOREM OutputIsAccounted == OutputSpec => []OutputAccounted
<1>1. OutputInit => OutputInv
  <2> SUFFICES ASSUME OutputInit PROVE OutputInv
    OBVIOUS
  <2>1. OutputType /\ InStep
    <3>1. OutputType
      BY EmptySeq DEF OutputInit, OutputType
    <3>2. Len(buf) = 0 /\ Len(written) = 0 /\ start = 0 /\ total = 0 /\ dropped = 0 /\ cursor = 0
          /\ page.next = 0 /\ ~page.done
      BY EmptySeq DEF OutputInit
    <3>3. InStep
      BY <3>2, OutputAssumption DEF InStep
    <3>4. QED
      BY <3>1, <3>3
  <2>2. PollsAccount
    BY OutputAssumption, EmptySeq DEF OutputInit, PollsAccount
  <2>3. PagesAccount
    BY OutputAssumption, EmptySeq, FS_EmptySet DEF OutputInit, PagesAccount
  <2>4. QED
    BY <2>1, <2>2, <2>3 DEF OutputInv
<1>2. OutputInv /\ [OutputNext]_outputVars => OutputInv'
  <2> SUFFICES ASSUME OutputInv, [OutputNext]_outputVars PROVE OutputInv'
    OBVIOUS
  <2>1. CASE Exit
    BY <2>1 DEF Exit, OutputInv, OutputType, InStep, PollsAccount, PagesAccount, EndsLine
  <2>2. CASE UNCHANGED outputVars
    BY <2>2 DEF outputVars, OutputInv, OutputType, InStep, PollsAccount, PagesAccount, EndsLine
  <2>3. QED
    BY <2>1, <2>2, WriteInv, AppendInv, PollInv, ReadPageInv DEF OutputNext, Kinds
<1>3. OutputInv => OutputAccounted
  BY DEF OutputInv, OutputAccounted
<1>4. QED
  BY <1>1, <1>2, <1>3, PTL DEF OutputSpec
=============================================================================
