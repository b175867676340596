--------------------------- MODULE WorkspaceProofs ---------------------------
(***************************************************************************)
(* Theorems about what works on a shared workspace, GitTools and           *)
(* Continuation, for any number of callers, contexts, files and branches   *)
(* and any values of the bounds.                                           *)
(***************************************************************************)
EXTENDS GitTools, Continuation, FiniteSetTheorems, SequenceTheorems, TLAPS

-----------------------------------------------------------------------------
(* GitTools.  Commits are only added, each on top of one that exists.      *)

CommitRecord == [past : SUBSET Nat, tree : [Files -> Int], parent : Nat, asked : SUBSET Files]
Points == {"idle", "run", "abort", "check", "commit"}
CallRecord == [tool : {"none", "pull", "merge", "push", "delete", "commit"}, at : Points,
               branch : Heads, files : SUBSET Files]
Known == 1..Len(commits)

HistoryType ==
  /\ commits \in Seq(CommitRecord) /\ 1 \in Known
  /\ \A c \in Known : commits[c].parent \in Known

RefsType ==
  /\ local \in [Heads -> {0} \cup Known]
  /\ tracking \in [Heads -> {0} \cup Known]
  /\ origin \in [Heads -> {0} \cup Known]
  /\ current \in Heads /\ HEAD \in Known

CheckoutType ==
  /\ index \in [Files -> Int] /\ work \in [Files -> Int] /\ safe \in [Files -> Nat]
  /\ fileEdits \in Nat /\ kills \in Nat /\ late \in BOOLEAN

CallType == call \in [Callers -> CallRecord]

GitType == HistoryType /\ RefsType /\ CheckoutType /\ CallType

(* A file's contents are in a commit. *)
InHistory(f, v) == \E c \in Known : Tree(c)[f] = v

(* What was edited is not lost: it is where it was or in a commit, and     *)
(* what a merge may reset is in a commit.                                  *)
EditsKept ==
  \A f \in Files : safe[f] # NoFile =>
    /\ work[f] = safe[f] \/ InHistory(f, safe[f])
    /\ mergeHead # 0 /\ f \in Staged => InHistory(f, safe[f])

(* Nobody disturbed a merge, and none was killed. *)
Quiet == kills = 0 /\ ~late

(* Then only a call that is about to abort it leaves a merge in progress,  *)
(* and it finds the files as the merge left them.                          *)
MergesEnd ==
  Quiet =>
    /\ \A c \in Known, f \in Files : Tree(c)[f] # Conflict
    /\ mergeHead = 0 => \A f \in Files : index[f] # Conflict /\ work[f] # Conflict
    /\ mergeHead # 0 =>
         /\ \E x \in Callers : At(x, "merge", "abort")
         /\ \A f \in Files : IF f \in Staged THEN work[f] = index[f] ELSE work[f] # Conflict

GitInv == GitType /\ CommitScoped /\ EditsKept /\ MergesEnd

(* A new commit is added to the history, on top of the parent it is given. *)
LEMMA HistoryGrows ==
  ASSUME GitType, NEW parents \in SUBSET Known, NEW tree \in [Files -> Int],
         NEW asked \in SUBSET Files, NEW p \in parents, p = HEAD \/ parents = {p},
         Commit(parents, tree, asked)
  PROVE  /\ Len(commits') = Len(commits) + 1 /\ Known' = Known \cup {Len(commits')}
         /\ \A c \in Known : commits'[c] = commits[c]
         /\ commits'[Len(commits')].tree = tree
         /\ commits'[Len(commits')].asked = asked
         /\ commits'[Len(commits')].parent = p
         /\ HistoryType'
<1>1. (CHOOSE c \in parents : c = HEAD \/ HEAD \notin parents) = p
  <2>1. CASE p = HEAD
    BY <2>1
  <2>2. CASE parents = {p}
    BY <2>2
  <2> QED  BY <2>1, <2>2
<1>2. commits \in Seq(CommitRecord) /\ Len(commits) \in Nat /\ p \in Nat
      /\ \A c \in Known : commits[c] \in CommitRecord
  BY DEF GitType, HistoryType, Known
<1>3. PICK past : past = (UNION {Past(c) : c \in parents}) \cup {Len(commits) + 1}
  OBVIOUS
<1>4. past \in SUBSET Nat
  <2>1. \A c \in parents : Past(c) \subseteq Nat
    BY <1>2 DEF Past, CommitRecord
  <2>2. ASSUME NEW k \in past PROVE k \in Nat
    <3>1. CASE k = Len(commits) + 1
      BY <1>2, <3>1
    <3>2. CASE k # Len(commits) + 1
      <4>1. k \in UNION {Past(c) : c \in parents}
        BY <1>3, <2>2, <3>2
      <4>2. PICK P \in {Past(c) : c \in parents} : k \in P
        BY <4>1
      <4>3. PICK c \in parents : P = Past(c)
        BY <4>2
      <4> QED  BY <2>1, <4>2, <4>3
    <3> QED  BY <3>1, <3>2
  <2> QED  BY <2>2
<1>5. PICK e : e = [past |-> past, tree |-> tree, parent |-> p, asked |-> asked]
  OBVIOUS
<1>6. commits' = Append(commits, e)
  BY <1>1, <1>3, <1>5 DEF Commit
<1>7. e \in CommitRecord /\ e.tree = tree /\ e.asked = asked /\ e.parent = p
  BY <1>2, <1>4, <1>5 DEF CommitRecord
<1>8. /\ commits' \in Seq(CommitRecord) /\ Len(commits') = Len(commits) + 1
      /\ \A c \in Known : commits'[c] = commits[c]
      /\ commits'[Len(commits')] = e
  BY <1>2, <1>6, <1>7 DEF Known
<1>9. Known' = Known \cup {Len(commits')}
  BY <1>2, <1>8 DEF Known
<1>10. HistoryType'
  BY <1>7, <1>8, <1>9 DEF GitType, HistoryType
<1> QED  BY <1>7, <1>8, <1>9, <1>10

(* A call goes on, or ends; the others stay where they are. *)
LEMMA CallGoes ==
  ASSUME GitType, NEW x \in Callers, NEW at \in Points, Goes(x, at)
  PROVE  /\ CallType' /\ \A y \in Callers \ {x} : call'[y] = call[y]
         /\ call'[x].tool = call[x].tool /\ call'[x].at = at
<1>1. call \in [Callers -> CallRecord] /\ call[x] \in CallRecord
  BY DEF GitType, CallType
<1>2. PICK q : q = [call[x] EXCEPT !.at = at]
  OBVIOUS
<1>3. q \in CallRecord /\ q.tool = call[x].tool /\ q.at = at
  BY <1>1, <1>2 DEF CallRecord
<1>4. call' = [call EXCEPT ![x] = q]
  BY <1>1, <1>2 DEF Goes
<1> QED  BY <1>1, <1>3, <1>4 DEF CallType

LEMMA CallReturns ==
  ASSUME GitType, NEW x \in Callers, Returns(x)
  PROVE  CallType' /\ \A y \in Callers \ {x} : call'[y] = call[y]
<1>1. Done \in CallRecord
  BY GitAssumption DEF Done, CallRecord, Points
<1> QED  BY <1>1 DEF GitType, CallType, Returns

(* What the outcome of a merge is made of *)
LEMMA MergedType == ASSUME NEW c, NEW t \in Merged(c) PROVE t \in [Files -> Int]
<1>1. t \in [Files -> {Conflict} \cup 0..MaxFileEdits]
  BY Zenon DEF Merged
<1>2. {Conflict} \cup 0..MaxFileEdits \subseteq Int
  BY GitAssumption DEF Conflict
<1> HIDE DEF Conflict
<1> QED  BY <1>1, <1>2

(* Trees are read from commits that exist. *)
LEMMA TreeType ==
  ASSUME GitType, NEW c \in Known
  PROVE  Tree(c) \in [Files -> Int]
<1>1. commits[c] \in CommitRecord
  BY DEF GitType, HistoryType, Known
<1> QED  BY <1>1 DEF Tree, CommitRecord

(* Moving to another tree changes a file only where nothing is lost. *)
LEMMA CheckoutMoves ==
  ASSUME GitType, NEW to \in [Files -> Int], Checkout(to)
  PROVE  /\ index' \in [Files -> Int] /\ work' \in [Files -> Int]
         /\ \A f \in Files : /\ index'[f] = index[f] \/ index'[f] = to[f]
                             /\ work'[f] = work[f] \/ work'[f] = to[f]
                             /\ work'[f] # work[f] => to[f] # Tree(HEAD)[f] /\ to[f] # index[f]
BY DEF GitType, CheckoutType, Checkout, Carried

(* A step leaves the commits that exist alone. *)
Plain == \A c \in Known, f \in Files : Tree(c)[f] # Conflict
OnlyAdds ==
  /\ Known \subseteq Known' /\ \A c \in Known : commits'[c] = commits[c]
  /\ HistoryType' /\ CommitScoped' /\ (Quiet => Plain')

LEMMA SameHistory == ASSUME GitInv, UNCHANGED commits PROVE OnlyAdds /\ Known' = Known
<1>1. Known' = Known
  BY DEF Known
<1>2. HistoryType'
  BY <1>1 DEF GitInv, GitType, HistoryType
<1>3. CommitScoped'
  BY DEF GitInv, CommitScoped, Tree
<1>4. Quiet => Plain'
  BY <1>1 DEF GitInv, MergesEnd, Plain, Tree
<1> QED  BY <1>1, <1>2, <1>3, <1>4 DEF OnlyAdds

(* A commit that changes the files it names is one more scoped commit. *)
LEMMA ScopedCommit ==
  ASSUME GitInv, NEW parents \in SUBSET Known, NEW tree \in [Files -> Int],
         NEW asked \in SUBSET Files, NEW p \in parents, p = HEAD \/ parents = {p},
         Commit(parents, tree, asked),
         \A f \in Files \ asked : tree[f] = Tree(p)[f],
         Quiet => \A f \in Files : tree[f] # Conflict
  PROVE  /\ OnlyAdds /\ Len(commits') \in Known' /\ Len(commits') # 0
         /\ commits'[Len(commits')].tree = tree
<1>1. GitType
  BY DEF GitInv
<1>2. /\ Len(commits') = Len(commits) + 1 /\ Known' = Known \cup {Len(commits')}
      /\ \A c \in Known : commits'[c] = commits[c]
      /\ commits'[Len(commits')].tree = tree
      /\ commits'[Len(commits')].asked = asked
      /\ commits'[Len(commits')].parent = p
      /\ HistoryType'
  BY <1>1, HistoryGrows
<1>3. PICK n : n = Len(commits')
  OBVIOUS
<1>4. /\ Known' = Known \cup {n} /\ \A c \in Known : commits'[c] = commits[c]
      /\ commits'[n].tree = tree /\ commits'[n].asked = asked /\ commits'[n].parent = p
  BY <1>2, <1>3
<1>5. \A c \in Known : commits[c].parent \in Known
  BY <1>1 DEF GitType, HistoryType
<1>6. \A c \in Known : \A f \in Files \ commits[c].asked : Tree(c)[f] = Tree(commits[c].parent)[f]
  BY DEF GitInv, CommitScoped, Known
<1>7. \A c \in Known' : \A f \in Files \ commits'[c].asked :
        commits'[c].tree[f] = commits'[commits'[c].parent].tree[f]
  BY <1>4, <1>5, <1>6 DEF Tree
<1>8. CommitScoped'
  BY <1>7 DEF CommitScoped, Known, Tree
<1>9. Quiet => Plain'
  BY <1>4 DEF GitInv, MergesEnd, Plain, Tree
<1>10. Len(commits') # 0 /\ Len(commits') \in Known'
  BY <1>1, <1>2 DEF GitType, HistoryType
<1> QED  BY <1>2, <1>8, <1>9, <1>10 DEF OnlyAdds

(* What is in a commit stays there. *)
LEMMA StaysInHistory ==
  ASSUME OnlyAdds, NEW f, NEW v, InHistory(f, v)
  PROVE  InHistory(f, v)'
<1>1. PICK c \in Known : Tree(c)[f] = v
  BY DEF InHistory
<1>2. c \in Known' /\ Tree(c)' = Tree(c)
  BY <1>1 DEF OnlyAdds, Tree
<1> QED  BY <1>1, <1>2 DEF InHistory

(* A step that leaves the checkout as it is *)
LEMMA CheckoutRests ==
  ASSUME GitInv, OnlyAdds, RefsType', CallType', HEAD' = HEAD,
         UNCHANGED <<index, work, mergeHead, safe, late>>, fileEdits' \in Nat, kills' \in Nat,
         kills' = 0 => /\ kills = 0
                       /\ \A x \in Callers : At(x, "merge", "abort") => At(x, "merge", "abort")'
  PROVE  GitInv'
<1>1. HEAD \in Known /\ Tree(HEAD)' = Tree(HEAD)
  <2>1. HEAD \in Known
    BY DEF GitInv, GitType, RefsType
  <2> QED  BY <2>1 DEF OnlyAdds, Tree
<1>2. Staged' = Staged
  BY <1>1 DEF Staged
<1>3. GitType'
  BY DEF GitInv, GitType, CheckoutType, OnlyAdds
<1>4. EditsKept'
  BY <1>2, StaysInHistory DEF GitInv, EditsKept
<1>5. MergesEnd'
  <2>1. SUFFICES ASSUME Quiet' PROVE MergesEnd'
    BY DEF MergesEnd
  <2>2. Quiet /\ \A x \in Callers : At(x, "merge", "abort") => At(x, "merge", "abort")'
    BY <2>1 DEF Quiet
  <2>3. Plain'
    BY <2>2 DEF OnlyAdds
  <2> QED  BY <1>2, <2>2, <2>3 DEF GitInv, MergesEnd, Plain
<1> QED  BY <1>3, <1>4, <1>5 DEF GitInv, OnlyAdds

(* A step that brings in contents outside a merge, where nothing is lost *)
LEMMA CheckoutChanges ==
  ASSUME GitInv, OnlyAdds, RefsType', CallType', mergeHead = 0,
         UNCHANGED <<mergeHead, safe, late, fileEdits, kills>>,
         NEW to \in [Files -> Int], Quiet => \A f \in Files : to[f] # Conflict,
         index' \in [Files -> Int], work' \in [Files -> Int],
         \A f \in Files : /\ index'[f] = index[f] \/ index'[f] = to[f]
                          /\ work'[f] = work[f] \/ work'[f] = to[f]
                          /\ work'[f] # work[f] => work[f] = Tree(HEAD)[f]
  PROVE  GitInv'
<1>1. HEAD \in Known
  BY DEF GitInv, GitType, RefsType
<1>2. GitType'
  BY DEF GitInv, GitType, CheckoutType, OnlyAdds
<1>3. EditsKept'
  <2>1. ASSUME NEW f \in Files, safe[f] # NoFile
        PROVE  work'[f] = safe[f] \/ InHistory(f, safe[f])'
    <3>1. CASE InHistory(f, safe[f])
      BY <3>1, StaysInHistory
    <3>2. CASE work[f] = safe[f] /\ work'[f] # work[f]
      <4>1. InHistory(f, safe[f])
        BY <1>1, <3>2 DEF InHistory
      <4> QED  BY <4>1, StaysInHistory
    <3> QED  BY <2>1, <3>1, <3>2 DEF GitInv, EditsKept
  <2> QED  BY <2>1 DEF EditsKept, InHistory
<1>4. MergesEnd'
  <2>1. Quiet' => Quiet
    BY DEF Quiet
  <2> QED  BY <2>1 DEF GitInv, MergesEnd, OnlyAdds, Plain
<1> QED  BY <1>2, <1>3, <1>4 DEF GitInv, OnlyAdds

(* Going to a tree that the checkout allows loses nothing. *)
LEMMA CheckoutAllowed ==
  ASSUME GitType, NEW to \in [Files -> Int], Checkout(to),
         \/ CanCheckout(to)
         \/ Staged = {} /\ \A f \in Files : to[f] # Tree(HEAD)[f] => work[f] = index[f]
  PROVE  /\ index' \in [Files -> Int] /\ work' \in [Files -> Int]
         /\ \A f \in Files : /\ index'[f] = index[f] \/ index'[f] = to[f]
                             /\ work'[f] = work[f] \/ work'[f] = to[f]
                             /\ work'[f] # work[f] => work[f] = Tree(HEAD)[f]
BY CheckoutMoves DEF CanCheckout, Staged

(* The steps of a call that has not got to the abort of a merge *)
LEMMA CallEnds ==
  ASSUME GitType, NEW x \in Callers, Returns(x), ~At(x, "merge", "abort")
  PROVE  CallType' /\ \A y \in Callers : At(y, "merge", "abort") => At(y, "merge", "abort")'
BY CallReturns DEF At

LEMMA CallProceeds ==
  ASSUME GitType, NEW x \in Callers, NEW at \in Points, Goes(x, at), ~At(x, "merge", "abort")
  PROVE  CallType' /\ \A y \in Callers : At(y, "merge", "abort") => At(y, "merge", "abort")'
BY CallGoes DEF At

LEMMA CallBegins ==
  ASSUME GitInv, NEW x \in Callers, NEW b \in Heads, NEW asked \in SUBSET Files,
         NEW tool \in {"pull", "merge", "push", "delete", "commit"},
         CallTool(x, tool, b, asked)
  PROVE  GitInv'
<1>1. UNCHANGED <<commits, local, tracking, origin, current, index, work, mergeHead,
                  fileEdits, safe, late, kills>>
  BY DEF CallTool, Called, refs, checkout, gitGhosts
<1>2. PICK r : r = [tool |-> tool, at |-> "run", branch |-> b, files |-> asked]
  OBVIOUS
<1>3. call[x] = Done /\ call' = [call EXCEPT ![x] = r]
  BY <1>2 DEF CallTool, Called
<1>4. r \in CallRecord
  BY <1>2 DEF CallRecord, Points
<1>5. CallType' /\ \A y \in Callers : At(y, "merge", "abort") => At(y, "merge", "abort")'
  <2>1. call[x].at = "idle"
    BY <1>3 DEF Done
  <2> QED  BY <1>3, <1>4, <2>1 DEF GitInv, GitType, CallType, At
<1>6. OnlyAdds /\ Known' = Known
  BY <1>1, SameHistory
<1>7. RefsType' /\ HEAD' = HEAD /\ fileEdits' \in Nat /\ kills' \in Nat
  BY <1>1, <1>6 DEF GitInv, GitType, RefsType, CheckoutType, HEAD
<1> QED  BY <1>1, <1>5, <1>6, <1>7, CheckoutRests

(* Steps that change only references *)
LEMMA RefsChange ==
  ASSUME GitInv, UNCHANGED <<commits, index, work, mergeHead, fileEdits, safe, late, kills>>,
         local' \in [Heads -> {0} \cup Known], tracking' \in [Heads -> {0} \cup Known],
         origin' \in [Heads -> {0} \cup Known], current' \in Heads, HEAD' = HEAD, CallType',
         \A x \in Callers : At(x, "merge", "abort") => At(x, "merge", "abort")'
  PROVE  GitInv'
<1>1. OnlyAdds /\ Known' = Known
  BY SameHistory
<1>2. RefsType' /\ fileEdits' \in Nat /\ kills' \in Nat
  BY <1>1 DEF GitInv, GitType, RefsType, CheckoutType
<1> QED  BY <1>1, <1>2, CheckoutRests

(* The calls of the tools keep the invariant. *)
LEMMA ToolCallInv == ASSUME GitInv, NEW x \in Callers, ToolCall(x) PROVE GitInv'
<1>t. /\ GitType /\ current \in Heads /\ HEAD \in Known /\ local \in [Heads -> {0} \cup Known]
      /\ tracking \in [Heads -> {0} \cup Known] /\ origin \in [Heads -> {0} \cup Known]
      /\ 0 \notin Known
  BY DEF GitInv, GitType, RefsType, Known
<1>1. CASE BeginPull(x)
  BY <1>t, <1>1, CallBegins DEF BeginPull
<1>2. CASE BeginPush(x)
  BY <1>t, <1>2, CallBegins DEF BeginPush
<1>3. CASE Fetch(x)
  <2>1. /\ UNCHANGED <<commits, index, work, mergeHead, fileEdits, safe, late, kills,
                       local, origin, current, call>> /\ tracking' = origin
    BY <1>3 DEF Fetch, Called, checkout, gitGhosts
  <2>2. CallType' /\ HEAD' = HEAD
        /\ \A y \in Callers : At(y, "merge", "abort") => At(y, "merge", "abort")'
    BY <1>t, <2>1 DEF GitType, CallType, HEAD, At
  <2> QED  BY <1>t, <2>1, <2>2, RefsChange
<1>4. ASSUME NEW b \in Heads, BeginMerge(x, b) PROVE GitInv'
  BY <1>4, CallBegins DEF BeginMerge
<1>5. ASSUME NEW b \in Heads, BeginDelete(x, b) PROVE GitInv'
  BY <1>5, CallBegins DEF BeginDelete
<1>6. ASSUME NEW b \in Heads, CreateBranch(x, b) PROVE GitInv'
  <2>1. /\ UNCHANGED <<commits, index, work, mergeHead, fileEdits, safe, late, kills,
                       tracking, origin, call>>
        /\ local' = [local EXCEPT ![b] = HEAD] /\ current' = b
    BY <1>6 DEF CreateBranch, Called, gitGhosts
  <2>2. CallType' /\ \A y \in Callers : At(y, "merge", "abort") => At(y, "merge", "abort")'
    BY <1>t, <2>1 DEF GitType, CallType, At
  <2>3. local' \in [Heads -> {0} \cup Known] /\ HEAD' = HEAD
    <3>1. PICK h : h = HEAD
      OBVIOUS
    <3>2. local' = [local EXCEPT ![b] = h] /\ h \in Known
      BY <1>t, <2>1, <3>1
    <3> QED  BY <1>t, <2>1, <3>1, <3>2 DEF HEAD
  <2> QED  BY <1>t, <2>1, <2>2, <2>3, RefsChange
<1>7. ASSUME NEW b \in Heads, SwitchBranch(x, b) PROVE GitInv'
  <2>1. /\ UNCHANGED <<commits, local, tracking, origin, mergeHead, fileEdits, safe, late,
                       kills, call>>
        /\ local[b] \in Known /\ mergeHead = 0 /\ current' = b
        /\ CanCheckout(Tree(local[b])) /\ Checkout(Tree(local[b]))
    BY <1>t, <1>7 DEF SwitchBranch, Called, gitGhosts, refs
  <2>2. PICK to : to = Tree(local[b])
    OBVIOUS
  <2>3. /\ to \in [Files -> Int] /\ CanCheckout(to) /\ Checkout(to)
        /\ (Quiet => \A f \in Files : to[f] # Conflict)
    BY <1>t, <2>1, <2>2, TreeType DEF GitInv, MergesEnd
  <2>4. OnlyAdds /\ Known' = Known
    BY <2>1, SameHistory
  <2>5. RefsType' /\ CallType'
    BY <1>t, <2>1, <2>4 DEF GitType, RefsType, CallType, HEAD
  <2> QED  BY <1>t, <2>1, <2>3, <2>4, <2>5, CheckoutAllowed, CheckoutChanges
<1>8. ASSUME NEW b \in Heads, DeleteRemoteBranch(x, b) PROVE GitInv'
  <2>1. /\ UNCHANGED <<commits, index, work, mergeHead, fileEdits, safe, late, kills,
                       local, current, call>>
        /\ origin' = [origin EXCEPT ![b] = 0] /\ tracking' = [tracking EXCEPT ![b] = 0]
    BY <1>8 DEF DeleteRemoteBranch, Called, checkout, gitGhosts
  <2>2. CallType' /\ HEAD' = HEAD
        /\ \A y \in Callers : At(y, "merge", "abort") => At(y, "merge", "abort")'
    BY <1>t, <2>1 DEF GitType, CallType, HEAD, At
  <2> QED  BY <1>t, <2>1, <2>2, RefsChange
<1>9. ASSUME NEW asked \in SUBSET Files, BeginCommit(x, asked) PROVE GitInv'
  BY <1>t, <1>9, CallBegins DEF BeginCommit
<1> QED
  BY <1>1, <1>2, <1>3, <1>4, <1>5, <1>6, <1>7, <1>8, <1>9 DEF ToolCall

(* The commands that change references and move the checkout *)
LEMMA RefStepInv ==
  ASSUME GitInv, NEW x \in Callers,
         \/ Pull(x) \/ MergeNothing(x) \/ FastForward(x) \/ CheckStaged(x) \/ CommitFails(x)
         \/ Push(x) \/ DeleteBranch(x)
  PROVE  GitInv'
<1>t. /\ GitType /\ current \in Heads /\ HEAD \in Known /\ local \in [Heads -> {0} \cup Known]
      /\ tracking \in [Heads -> {0} \cup Known] /\ origin \in [Heads -> {0} \cup Known]
      /\ 0 \notin Known /\ call[x].branch \in Heads
  BY DEF GitInv, GitType, RefsType, CallType, CallRecord, Known
<1>a. CallType' /\ \A y \in Callers : At(y, "merge", "abort") => At(y, "merge", "abort")'
  <2>1. ~At(x, "merge", "abort")
    BY DEF Pull, MergeNothing, FastForward, CheckStaged, CommitFails, Push, DeleteBranch, At
  <2>2. Returns(x) \/ Goes(x, "commit")
    BY DEF Pull, MergeNothing, FastForward, CheckStaged, CommitFails, Push, DeleteBranch
  <2>3. "commit" \in Points
    BY DEF Points
  <2> QED  BY <1>t, <2>1, <2>2, <2>3, CallEnds, CallProceeds
<1>m. ASSUME NEW c \in Known, CanCheckout(Tree(c)), Checkout(Tree(c)), mergeHead = 0,
             local' = [local EXCEPT ![current] = c],
             tracking' \in [Heads -> {0} \cup Known], origin' = origin,
             UNCHANGED <<commits, current, mergeHead, fileEdits, safe, late, kills>>
      PROVE  GitInv'
  <2>1. PICK to : to = Tree(c)
    OBVIOUS
  <2>2. /\ to \in [Files -> Int] /\ CanCheckout(to) /\ Checkout(to)
        /\ (Quiet => \A f \in Files : to[f] # Conflict)
    BY <1>t, <1>m, <2>1, TreeType DEF GitInv, MergesEnd
  <2>3. OnlyAdds /\ Known' = Known
    BY <1>m, SameHistory
  <2>4. RefsType'
    BY <1>t, <1>m, <2>3 DEF RefsType, HEAD
  <2> QED  BY <1>t, <1>a, <1>m, <2>2, <2>3, <2>4, CheckoutAllowed, CheckoutChanges
<1>1. CASE Pull(x)
  <2> DEFINE b == call[x].branch
             c == origin[b]
  <2>1. /\ UNCHANGED <<commits, origin, current, mergeHead, fileEdits, safe, late, kills>>
        /\ tracking' = IF c = 0 THEN tracking ELSE [tracking EXCEPT ![b] = c]
    BY <1>1 DEF Pull, gitGhosts, counts
  <2>2. tracking' \in [Heads -> {0} \cup Known]
    BY <1>t, <2>1
  <2>3. CASE c # 0 /\ mergeHead = 0 /\ HEAD \in Past(c) /\ CanCheckout(Tree(c))
    <3>1. local' = [local EXCEPT ![current] = c] /\ Checkout(Tree(c)) /\ c \in Known
      BY <1>t, <1>1, <2>3 DEF Pull
    <3> QED  BY <1>m, <2>1, <2>2, <2>3, <3>1
  <2>4. CASE ~(c # 0 /\ mergeHead = 0 /\ HEAD \in Past(c) /\ CanCheckout(Tree(c)))
    <3>1. UNCHANGED <<local, index, work>>
      BY <1>1, <2>4, Zenon DEF Pull
    <3>2. HEAD' = HEAD
      BY <2>1, <3>1 DEF HEAD
    <3> QED  BY <1>t, <1>a, <2>1, <2>2, <3>1, <3>2, RefsChange
  <2> QED  BY <2>3, <2>4
<1>2. CASE FastForward(x)
  <2> DEFINE c == tracking[call[x].branch]
  <2>1. /\ UNCHANGED <<commits, tracking, origin, current, mergeHead, fileEdits, safe, late,
                       kills>>
        /\ local' = [local EXCEPT ![current] = c] /\ Checkout(Tree(c)) /\ c # 0
        /\ ~MergeRefused(c, Tree(c)) /\ HEAD \in Past(c)
    BY <1>2 DEF FastForward, gitGhosts, counts
  <2>2. mergeHead = 0 /\ CanCheckout(Tree(c)) /\ c \in Known
    BY <1>t, <2>1 DEF MergeRefused
  <2> QED  BY <1>t, <1>m, <2>1, <2>2
<1>3. CASE MergeNothing(x) \/ CheckStaged(x) \/ CommitFails(x)
  <2>1. UNCHANGED <<commits, index, work, mergeHead, fileEdits, safe, late, kills,
                    local, tracking, origin, current>>
    BY <1>3 DEF MergeNothing, CheckStaged, CommitFails, refs, checkout, gitGhosts, counts
  <2>2. HEAD' = HEAD
    BY <2>1 DEF HEAD
  <2> QED  BY <1>t, <1>a, <2>1, <2>2, RefsChange
<1>4. CASE Push(x)
  <2>1. /\ UNCHANGED <<commits, index, work, mergeHead, fileEdits, safe, late, kills,
                       local, current>>
        /\ tracking' \in [Heads -> {0} \cup Known] /\ origin' \in [Heads -> {0} \cup Known]
    BY <1>t, <1>4 DEF Push, checkout, gitGhosts, counts
  <2>2. HEAD' = HEAD
    BY <2>1 DEF HEAD
  <2> QED  BY <1>t, <1>a, <2>1, <2>2, RefsChange
<1>5. CASE DeleteBranch(x)
  <2>1. /\ UNCHANGED <<commits, index, work, mergeHead, fileEdits, safe, late, kills,
                       tracking, origin, current>>
        /\ \/ local' = local
           \/ call[x].branch # current /\ local' = [local EXCEPT ![call[x].branch] = 0]
    BY <1>5 DEF DeleteBranch, checkout, gitGhosts, counts
  <2>2. HEAD' = HEAD /\ local' \in [Heads -> {0} \cup Known]
    BY <1>t, <2>1 DEF HEAD
  <2> QED  BY <1>t, <1>a, <2>1, <2>2, RefsChange
<1> QED  BY <1>1, <1>2, <1>3, <1>4, <1>5

(* The outcomes of a merge *)
LEMMA MergeStepInv ==
  ASSUME GitInv, NEW x \in Callers, MergeCommit(x) \/ MergeConflict(x) \/ MergeFails(x)
  PROVE  GitInv'
<1> DEFINE c == tracking[call[x].branch]
<1>t. /\ GitType /\ current \in Heads /\ HEAD \in Known /\ local \in [Heads -> {0} \cup Known]
      /\ tracking \in [Heads -> {0} \cup Known] /\ origin \in [Heads -> {0} \cup Known]
      /\ 0 \notin Known /\ call[x].branch \in Heads /\ kills \in Nat /\ kills + 1 \in Nat
      /\ kills + 1 # 0 /\ fileEdits \in Nat
  BY DEF GitInv, GitType, RefsType, CallType, CallRecord, CheckoutType, Known
<1>a. ~At(x, "merge", "abort") /\ call[x].tool = "merge"
  BY DEF MergeCommit, MergeConflict, MergeFails, At
<1>b. ASSUME AfterMerge(x)
      PROVE  /\ CallType' /\ kills' \in Nat
             /\ kills' = 0 => /\ kills = 0 /\ At(x, "merge", "abort")'
                              /\ \A y \in Callers : At(y, "merge", "abort") => At(y, "merge", "abort")'
  <2>1. CASE Goes(x, "abort") /\ UNCHANGED counts
    <3>1. "abort" \in Points
      BY DEF Points
    <3>2. At(x, "merge", "abort")'
      BY <1>t, <1>a, <2>1, <3>1, CallGoes DEF At
    <3> QED  BY <1>t, <1>a, <2>1, <3>1, <3>2, CallProceeds DEF counts
  <2>2. CASE kills' = kills + 1 /\ Returns(x)
    BY <1>t, <1>a, <2>2, CallEnds
  <2> QED  BY <1>b, <2>1, <2>2 DEF AfterMerge
<1>1. CASE MergeCommit(x)
  <2>1. PICK to \in Merged(c) :
          /\ \A f \in Files : to[f] # Conflict
          /\ ~MergeRefused(c, to)
          /\ Commit({HEAD, c}, to, Files)
          /\ Checkout(to)
    BY <1>1 DEF MergeCommit
  <2>2. /\ c # 0 /\ HEAD \notin Past(c) /\ local' = [local EXCEPT ![current] = Len(commits')]
        /\ Returns(x)
        /\ UNCHANGED <<tracking, origin, current, mergeHead, fileEdits, safe, late, kills>>
    BY <1>1 DEF MergeCommit, gitGhosts, counts
  <2>3. c \in Known /\ to \in [Files -> Int]
    BY <1>t, <2>2, MergedType
  <2>4. /\ mergeHead = 0 /\ Staged = {}
        /\ \A f \in Files : to[f] # Tree(HEAD)[f] => work[f] = index[f]
    BY <2>1, <2>2 DEF MergeRefused
  <2>5. OnlyAdds /\ Len(commits') \in Known'
    <3>1. PICK parents, p, asked : parents = {HEAD, c} /\ p = HEAD /\ asked = Files
      OBVIOUS
    <3>2. /\ parents \in SUBSET Known /\ p \in parents /\ asked \in SUBSET Files
          /\ \A f \in Files \ asked : to[f] = Tree(p)[f]
      BY <1>t, <2>3, <3>1
    <3>3. Commit(parents, to, asked)
      BY <2>1, <3>1
    <3> QED  BY <2>1, <2>3, <3>1, <3>2, <3>3, ScopedCommit
  <2>6. RefsType'
    <3>1. PICK n : n = Len(commits')
      OBVIOUS
    <3>2. n \in Known' /\ Known \subseteq Known' /\ local' = [local EXCEPT ![current] = n]
      BY <2>2, <2>5, <3>1 DEF OnlyAdds
    <3> QED  BY <1>t, <2>2, <3>2 DEF RefsType, HEAD
  <2>7. CallType'
    BY <1>t, <1>a, <2>2, CallEnds
  <2> QED
    BY <1>t, <2>1, <2>2, <2>3, <2>4, <2>5, <2>6, <2>7, CheckoutAllowed, CheckoutChanges
<1>2. CASE MergeConflict(x)
  <2>1. PICK to \in Merged(c) :
          /\ ~MergeRefused(c, to)
          /\ index' = to
          /\ work' = [f \in Files |-> IF to[f] = Tree(HEAD)[f] THEN work[f] ELSE to[f]]
    BY <1>2 DEF MergeConflict
  <2>2. /\ c # 0 /\ HEAD \notin Past(c) /\ mergeHead' = c /\ AfterMerge(x)
        /\ UNCHANGED <<commits, local, tracking, origin, current, fileEdits, safe, late>>
    BY <1>2 DEF MergeConflict, refs, gitGhosts
  <2>3. c \in Known /\ to \in [Files -> Int]
    BY <1>t, <2>2, MergedType
  <2>4. /\ mergeHead = 0 /\ Staged = {}
        /\ \A f \in Files : to[f] # Tree(HEAD)[f] => work[f] = index[f]
    BY <2>1, <2>2 DEF MergeRefused
  <2>5. OnlyAdds /\ Known' = Known
    BY <2>2, SameHistory
  <2>6. HEAD' = HEAD /\ Tree(HEAD)' = Tree(HEAD)
    BY <2>2 DEF HEAD, Tree
  <2>7. Staged' = {f \in Files : to[f] # Tree(HEAD)[f]}
    BY <2>1, <2>6 DEF Staged
  <2>8. GitType'
    <3>1. RefsType'
      BY <1>t, <2>2, <2>5, <2>6 DEF RefsType
    <3>2. CheckoutType'
      BY <1>b, <2>1, <2>2, <2>3 DEF GitInv, GitType, CheckoutType
    <3> QED  BY <1>b, <2>2, <2>5, <3>1, <3>2 DEF GitType, OnlyAdds
  <2>9. ASSUME NEW f \in Files, safe[f] # NoFile
        PROVE  /\ work'[f] = safe[f] \/ InHistory(f, safe[f])'
               /\ f \in Staged' => InHistory(f, safe[f])'
    <3>1. CASE to[f] = Tree(HEAD)[f]
      <4>1. work'[f] = work[f] /\ f \notin Staged'
        BY <2>1, <2>7, <3>1
      <4> QED  BY <2>2, <2>5, <2>9, <4>1, StaysInHistory DEF GitInv, EditsKept
    <3>2. CASE to[f] # Tree(HEAD)[f]
      <4>1. work[f] = Tree(HEAD)[f]
        BY <2>4, <3>2 DEF Staged
      <4>2. InHistory(f, safe[f])
        BY <1>t, <2>9, <4>1 DEF GitInv, EditsKept, InHistory
      <4> QED  BY <2>2, <2>5, <4>2, StaysInHistory
    <3> QED  BY <3>1, <3>2
  <2>10. EditsKept'
    BY <2>2, <2>9 DEF EditsKept, InHistory
  <2>11. MergesEnd'
    <3>1. SUFFICES ASSUME Quiet' PROVE MergesEnd'
      BY DEF MergesEnd
    <3>2. Quiet /\ At(x, "merge", "abort")'
      BY <1>b, <2>2, <3>1 DEF Quiet
    <3>3. mergeHead' # 0 /\ Plain'
      BY <1>t, <2>2, <2>3, <2>5, <3>2 DEF OnlyAdds
    <3>4. \A f \in Files : IF f \in Staged' THEN work'[f] = index'[f] ELSE work'[f] # Conflict
      BY <2>1, <2>4, <2>7, <3>2 DEF GitInv, MergesEnd
    <3> QED  BY <3>2, <3>3, <3>4 DEF MergesEnd, Plain
  <2> QED  BY <2>5, <2>8, <2>10, <2>11 DEF GitInv, OnlyAdds
<1>3. CASE MergeFails(x)
  <2>1. /\ UNCHANGED <<commits, index, work, mergeHead, fileEdits, safe, late, local, tracking,
                       origin, current>>
        /\ AfterMerge(x)
    BY <1>3 DEF MergeFails, refs, checkout, gitGhosts
  <2>2. OnlyAdds /\ Known' = Known
    BY <2>1, SameHistory
  <2>3. RefsType' /\ HEAD' = HEAD
    BY <1>t, <2>1, <2>2 DEF RefsType, HEAD
  <2> QED  BY <1>t, <1>b, <2>1, <2>2, <2>3, CheckoutRests
<1> QED  BY <1>1, <1>2, <1>3

(* The abort finds a merge that nobody disturbed as it was left, and       *)
(* resets only files whose contents are in a commit.                       *)
LEMMA MergeAbortInv == ASSUME GitInv, NEW x \in Callers, MergeAbort(x) PROVE GitInv'
<1>t. /\ GitType /\ current \in Heads /\ HEAD \in Known /\ Tree(HEAD) \in [Files -> Int]
      /\ index \in [Files -> Int] /\ work \in [Files -> Int]
  BY TreeType DEF GitInv, GitType, RefsType, CheckoutType
<1>1. /\ UNCHANGED <<commits, local, tracking, origin, current, fileEdits, safe, late, kills>>
      /\ Returns(x)
  BY DEF MergeAbort, refs, gitGhosts, counts
<1>2. OnlyAdds /\ Known' = Known
  BY <1>1, SameHistory
<1>3. HEAD' = HEAD /\ Tree(HEAD)' = Tree(HEAD)
  BY <1>1 DEF HEAD, Tree
<1>4. RefsType' /\ CallType'
  BY <1>t, <1>1, <1>2, <1>3, CallReturns DEF GitType, RefsType
<1>5. Quiet' => Quiet /\ Plain' /\ Plain
  BY <1>1, <1>2 DEF Quiet, OnlyAdds, GitInv, MergesEnd, Plain
<1>6. CASE CanAbort
  <2>1. /\ work' = [f \in Files |-> IF f \in Staged THEN Tree(HEAD)[f] ELSE work[f]]
        /\ index' = Tree(HEAD) /\ mergeHead' = 0 /\ mergeHead # 0
    BY <1>6 DEF MergeAbort, CanAbort
  <2>2. GitType'
    BY <1>t, <1>1, <1>2, <1>4, <2>1 DEF GitType, CheckoutType, OnlyAdds
  <2>3. ASSUME NEW f \in Files, safe[f] # NoFile
        PROVE  work'[f] = safe[f] \/ InHistory(f, safe[f])'
    <3>1. CASE f \in Staged
      BY <1>1, <1>2, <2>1, <2>3, <3>1, StaysInHistory DEF GitInv, EditsKept
    <3>2. CASE f \notin Staged
      <4>1. work'[f] = work[f]
        BY <2>1, <3>2
      <4> QED  BY <1>1, <1>2, <2>3, <4>1, StaysInHistory DEF GitInv, EditsKept
    <3> QED  BY <3>1, <3>2
  <2>4. EditsKept'
    BY <1>1, <2>1, <2>3 DEF EditsKept, InHistory
  <2>5. ASSUME Quiet', NEW f \in Files PROVE index'[f] # Conflict /\ work'[f] # Conflict
    BY <1>t, <1>5, <2>1, <2>5 DEF GitInv, MergesEnd, Plain
  <2>6. MergesEnd'
    BY <1>5, <2>1, <2>5 DEF MergesEnd, Plain
  <2> QED  BY <1>2, <2>2, <2>4, <2>6 DEF GitInv, OnlyAdds
<1>7. CASE ~CanAbort
  <2>1. UNCHANGED <<index, work, mergeHead>>
    BY <1>7 DEF MergeAbort
  <2>2. Staged' = Staged
    BY <1>3, <2>1 DEF Staged
  <2>3. GitType'
    BY <1>1, <1>2, <1>4, <2>1 DEF GitInv, GitType, CheckoutType, OnlyAdds
  <2>4. EditsKept'
    BY <1>1, <1>2, <2>1, <2>2, StaysInHistory DEF GitInv, EditsKept
  <2>5. Quiet => mergeHead = 0
    BY <1>7 DEF GitInv, MergesEnd, CanAbort, Staged
  <2>6. MergesEnd'
    BY <1>5, <2>1, <2>5 DEF GitInv, MergesEnd, Plain
  <2> QED  BY <1>2, <2>3, <2>4, <2>6 DEF GitInv, OnlyAdds
<1> QED  BY <1>6, <1>7

(* git add and git commit, and what others do *)
LEMMA GitAddInv == ASSUME GitInv, NEW x \in Callers, GitAdd(x) PROVE GitInv'
<1> DEFINE asked == call[x].files
<1>t. /\ GitType /\ current \in Heads /\ HEAD \in Known
      /\ index \in [Files -> Int] /\ work \in [Files -> Int] /\ safe \in [Files -> Nat]
  BY DEF GitInv, GitType, RefsType, CheckoutType
<1>1. /\ UNCHANGED <<commits, local, tracking, origin, current, work, mergeHead, fileEdits, kills>>
      /\ index' = [f \in Files |-> IF f \in asked THEN work[f] ELSE index[f]] \/ index' = index
      /\ late' = (late \/ mergeHead # 0)
      /\ safe' = IF mergeHead = 0 THEN safe
                 ELSE [f \in Files |-> IF f \in asked THEN NoFile ELSE safe[f]]
      /\ Returns(x) \/ Goes(x, "check")
  BY DEF GitAdd, refs, counts
<1>2. CallType' /\ \A y \in Callers : At(y, "merge", "abort") => At(y, "merge", "abort")'
  <2>1. ~At(x, "merge", "abort") /\ "check" \in Points
    BY DEF GitAdd, At, Points
  <2> QED  BY <1>t, <1>1, <2>1, CallEnds, CallProceeds
<1>3. OnlyAdds /\ Known' = Known
  BY <1>1, SameHistory
<1>4. HEAD' = HEAD /\ Tree(HEAD)' = Tree(HEAD)
  BY <1>1 DEF HEAD, Tree
<1>5. RefsType'
  BY <1>1, <1>3, <1>4 DEF GitInv, GitType, RefsType
<1>6. /\ index' \in [Files -> Int]
      /\ \A f \in Files : index'[f] = index[f] \/ index'[f] = work[f]
      /\ \A f \in Files : f \notin asked => index'[f] = index[f]
  BY <1>t, <1>1
<1>7. CASE mergeHead = 0
  <2>1. UNCHANGED <<safe, late>>
    BY <1>1, <1>7 DEF GitInv, GitType, CheckoutType
  <2>2. Quiet => \A f \in Files : work[f] # Conflict
    BY <1>7 DEF GitInv, MergesEnd
  <2> QED  BY <1>t, <1>1, <1>2, <1>3, <1>5, <1>6, <1>7, <2>1, <2>2, CheckoutChanges
<1>8. CASE mergeHead # 0
  <2>1. /\ late' /\ safe' \in [Files -> Nat]
        /\ \A f \in Files : safe'[f] # NoFile => f \notin asked /\ safe'[f] = safe[f]
    BY <1>t, <1>1, <1>8 DEF NoFile
  <2>2. GitType'
    BY <1>t, <1>1, <1>2, <1>3, <1>5, <1>6, <2>1 DEF GitType, CheckoutType, OnlyAdds
  <2>3. MergesEnd'
    BY <2>1 DEF MergesEnd, Quiet
  <2>4. ASSUME NEW f \in Files, safe'[f] # NoFile
        PROVE  /\ work[f] = safe'[f] \/ InHistory(f, safe[f])'
               /\ f \in Staged' => InHistory(f, safe[f])'
    <3>1. safe'[f] = safe[f] /\ safe[f] # NoFile /\ index'[f] = index[f]
      <4>1. f \notin asked /\ safe'[f] = safe[f]
        BY <2>1, <2>4
      <4> HIDE DEF asked
      <4> QED  BY <1>6, <2>4, <4>1
    <3>2. f \in Staged' => f \in Staged
      BY <1>4, <3>1 DEF Staged
    <3>3. /\ work[f] = safe[f] \/ InHistory(f, safe[f])
          /\ f \in Staged => InHistory(f, safe[f])
      BY <1>8, <3>1 DEF GitInv, EditsKept
    <3>4. InHistory(f, safe[f]) => InHistory(f, safe[f])'
      BY <1>3, <3>1 DEF InHistory, OnlyAdds, Tree
    <3> QED  BY <3>1, <3>2, <3>3, <3>4
  <2>5. EditsKept'
    BY <1>1, <2>4 DEF EditsKept
  <2> QED  BY <1>3, <2>2, <2>3, <2>5 DEF GitInv, OnlyAdds
<1> QED  BY <1>7, <1>8

LEMMA CommitPathsInv == ASSUME GitInv, NEW x \in Callers, CommitPaths(x) PROVE GitInv'
<1>t. /\ GitType /\ current \in Heads /\ HEAD \in Known /\ Tree(HEAD) \in [Files -> Int]
      /\ index \in [Files -> Int] /\ work \in [Files -> Int] /\ call[x].files \in SUBSET Files
      /\ local \in [Heads -> {0} \cup Known]
      /\ tracking \in [Heads -> {0} \cup Known] /\ origin \in [Heads -> {0} \cup Known]
  BY TreeType DEF GitInv, GitType, RefsType, CheckoutType, CallType, CallRecord
<1>1. PICK asked, tree : asked = call[x].files /\ tree = CommitTree(asked)
  OBVIOUS
<1>2. /\ UNCHANGED <<tracking, origin, current, work, mergeHead, fileEdits, safe, late, kills>>
      /\ Commit({HEAD}, tree, asked) /\ mergeHead = 0
      /\ local' = [local EXCEPT ![current] = Len(commits')]
      /\ index' = [f \in Files |-> IF f \in asked THEN work[f] ELSE index[f]]
      /\ Returns(x) /\ ~At(x, "merge", "abort")
  BY <1>1 DEF CommitPaths, gitGhosts, counts, At
<1>3. Quiet => Plain /\ \A f \in Files : work[f] # Conflict
  BY <1>2 DEF GitInv, MergesEnd, Plain
<1>4. /\ tree \in [Files -> Int] /\ asked \in SUBSET Files
      /\ \A f \in Files \ asked : tree[f] = Tree(HEAD)[f]
      /\ Quiet => \A f \in Files : tree[f] # Conflict
  BY <1>t, <1>1, <1>3 DEF CommitTree, Plain
<1>5. OnlyAdds /\ Len(commits') \in Known'
  <2>1. PICK parents, p : parents = {HEAD} /\ p = HEAD
    OBVIOUS
  <2>2. parents \in SUBSET Known /\ p \in parents /\ Commit(parents, tree, asked)
        /\ \A f \in Files \ asked : tree[f] = Tree(p)[f]
    BY <1>t, <1>2, <1>4, <2>1
  <2> QED  BY <1>4, <2>1, <2>2, ScopedCommit
<1>6. RefsType'
  <2>1. PICK n : n = Len(commits')
    OBVIOUS
  <2>2. n \in Known' /\ Known \subseteq Known' /\ local' = [local EXCEPT ![current] = n]
    BY <1>2, <1>5, <2>1 DEF OnlyAdds
  <2> QED  BY <1>t, <1>2, <2>2 DEF RefsType, HEAD
<1>7. CallType'
  BY <1>t, <1>2, CallEnds
<1>8. index' \in [Files -> Int] /\ \A f \in Files : index'[f] = index[f] \/ index'[f] = work[f]
  BY <1>t, <1>2
<1> QED  BY <1>t, <1>2, <1>3, <1>5, <1>6, <1>7, <1>8, CheckoutChanges

LEMMA EditFileInv == ASSUME GitInv, NEW f \in Files, EditFile(f) PROVE GitInv'
<1>t. /\ GitType /\ work \in [Files -> Int] /\ safe \in [Files -> Nat]
      /\ fileEdits \in Nat /\ fileEdits + 1 \in Nat /\ fileEdits + 1 # Conflict
  BY DEF GitInv, GitType, CheckoutType, Conflict
<1>1. /\ UNCHANGED <<commits, local, tracking, origin, current, index, mergeHead, call, kills>>
      /\ work' = [work EXCEPT ![f] = fileEdits + 1] /\ fileEdits' = fileEdits + 1
      /\ safe' = [safe EXCEPT ![f] = IF mergeHead = 0 THEN fileEdits + 1 ELSE NoFile]
      /\ late' = (late \/ mergeHead # 0)
  BY DEF EditFile, refs, counts
<1>2. OnlyAdds /\ Known' = Known
  BY <1>1, SameHistory
<1>3. HEAD' = HEAD /\ Tree(HEAD)' = Tree(HEAD) /\ Staged' = Staged
  BY <1>1 DEF HEAD, Tree, Staged
<1>4. GitType'
  <2>1. RefsType' /\ CallType'
    BY <1>1, <1>2, <1>3 DEF GitInv, GitType, RefsType, CallType
  <2>2. CheckoutType'
    BY <1>t, <1>1 DEF GitType, CheckoutType, NoFile
  <2> QED  BY <1>2, <2>1, <2>2 DEF GitType, OnlyAdds
<1>5. EditsKept'
  <2>1. ASSUME NEW g \in Files, safe'[g] # NoFile
        PROVE  /\ work'[g] = safe'[g] \/ InHistory(g, safe[g])'
               /\ mergeHead # 0 /\ g \in Staged => InHistory(g, safe[g])'
    <3>1. CASE g = f
      BY <1>t, <1>1, <2>1, <3>1
    <3>2. CASE g # f
      <4>1. safe'[g] = safe[g] /\ work'[g] = work[g]
        BY <1>t, <1>1, <3>2
      <4>2. InHistory(g, safe[g]) => InHistory(g, safe[g])'
        BY <1>2, <4>1 DEF InHistory, OnlyAdds, Tree
      <4> QED  BY <2>1, <4>1, <4>2 DEF GitInv, EditsKept
    <3> QED  BY <3>1, <3>2
  <2> QED  BY <1>1, <1>3, <2>1 DEF EditsKept
<1>6. MergesEnd'
  <2>1. Quiet' => Quiet /\ mergeHead = 0
    BY <1>1 DEF Quiet
  <2>2. \A g \in Files : work'[g] = work[g] \/ work'[g] # Conflict
    BY <1>t, <1>1
  <2> QED  BY <1>1, <1>2, <2>1, <2>2 DEF GitInv, MergesEnd, OnlyAdds, Plain
<1> QED  BY <1>2, <1>4, <1>5, <1>6 DEF GitInv, OnlyAdds

LEMMA PeerPushesInv ==
  ASSUME GitInv, NEW b \in Heads, NEW f \in Files, PeerPushes(b, f) PROVE GitInv'
<1>t. /\ GitType /\ current \in Heads /\ HEAD \in Known /\ local \in [Heads -> {0} \cup Known]
      /\ tracking \in [Heads -> {0} \cup Known] /\ origin \in [Heads -> {0} \cup Known]
      /\ fileEdits \in Nat /\ fileEdits + 1 \in Nat /\ fileEdits + 1 # Conflict /\ kills \in Nat
  BY DEF GitInv, GitType, RefsType, CheckoutType, Conflict
<1>1. PICK p, parents, asked, tree :
        p = origin[b] /\ parents = {p} /\ asked = {f} /\ tree = [Tree(p) EXCEPT ![f] = fileEdits + 1]
  OBVIOUS
<1>2. /\ UNCHANGED <<local, tracking, current, index, work, mergeHead, safe, late, call, kills>>
      /\ Commit(parents, tree, asked) /\ origin[b] # 0 /\ fileEdits' = fileEdits + 1
      /\ origin' = [origin EXCEPT ![b] = Len(commits')]
  BY <1>1 DEF PeerPushes, checkout, counts
<1>3. p \in Known /\ Tree(p) \in [Files -> Int]
  BY <1>t, <1>1, <1>2, TreeType
<1>4. /\ tree \in [Files -> Int] /\ asked \in SUBSET Files /\ p \in parents
      /\ parents \in SUBSET Known
      /\ \A g \in Files \ asked : tree[g] = Tree(p)[g]
      /\ Quiet => \A g \in Files : tree[g] # Conflict
  BY <1>t, <1>1, <1>3 DEF GitInv, MergesEnd
<1>5. OnlyAdds /\ Len(commits') \in Known'
  <2>1. parents = {p} /\ Commit(parents, tree, asked)
    BY <1>1, <1>2
  <2> QED  BY <1>4, <2>1, ScopedCommit
<1>6. RefsType' /\ HEAD' = HEAD
  <2>1. PICK n : n = Len(commits')
    OBVIOUS
  <2>2. n \in Known' /\ Known \subseteq Known' /\ origin' = [origin EXCEPT ![b] = n]
    BY <1>2, <1>5, <2>1 DEF OnlyAdds
  <2> QED  BY <1>t, <1>2, <2>2 DEF RefsType, HEAD
<1>7. CallType' /\ \A y \in Callers : At(y, "merge", "abort") => At(y, "merge", "abort")'
  BY <1>t, <1>2 DEF GitType, CallType, At
<1> QED  BY <1>t, <1>2, <1>5, <1>6, <1>7, CheckoutRests

LEMMA GitInitInv == GitInit => GitInv
<1> SUFFICES ASSUME GitInit PROVE GitInv
  OBVIOUS
<1>1. PICK first : /\ first = [past |-> {1}, tree |-> [f \in Files |-> NoFile],
                               parent |-> 1, asked |-> {}]
                   /\ commits = <<first>>
  BY DEF GitInit
<1>2. /\ first \in CommitRecord /\ first.tree = [f \in Files |-> NoFile] /\ first.parent = 1
      /\ first.asked = {}
  BY <1>1 DEF CommitRecord, NoFile
<1>3. /\ commits \in Seq(CommitRecord) /\ Len(commits) = 1 /\ commits[1] = first
      /\ Known = {1}
  BY <1>1, <1>2 DEF Known
<1>4. Tree(1) = [f \in Files |-> NoFile] /\ Tree(1) \in [Files -> Nat]
  BY <1>2, <1>3 DEF Tree, NoFile
<1>5. /\ current = Trunk /\ local = [b \in Heads |-> IF b = Trunk THEN 1 ELSE 0]
      /\ tracking = local /\ origin = local /\ index = Tree(1) /\ work = Tree(1)
      /\ safe = Tree(1) /\ mergeHead = 0 /\ fileEdits = 0 /\ kills = 0 /\ ~late
      /\ late \in BOOLEAN /\ call = [x \in Callers |-> Done]
  BY DEF GitInit
<1>6. HistoryType
  BY <1>2, <1>3 DEF HistoryType
<1>7. RefsType
  BY <1>3, <1>5, GitAssumption DEF RefsType, HEAD
<1>8. CheckoutType
  BY <1>4, <1>5 DEF CheckoutType
<1>9. CallType
  <2>1. Done \in CallRecord
    BY GitAssumption DEF Done, CallRecord, Points
  <2> QED  BY <1>5, <2>1 DEF CallType
<1>10. CommitScoped
  BY <1>2, <1>3 DEF CommitScoped, Tree
<1>11. EditsKept
  BY <1>5 DEF EditsKept
<1>12. MergesEnd
  BY <1>3, <1>4, <1>5 DEF MergesEnd, NoFile, Conflict
<1> QED  BY <1>6, <1>7, <1>8, <1>9, <1>10, <1>11, <1>12 DEF GitInv, GitType

LEMMA GitStep == GitInv /\ [GitNext]_gitVars => GitInv'
<1> SUFFICES ASSUME GitInv, [GitNext]_gitVars PROVE GitInv'
  OBVIOUS
<1>1. ASSUME NEW x \in Callers, ToolStep(x) PROVE GitInv'
  BY <1>1, RefStepInv, MergeStepInv, MergeAbortInv, GitAddInv, CommitPathsInv DEF ToolStep
<1>2. ASSUME NEW x \in Callers, ToolCall(x) PROVE GitInv'
  BY <1>2, ToolCallInv
<1>3. ASSUME NEW f \in Files, EditFile(f) PROVE GitInv'
  BY <1>3, EditFileInv
<1>4. ASSUME NEW f \in Files, NEW b \in Heads, PeerPushes(b, f) PROVE GitInv'
  BY <1>4, PeerPushesInv
<1>5. CASE UNCHANGED gitVars
  <2>1. UNCHANGED <<commits, local, tracking, origin, current, index, work, mergeHead, call,
                    fileEdits, safe, late, kills>>
    BY <1>5 DEF gitVars, refs, checkout, gitGhosts, counts
  <2>2. CallType' /\ HEAD' = HEAD
        /\ \A y \in Callers : At(y, "merge", "abort") => At(y, "merge", "abort")'
    BY <2>1 DEF GitInv, GitType, CallType, HEAD, At
  <2> QED  BY <2>1, <2>2, RefsChange DEF GitInv, GitType, RefsType
<1> QED  BY <1>1, <1>2, <1>3, <1>4, <1>5 DEF GitNext

(* Every commit of git_commit changes only the files that its caller       *)
(* named, whatever other calls, edits and pushes fall between its checks   *)
(* and git commit -- paths (_git_commit).                                  *)
THEOREM CommitsAreScoped == GitSpec => []CommitScoped
<1>1. GitInv => CommitScoped
  BY DEF GitInv
<1> QED  BY <1>1, GitInitInv, GitStep, PTL DEF GitSpec

(* No tool loses the last edit of a file, and a merge that nobody disturbs *)
(* and no timeout kills is undone when its call ends                       *)
(* (_git_merge_remote_branch).                                             *)
THEOREM WorkIsKept == GitSpec => []WorkKept
<1>1. GitInv => WorkKept
  BY DEF GitInv, EditsKept, MergesEnd, WorkKept, InHistory, Known, Quiet
<1> QED  BY <1>1, GitInitInv, GitStep, PTL DEF GitSpec

-----------------------------------------------------------------------------
(* Continuation.  The lease of a saved branch and the registry together    *)
(* decide who owns a worktree: the lease keeps a second resume from the    *)
(* branch that a worktree has checked out, the registry a second claim     *)
(* from the worktree itself.                                               *)

CallSteps == {"idle", "bind", "snapshot", "target", "claim", "check"}
SnapRecord == [branch : Spots, head : Nat, files : Nat]
NoteRecord == [branch : Spots, head : Nat, print : SnapRecord,
               kind : {"canonical", "managed"}, dirty : BOOLEAN]
EntryRecord == [state : {"new", "live", "expired", "lost"}, workspace : Spots,
                claimed : BOOLEAN, shared : BOOLEAN]
PlaceRecord == [branch : Spots \cup {Nowhere}, files : Nat]
ResumeRecord ==
  [at : CallSteps, scope : Scopes \cup {Nowhere}, saved : NoteRecord \cup {Nowhere},
   branch : Spots \cup {Nowhere}, target : Spots \cup {Nowhere}, created : BOOLEAN,
   taken : BOOLEAN, before : [workspace : Spots, claimed : BOOLEAN],
   result : {"none", "resumed", "failed"}]

ContType ==
  /\ entry \in [Resumers -> EntryRecord]
  /\ place \in [Spots -> PlaceRecord]
  /\ tip \in [Spots -> Nat \cup {Nowhere}]
  /\ note \in [Scopes -> NoteRecord \cup {Nowhere}]
  /\ authority \in [Resumers -> SnapRecord \cup {Nowhere}]
  /\ holder \in [Spots -> Resumers \cup {Nowhere}]
  /\ resume \in [Resumers -> ResumeRecord]
  /\ precious \in [Spots -> Nat] /\ churn \in Nat /\ leaving \subseteq Resumers

(* A branch, once there, stays; what is checked out, saved or looked for   *)
(* is a branch that is there.                                              *)
Exists(b) == b \in Spots /\ tip[b] # Nowhere

PlacesSound ==
  /\ There(Home)
  /\ \A w \in Spots : IF There(w) THEN Exists(place[w].branch) ELSE place[w].files = Clean
  /\ WorktreesKept

RecordsSound ==
  /\ \A s \in Scopes : note[s] # Nowhere => note[s] \in NoteRecord /\ Exists(note[s].branch)
  /\ \A c \in Resumers : Registered(c) => authority[c] \in SnapRecord

(* A call of a context, with the lease it holds, the binding it will       *)
(* restore and the worktree it attached                                    *)
Resuming(c) == resume[c].at \in {"target", "claim", "check"}
Leased(c) == resume[c].at \in {"snapshot", "claim", "check"}
Attached(c) == resume[c].at \in {"claim", "check"} /\ resume[c].created

CallSound(c) ==
  /\ ~Registered(c) => resume[c].at = "idle" /\ resume[c].result = "none"
  /\ resume[c].at = "bind" => entry[c].claimed /\ entry[c].workspace = Home
  /\ Leased(c) => /\ holder[resume[c].branch] = c /\ resume[c].target \in Spots
                  /\ Exists(resume[c].branch) /\ resume[c].scope \in Scopes
  /\ Resuming(c) =>
       /\ resume[c].saved \in NoteRecord /\ resume[c].saved.branch = resume[c].branch
       /\ Exists(resume[c].branch) /\ resume[c].scope \in Scopes
       /\ resume[c].before.workspace # Home => entry[c].shared /\ ~resume[c].before.claimed
       /\ IF resume[c].at = "check"
          THEN /\ resume[c].taken /\ entry[c].claimed
               /\ entry[c].workspace = resume[c].target
               /\ resume[c].before.claimed => resume[c].target = Home
          ELSE /\ ~resume[c].taken
               /\ entry[c].workspace = resume[c].before.workspace
               /\ entry[c].claimed = resume[c].before.claimed
  /\ resume[c].at = "target" => ~resume[c].created
  /\ Attached(c) => /\ resume[c].target = c
                    /\ There(c) => place[c].branch = resume[c].branch

(* A context that owns a workspace, and one whose ownership the second     *)
(* validation would confirm                                                *)
Owner(c, w) ==
  /\ Registered(c) /\ entry[c].claimed /\ entry[c].workspace = w /\ resume[c].at # "bind"
Firm(c) ==
  \/ ~entry[c].shared
  \/ /\ resume[c].at = "check" /\ There(entry[c].workspace)
     /\ place[entry[c].workspace].branch = resume[c].branch

OwnersSound ==
  /\ \A c, d \in Resumers, w \in Spots :
       c # d /\ Owner(c, w) /\ Owner(d, w) => w # Home /\ ~(Firm(c) /\ Firm(d))
  /\ \A c \in Resumers, w \in Spots : Owner(c, w) /\ Firm(c) => There(w)
  /\ \A c \in Resumers : Registered(c) /\ entry[c].workspace # Home =>
       entry[c].claimed \/ entry[c].shared
  /\ \A c, d \in Resumers : c # d /\ Attached(c) /\ Owner(d, c) => ~Firm(d)

CallsSound == \A c \in Resumers : CallSound(c)

(* ResumedOrNot of one context *)
Told(c) ==
  Free(c) =>
    /\ resume[c].result = "resumed" =>
         /\ entry[c].claimed /\ entry[c].workspace = resume[c].target
         /\ authority[c] = resume[c].saved.print
         /\ resume[c].saved.branch = resume[c].saved.print.branch
    /\ resume[c].result = "failed" =>
         /\ entry[c].workspace = resume[c].before.workspace
         /\ entry[c].claimed = resume[c].before.claimed

ContInv ==
  /\ ContType /\ PlacesSound /\ RecordsSound /\ CallsSound /\ OwnersSound
  /\ \A c \in Resumers : Told(c)

LEMMA SpotsDiffer ==
  /\ Home \in Spots /\ Resumers \subseteq Spots /\ Home \notin Resumers
  /\ Nowhere \notin Spots /\ Nowhere \notin Nat
BY ContinuationAssumption DEF Spots

LEMMA InitialRecords ==
  /\ NoResume \in ResumeRecord /\ NoResume.at = "idle" /\ NoResume.result = "none"
  /\ NoEntry \in EntryRecord
BY SpotsDiffer DEF NoResume, ResumeRecord, CallSteps, NoEntry, EntryRecord

(* The snapshot of a workspace that is there *)
LEMMA SnapshotThere ==
  ASSUME ContInv, NEW w \in Spots, There(w)
  PROVE  /\ SnapshotOf(w) \in SnapRecord /\ SnapshotOf(w).branch = place[w].branch
         /\ Exists(place[w].branch)
<1>1. Exists(place[w].branch)
  BY DEF ContInv, PlacesSound
<1>2. place[w].files \in Nat /\ tip[place[w].branch] \in Nat
  BY <1>1 DEF ContInv, ContType, PlaceRecord, Exists
<1> QED  BY <1>1, <1>2 DEF SnapshotOf, SnapRecord, Exists

(* What a step of one context leaves to the others *)
OnlyOf(c) ==
  /\ \A d \in Resumers \ {c} :
       /\ entry'[d] = entry[d] /\ resume'[d] = resume[d] /\ authority'[d] = authority[d]
       /\ Leased(d) => holder'[resume[d].branch] = d
       /\ Attached(d) /\ There(d)' => There(d) /\ place'[d].branch = place[d].branch
  /\ \A b : Exists(b) => Exists(b)'

LEMMA OthersCalls ==
  ASSUME ContInv, NEW c, OnlyOf(c)
  PROVE  \A d \in Resumers \ {c} : CallSound(d)' /\ Told(d)'
<1> TAKE d \in Resumers \ {c}
<1>1. entry'[d] = entry[d] /\ resume'[d] = resume[d] /\ authority'[d] = authority[d]
  BY DEF OnlyOf
<1>2. (Registered(d)' <=> Registered(d)) /\ (Leased(d)' <=> Leased(d))
      /\ (Resuming(d)' <=> Resuming(d)) /\ (Attached(d)' <=> Attached(d))
  BY <1>1 DEF Registered, Leased, Resuming, Attached
<1>3. CallSound(d) /\ Told(d)
  BY DEF ContInv, CallsSound
<1>4. CallSound(d)'
  BY <1>1, <1>2, <1>3 DEF CallSound, OnlyOf
<1>5. Told(d)'
  BY <1>1, <1>2, <1>3 DEF Told, Free
<1> QED  BY <1>4, <1>5

(* A step after which nobody owns more, and what is owned is still there *)
LEMMA OwnersRest ==
  ASSUME ContInv,
         \A c \in Resumers, w \in Spots : Owner(c, w)' => Owner(c, w),
         \A c \in Resumers, w \in Spots : Owner(c, w)' /\ Firm(c)' => Firm(c) \/ w = Home,
         \A c \in Resumers, w \in Spots : Owner(c, w)' /\ Firm(c)' /\ There(w) => There(w)',
         \A c \in Resumers : Registered(c)' /\ entry'[c].workspace # Home =>
           entry'[c].claimed \/ entry'[c].shared,
         \A c \in Resumers : Attached(c)' => Attached(c)
  PROVE  OwnersSound'
<1>1. There(Home) /\ \A c \in Resumers : c \in Spots /\ c # Home
  BY SpotsDiffer DEF ContInv, PlacesSound
<1>2. ASSUME NEW c \in Resumers, NEW d \in Resumers, NEW w \in Spots,
             c # d, Owner(c, w)', Owner(d, w)'
      PROVE  w # Home /\ ~(Firm(c)' /\ Firm(d)')
  BY <1>2, Zenon DEF ContInv, OwnersSound
<1>3. ASSUME NEW c \in Resumers, NEW w \in Spots, Owner(c, w)', Firm(c)' PROVE There(w)'
  BY <1>1, <1>3, Zenon DEF ContInv, OwnersSound
<1>4. ASSUME NEW c \in Resumers, NEW d \in Resumers, c # d, Attached(c)', Owner(d, c)'
      PROVE  ~Firm(d)'
  BY <1>1, <1>4, Zenon DEF ContInv, OwnersSound
<1> QED  BY <1>2, <1>3, <1>4, Zenon DEF OwnersSound

(* The workspaces and branches stay as they are. *)
LEMMA PlacesRest ==
  ASSUME ContInv, UNCHANGED <<place, tip, precious>>
  PROVE  PlacesSound' /\ (\A b : Exists(b) <=> Exists(b)') /\ (\A w : There(w) <=> There(w)')
BY DEF ContInv, PlacesSound, WorktreesKept, There, Exists

(* One context's call moves on. *)
LEMMA CallTurns ==
  ASSUME ContInv, NEW c \in Resumers, NEW q \in ResumeRecord, resume' = [resume EXCEPT ![c] = q]
  PROVE  /\ resume' \in [Resumers -> ResumeRecord] /\ resume'[c] = q
         /\ \A d \in Resumers \ {c} : resume'[d] = resume[d]
BY DEF ContInv, ContType

LEMMA EntryTurns ==
  ASSUME ContInv, NEW c \in Resumers, NEW e \in EntryRecord, entry' = [entry EXCEPT ![c] = e]
  PROVE  /\ entry' \in [Resumers -> EntryRecord] /\ entry'[c] = e
         /\ \A d \in Resumers \ {c} : entry'[d] = entry[d]
BY DEF ContInv, ContType

(* A lease is taken where nobody has it, and given back by who does. *)
LEMMA LeaseTaken ==
  ASSUME ContInv, NEW c \in Resumers, NEW b \in Spots, holder[b] = Nowhere,
         holder' = [holder EXCEPT ![b] = c]
  PROVE  /\ holder' \in [Spots -> Resumers \cup {Nowhere}] /\ holder'[b] = c
         /\ \A d \in Resumers \ {c} : Leased(d) => holder'[resume[d].branch] = d
<1>1. \A d \in Resumers : Leased(d) => holder[resume[d].branch] = d /\ d # Nowhere
  BY SpotsDiffer DEF ContInv, CallsSound, CallSound
<1> QED  BY <1>1 DEF ContInv, ContType

LEMMA LeaseFreed ==
  ASSUME ContInv, NEW c \in Resumers, NEW b \in Spots, holder[b] \in {c, Nowhere},
         FreeBranch(b)
  PROVE  /\ holder' \in [Spots -> Resumers \cup {Nowhere}]
         /\ \A d \in Resumers \ {c} : Leased(d) => holder'[resume[d].branch] = d
<1>1. \A d \in Resumers : Leased(d) =>
        /\ holder[resume[d].branch] = d /\ d # Nowhere /\ resume[d].branch \in Spots
  BY SpotsDiffer DEF ContInv, CallsSound, CallSound, Exists
<1> QED  BY <1>1 DEF ContInv, ContType, FreeBranch

(* Workspaces are edited or removed, and no more. *)
PlacesHeld ==
  \A w \in Spots : There(w)' => There(w) /\ place'[w].branch = place[w].branch

(* A step of one context that leaves the others what they own *)
LEMMA OwnersKeep ==
  ASSUME ContInv, NEW c \in Resumers, OnlyOf(c), PlacesHeld,
         \A d \in Resumers \ {c}, w \in Spots :
           Owner(d, w) /\ Firm(d) /\ There(w) => There(w)',
         \A w \in Spots : Owner(c, w)' =>
           Owner(c, w) /\ (Firm(c)' => Firm(c)) /\ (There(w) => There(w)'),
         Registered(c)' /\ entry'[c].workspace # Home => entry'[c].claimed \/ entry'[c].shared,
         Attached(c)' => Attached(c)
  PROVE  OwnersSound'
<1>1. \A d \in Resumers \ {c} :
        entry'[d] = entry[d] /\ resume'[d] = resume[d] /\ entry[d].workspace \in Spots
  BY DEF OnlyOf, ContInv, ContType, EntryRecord
<1>2. \A d \in Resumers \ {c}, w \in Spots : Owner(d, w)' <=> Owner(d, w)
  BY <1>1 DEF Owner, Registered
<1>3. \A d \in Resumers \ {c} : Firm(d)' => Firm(d)
  BY <1>1 DEF Firm, PlacesHeld
<1>4. \A d \in Resumers \ {c} :
        /\ Registered(d)' /\ entry'[d].workspace # Home => entry'[d].claimed \/ entry'[d].shared
        /\ Attached(d)' => Attached(d)
  BY <1>1 DEF ContInv, OwnersSound, Registered, Attached
<1>5. \A d \in Resumers, w \in Spots : Owner(d, w)' => Owner(d, w)
  BY <1>2
<1>6. \A d \in Resumers, w \in Spots : Owner(d, w)' /\ Firm(d)' => Firm(d) \/ w = Home
  BY <1>3
<1>7. \A d \in Resumers, w \in Spots : Owner(d, w)' /\ Firm(d)' /\ There(w) => There(w)'
  BY <1>2, <1>3
<1>8. \A d \in Resumers :
        /\ Registered(d)' /\ entry'[d].workspace # Home => entry'[d].claimed \/ entry'[d].shared
        /\ Attached(d)' => Attached(d)
  BY <1>4
<1> HIDE DEF Owner, Firm, There, Registered, Attached
<1> QED  BY <1>5, <1>6, <1>7, <1>8, OwnersRest

LEMMA ContextMoves ==
  ASSUME ContInv, NEW c \in Resumers, OnlyOf(c), ContType', PlacesSound', RecordsSound',
         OwnersSound', CallSound(c)', Told(c)'
  PROVE  ContInv'
BY OthersCalls DEF ContInv, CallsSound

(* A step that touches no workspace *)
LEMMA QuietMove ==
  ASSUME ContInv, NEW c \in Resumers, UNCHANGED <<place, tip, precious>>,
         \A d \in Resumers \ {c} :
           entry'[d] = entry[d] /\ resume'[d] = resume[d] /\ authority'[d] = authority[d],
         \A d \in Resumers \ {c} : Leased(d) => holder'[resume[d].branch] = d,
         ContType', RecordsSound', CallSound(c)', Told(c)',
         \A w \in Spots : Owner(c, w)' => Owner(c, w) /\ (Firm(c)' => Firm(c)),
         Registered(c)' /\ entry'[c].workspace # Home => entry'[c].claimed \/ entry'[c].shared,
         Attached(c)' => Attached(c)
  PROVE  ContInv'
<1>1. PlacesSound' /\ (\A b : Exists(b) <=> Exists(b)') /\ (\A w : There(w) <=> There(w)')
  BY PlacesRest
<1>2. OnlyOf(c)
  BY <1>1 DEF OnlyOf
<1>3. PlacesHeld
  BY <1>1 DEF PlacesHeld
<1>4. OwnersSound'
  BY <1>1, <1>2, <1>3, OwnersKeep, ZenonT(30)
<1> QED  BY <1>1, <1>2, <1>4, ContextMoves, Zenon

(* A call that is over, or has not begun *)
LEMMA IdleCall ==
  ASSUME NEW c \in Resumers, resume'[c].at = "idle",
         Registered(c)' \/ resume'[c].result = "none"
  PROVE  /\ CallSound(c)' /\ ~Attached(c)' /\ ~Leased(c)'
         /\ resume'[c].result = "none" => Told(c)'
         /\ Firm(c)' => ~entry'[c].shared
BY DEF CallSound, Attached, Leased, Resuming, Told, Firm

(* A context begins where nobody looks, or in what it says it shares. *)
LEMMA OpenStep ==
  ASSUME ContInv, NEW c \in Resumers, NEW w \in Spots, There(w), entry[c].state = "new",
         UNCHANGED <<place, tip, note, holder, resume, leaving, precious, churn>>,
         authority' = [authority EXCEPT ![c] = SnapshotOf(w)],
         NEW e \in EntryRecord, entry' = [entry EXCEPT ![c] = e],
         ~e.claimed, e.workspace = w, w # Home => e.shared
  PROVE  ContInv'
<1>1. /\ entry' \in [Resumers -> EntryRecord] /\ entry'[c] = e
      /\ \A d \in Resumers \ {c} : entry'[d] = entry[d]
  BY EntryTurns
<1>2. SnapshotOf(w) \in SnapRecord
  BY SnapshotThere
<1>3. /\ authority' \in [Resumers -> SnapRecord \cup {Nowhere}]
      /\ authority'[c] = SnapshotOf(w)
      /\ \A d \in Resumers \ {c} : authority'[d] = authority[d]
  BY <1>2 DEF ContInv, ContType
<1>4. CallSound(c) /\ \A d \in Resumers : Leased(d) => holder[resume[d].branch] = d
  BY DEF ContInv, CallsSound, CallSound
<1>5. resume'[c].at = "idle" /\ resume'[c].result = "none"
  BY <1>4 DEF CallSound, Registered
<1>6. CallSound(c)' /\ ~Attached(c)' /\ Told(c)'
  BY <1>5, IdleCall
<1>7. ContType'
  BY <1>1, <1>3 DEF ContInv, ContType
<1>8. RecordsSound'
  BY <1>1, <1>2, <1>3 DEF ContInv, RecordsSound, Registered, Exists
<1>9. \A v \in Spots : ~Owner(c, v)'
  BY <1>1 DEF Owner
<1>10. Registered(c)' /\ entry'[c].workspace # Home => entry'[c].claimed \/ entry'[c].shared
  BY <1>1
<1> QED  BY <1>1, <1>3, <1>4, <1>6, <1>7, <1>8, <1>9, <1>10, QuietMove, Zenon

LEMMA ExpireStep ==
  ASSUME ContInv, NEW c \in Resumers, Expire(c)
  PROVE  ContInv'
<1>1. PICK e : e = [entry[c] EXCEPT !.state = "expired", !.claimed = FALSE, !.shared = FALSE]
  OBVIOUS
<1>2. entry[c] \in EntryRecord /\ CallSound(c) /\ Free(c)
  BY DEF ContInv, ContType, CallsSound, Expire
<1>3. e \in EntryRecord /\ e.state = "expired"
  BY <1>1, <1>2 DEF EntryRecord
<1>4. entry' = [entry EXCEPT ![c] = e]
  BY <1>1 DEF Expire, ContInv, ContType
<1>5. /\ entry' \in [Resumers -> EntryRecord] /\ entry'[c] = e
      /\ \A d \in Resumers \ {c} : entry'[d] = entry[d]
  BY <1>3, <1>4, EntryTurns
<1>6. /\ resume' \in [Resumers -> ResumeRecord] /\ resume'[c] = NoResume
      /\ \A d \in Resumers \ {c} : resume'[d] = resume[d]
  BY InitialRecords, CallTurns DEF Expire, Return
<1>7. CallSound(c)' /\ ~Attached(c)' /\ Told(c)'
  BY <1>6, IdleCall, InitialRecords
<1>8. UNCHANGED <<place, tip, note, holder, precious, churn>>
  BY DEF Expire
<1>9. /\ authority' \in [Resumers -> SnapRecord \cup {Nowhere}]
      /\ \A d \in Resumers \ {c} : authority'[d] = authority[d]
  BY DEF Expire, ContInv, ContType
<1>10. leaving' \subseteq Resumers
  BY <1>2 DEF Expire, ContInv, ContType, EntryRecord, Spots
<1>11. ContType'
  BY <1>5, <1>6, <1>8, <1>9, <1>10 DEF ContInv, ContType
<1>12. ~Registered(c)' /\ \A w \in Spots : ~Owner(c, w)'
  BY <1>3, <1>5 DEF Registered, Owner
<1>13. RecordsSound'
  BY <1>5, <1>8, <1>9, <1>12 DEF ContInv, RecordsSound, Registered, Exists
<1>14. \A d \in Resumers \ {c} : Leased(d) => holder'[resume[d].branch] = d
  BY <1>8 DEF ContInv, CallsSound, CallSound
<1> QED  BY <1>5, <1>6, <1>7, <1>8, <1>9, <1>11, <1>12, <1>13, <1>14, QuietMove, Zenon

(* A call moves on and nothing else does, but for leases and records. *)
LEMMA CallMoves ==
  ASSUME ContInv, NEW c \in Resumers, UNCHANGED <<entry, place, tip, leaving, precious, churn>>,
         NEW q \in ResumeRecord, resume' = [resume EXCEPT ![c] = q],
         note' \in [Scopes -> NoteRecord \cup {Nowhere}],
         \A s \in Scopes : note'[s] # Nowhere => Exists(note'[s].branch),
         authority' \in [Resumers -> SnapRecord \cup {Nowhere}],
         authority'[c] \in SnapRecord \/ authority' = authority,
         \A d \in Resumers \ {c} : authority'[d] = authority[d],
         holder' \in [Spots -> Resumers \cup {Nowhere}],
         \A d \in Resumers \ {c} : Leased(d) => holder'[resume[d].branch] = d,
         q.at # "bind", resume[c].at # "bind", q.at = "check" => resume[c].at = "check",
         q.branch = resume[c].branch \/ q.at # "check",
         CallSound(c)', Told(c)', Attached(c)' => Attached(c)
  PROVE  ContInv'
<1>1. /\ resume' \in [Resumers -> ResumeRecord] /\ resume'[c] = q
      /\ \A d \in Resumers \ {c} : resume'[d] = resume[d]
  BY CallTurns
<1>2. ContType'
  BY <1>1 DEF ContInv, ContType
<1>3. \A b : Exists(b) <=> Exists(b)'
  BY DEF Exists
<1>4. RecordsSound'
  BY <1>3 DEF ContInv, ContType, RecordsSound, Registered
<1>5. \A w \in Spots : Owner(c, w)' => Owner(c, w) /\ (Firm(c)' => Firm(c))
  BY <1>1 DEF Owner, Firm, Registered, There
<1>6. Registered(c)' /\ entry'[c].workspace # Home => entry'[c].claimed \/ entry'[c].shared
  BY DEF ContInv, OwnersSound, Registered
<1> QED  BY <1>1, <1>2, <1>4, <1>5, <1>6, QuietMove

(* The leases and records of a step that leaves them *)
LEMMA LeasesRest ==
  ASSUME ContInv
  PROVE  /\ holder \in [Spots -> Resumers \cup {Nowhere}]
         /\ \A d \in Resumers : Leased(d) => holder[resume[d].branch] = d
         /\ note \in [Scopes -> NoteRecord \cup {Nowhere}]
         /\ \A s \in Scopes : note[s] # Nowhere => Exists(note[s].branch)
         /\ authority \in [Resumers -> SnapRecord \cup {Nowhere}]
         /\ resume \in [Resumers -> ResumeRecord] /\ entry \in [Resumers -> EntryRecord]
BY DEF ContInv, ContType, CallsSound, CallSound, RecordsSound

LEMMA LeaseHeldStep ==
  ASSUME ContInv, NEW c \in Resumers, LeaseHeld(c)
  PROVE  ContInv'
<1>1. UNCHANGED <<entry, place, tip, note, authority, holder, leaving, precious, churn>>
      /\ resume' = [resume EXCEPT ![c] = NoResume] /\ resume[c].at # "bind"
  BY DEF LeaseHeld, Return
<1>2. resume'[c] = NoResume
  BY <1>1, LeasesRest
<1>3. CallSound(c)' /\ ~Attached(c)' /\ Told(c)'
  BY <1>2, IdleCall, InitialRecords
<1> QED  BY <1>1, <1>3, CallMoves, LeasesRest, InitialRecords

LEMMA ClearNoteStep ==
  ASSUME ContInv, NEW c \in Resumers, NEW s \in Scopes, ClearNote(c, s)
  PROVE  ContInv'
<1>1. UNCHANGED <<entry, place, tip, authority, holder, resume, leaving, precious, churn>>
  BY DEF ClearNote
<1>2. /\ note' \in [Scopes -> NoteRecord \cup {Nowhere}]
      /\ \A t \in Scopes : note'[t] # Nowhere => Exists(note'[t].branch)
  BY LeasesRest DEF ClearNote
<1>3. PICK q : q = resume[c]
  OBVIOUS
<1>4. q \in ResumeRecord /\ resume' = [resume EXCEPT ![c] = q] /\ q.at = "idle"
  BY <1>1, <1>3, LeasesRest DEF ClearNote, Free
<1>5. CallSound(c)' /\ Told(c)' /\ (Attached(c)' => Attached(c))
  BY <1>1 DEF ContInv, CallsSound, CallSound, Told, Attached, Leased, Resuming, Registered, Free,
              Exists, There
<1> QED  BY <1>1, <1>2, <1>3, <1>4, <1>5, CallMoves, LeasesRest

LEMMA BeginWriteStep ==
  ASSUME ContInv, NEW c \in Resumers, NEW s \in Scopes, BeginWrite(c, s)
  PROVE  ContInv'
<1>1. PICK w : w = entry[c].workspace
  OBVIOUS
<1>2. PICK b : b = place[w].branch
  OBVIOUS
<1>3. w \in Spots /\ There(w) /\ Registered(c) /\ resume[c].at = "idle"
  BY <1>1, LeasesRest DEF BeginWrite, Free, EntryRecord
<1>4. Exists(b) /\ b \in Spots
  BY <1>2, <1>3, SnapshotThere DEF Exists
<1>5. PICK q : q = [NoResume EXCEPT !.at = "snapshot", !.scope = s, !.branch = b, !.target = w]
  OBVIOUS
<1>6. /\ q \in ResumeRecord /\ q.at = "snapshot" /\ q.scope = s /\ q.branch = b
      /\ q.target = w /\ ~q.created
  BY <1>3, <1>4, <1>5, SpotsDiffer DEF NoResume, ResumeRecord, CallSteps
<1>7. /\ UNCHANGED <<entry, place, tip, note, authority, leaving, precious, churn>>
      /\ holder[b] = Nowhere /\ holder' = [holder EXCEPT ![b] = c]
      /\ resume' = [resume EXCEPT ![c] = q]
  BY <1>1, <1>2, <1>5 DEF BeginWrite
<1>8. /\ holder' \in [Spots -> Resumers \cup {Nowhere}] /\ holder'[b] = c
      /\ \A d \in Resumers \ {c} : Leased(d) => holder'[resume[d].branch] = d
  BY <1>4, <1>7, LeaseTaken
<1>9. resume'[c] = q /\ Registered(c)' /\ Exists(b)'
  BY <1>3, <1>4, <1>7, LeasesRest DEF Registered, Exists
<1>10. CallSound(c)' /\ Told(c)' /\ ~Attached(c)'
  BY <1>3, <1>6, <1>8, <1>9 DEF CallSound, Told, Attached, Leased, Resuming, Free
<1> QED  BY <1>3, <1>6, <1>7, <1>8, <1>10, CallMoves, LeasesRest

(* The record of a workspace that is there *)
LEMMA NoteThere ==
  ASSUME ContInv, NEW b \in Spots, NEW x \in SnapRecord, NEW w
  PROVE  NoteOf(b, x, w) \in NoteRecord /\ NoteOf(b, x, w).branch = b
BY DEF NoteOf, NoteRecord, SnapRecord

LEMMA WriteNoteStep ==
  ASSUME ContInv, NEW c \in Resumers, NEW evidence, WriteNote(c, evidence)
  PROVE  ContInv'
<1>1. PICK w : w = resume[c].target
  OBVIOUS
<1>2. PICK b : b = resume[c].branch
  OBVIOUS
<1>3. CallSound(c) /\ resume[c].at = "snapshot"
  BY DEF ContInv, CallsSound, WriteNote
<1>4. /\ w \in Spots /\ Exists(b) /\ b \in Spots /\ holder[b] = c /\ resume[c].scope \in Scopes
      /\ Registered(c)
  BY <1>1, <1>2, <1>3 DEF CallSound, Leased, Exists
<1>5. /\ UNCHANGED <<entry, place, tip, leaving, precious, churn>>
      /\ resume' = [resume EXCEPT ![c] = NoResume] /\ FreeBranch(b)
  BY <1>2 DEF WriteNote, Return
<1>6. \/ UNCHANGED <<note, authority>>
      \/ /\ There(w)
         /\ note' = [note EXCEPT ![resume[c].scope] = NoteOf(b, SnapshotOf(w), w)]
         /\ authority' = [authority EXCEPT ![c] = SnapshotOf(w)]
  BY <1>1, <1>2 DEF WriteNote
<1>7. /\ holder' \in [Spots -> Resumers \cup {Nowhere}]
      /\ \A d \in Resumers \ {c} : Leased(d) => holder'[resume[d].branch] = d
  BY <1>4, <1>5, LeaseFreed
<1>8. resume'[c] = NoResume
  BY <1>5, LeasesRest
<1>9. CallSound(c)' /\ Told(c)' /\ ~Attached(c)'
  BY <1>8, IdleCall, InitialRecords
<1>10. CASE UNCHANGED <<note, authority>>
  BY <1>3, <1>5, <1>7, <1>9, <1>10, CallMoves, LeasesRest, InitialRecords
<1>11. CASE /\ There(w)
            /\ note' = [note EXCEPT ![resume[c].scope] = NoteOf(b, SnapshotOf(w), w)]
            /\ authority' = [authority EXCEPT ![c] = SnapshotOf(w)]
  <2>1. PICK x \in SnapRecord : x = SnapshotOf(w)
    BY <1>4, <1>11, SnapshotThere
  <2>2. PICK n \in NoteRecord : n = NoteOf(b, x, w) /\ n.branch = b
    BY <1>4, NoteThere
  <2>3. note' = [note EXCEPT ![resume[c].scope] = n] /\ authority' = [authority EXCEPT ![c] = x]
    BY <1>11, <2>1, <2>2
  <2>4. /\ note' \in [Scopes -> NoteRecord \cup {Nowhere}]
        /\ \A t \in Scopes : note'[t] # Nowhere => Exists(note'[t].branch)
    BY <1>4, <2>2, <2>3, LeasesRest
  <2>5. /\ authority' \in [Resumers -> SnapRecord \cup {Nowhere}] /\ authority'[c] \in SnapRecord
        /\ \A d \in Resumers \ {c} : authority'[d] = authority[d]
    BY <2>1, <2>3, LeasesRest
  <2> QED  BY <1>3, <1>5, <1>7, <1>9, <2>4, <2>5, CallMoves, InitialRecords
<1> QED  BY <1>6, <1>10, <1>11

LEMMA ReadNoteStep ==
  ASSUME ContInv, NEW c \in Resumers, NEW s \in Scopes, ReadNote(c, s)
  PROVE  ContInv'
<1>1. /\ entry[c] \in EntryRecord /\ Registered(c) /\ resume[c].at = "idle"
      /\ note[s] \in NoteRecord /\ Exists(note[s].branch) /\ note[s].branch \in Spots
      /\ entry[c].claimed => entry[c].workspace = Home
  BY LeasesRest DEF ReadNote, Free, ContInv, RecordsSound, Exists
<1>2. entry[c].workspace # Home => entry[c].shared /\ ~entry[c].claimed
  BY <1>1 DEF ContInv, OwnersSound
<1>3. PICK x : x = [workspace |-> entry[c].workspace, claimed |-> entry[c].claimed]
  OBVIOUS
<1>4. PICK q : q = [NoResume EXCEPT !.at = "target", !.scope = s, !.saved = note[s],
                      !.branch = note[s].branch, !.before = x]
  OBVIOUS
<1>5. /\ x \in [workspace : Spots, claimed : BOOLEAN]
      /\ x.workspace = entry[c].workspace /\ (x.claimed = entry[c].claimed)
  BY <1>1, <1>3 DEF EntryRecord
<1>6. /\ q \in ResumeRecord /\ q.at = "target" /\ q.scope = s /\ q.saved = note[s]
      /\ q.branch = note[s].branch /\ q.before = x /\ ~q.created /\ ~q.taken
  BY <1>1, <1>4, <1>5 DEF NoResume, ResumeRecord, CallSteps
<1>7. /\ UNCHANGED <<entry, place, tip, note, authority, holder, leaving, precious, churn>>
      /\ resume' = [resume EXCEPT ![c] = q]
  BY <1>3, <1>4 DEF ReadNote
<1>8. resume'[c] = q /\ Registered(c)' /\ Exists(q.branch)'
  BY <1>1, <1>6, <1>7, LeasesRest DEF Registered, Exists
<1>9. CallSound(c)' /\ Told(c)' /\ ~Attached(c)'
  BY <1>1, <1>2, <1>5, <1>6, <1>7, <1>8
  DEF CallSound, Told, Attached, Leased, Resuming, Free
<1> QED  BY <1>1, <1>6, <1>7, <1>9, CallMoves, LeasesRest

(* Clean worktrees are removed. *)
LEMMA PlacesRemoved ==
  ASSUME ContInv, NEW W, Home \notin W, place' = Removed(W), UNCHANGED <<tip, precious>>
  PROVE  /\ place' \in [Spots -> PlaceRecord] /\ PlacesSound' /\ PlacesHeld
         /\ \A w \in Spots \ W : place'[w] = place[w]
         /\ \A b : Exists(b) <=> Exists(b)'
<1>1. Gone \in PlaceRecord /\ Gone.branch = Nowhere /\ Gone.files = Clean /\ Clean \in Nat
  BY DEF Gone, PlaceRecord, Clean
<1>2. place \in [Spots -> PlaceRecord] /\ PlacesSound
  BY DEF ContInv, ContType
<1>3. \A w \in Spots :
        place'[w] = place[w] \/ (w \in W /\ place'[w] = Gone /\ place[w].files = Clean)
  BY DEF Removed
<1>4. place' \in [Spots -> PlaceRecord]
  BY <1>1, <1>2, <1>3 DEF Removed
<1>5. \A b : Exists(b) <=> Exists(b)'
  BY DEF Exists
<1>6. PlacesHeld
  BY <1>1, <1>3 DEF PlacesHeld, There
<1>7. There(Home)'
  BY <1>2, <1>3, SpotsDiffer DEF PlacesSound, There
<1>8. ASSUME NEW w \in Spots
      PROVE  IF There(w)' THEN Exists(place[w].branch)' ELSE place'[w].files = Clean
  BY <1>1, <1>2, <1>3, <1>5 DEF PlacesSound, There
<1>9. WorktreesKept'
  BY <1>1, <1>2, <1>3 DEF PlacesSound, WorktreesKept
<1>10. PlacesSound'
  BY <1>7, <1>8, <1>9 DEF PlacesSound
<1> QED  BY <1>3, <1>4, <1>5, <1>6, <1>10

(* A worktree is made, with a branch that is there then. *)
LEMMA PlaceMade ==
  ASSUME ContInv, NEW c \in Resumers, ~There(c), UNCHANGED precious,
         NEW b, Exists(b)', \A x : Exists(x) => Exists(x)',
         place' = [place EXCEPT ![c] = [branch |-> b, files |-> Clean]]
  PROVE  /\ place' \in [Spots -> PlaceRecord] /\ PlacesSound' /\ place'[c].branch = b
         /\ There(c)' /\ \A w \in Spots \ {c} : place'[w] = place[w]
         /\ \A w \in Spots : There(w) => There(w)'
<1>1. place \in [Spots -> PlaceRecord] /\ PlacesSound /\ c \in Spots
  BY SpotsDiffer DEF ContInv, ContType
<1>2. PICK q : q = [branch |-> b, files |-> Clean]
  OBVIOUS
<1>3. q \in PlaceRecord /\ q.branch = b /\ q.files = Clean /\ b # Nowhere
  BY <1>2, SpotsDiffer DEF PlaceRecord, Clean, Exists
<1>4. place' = [place EXCEPT ![c] = q]
  BY <1>2
<1>5. place'[c] = q /\ \A w \in Spots \ {c} : place'[w] = place[w]
  BY <1>1, <1>4
<1>6. place' \in [Spots -> PlaceRecord]
  BY <1>1, <1>3, <1>4
<1>7. There(c)' /\ (\A w \in Spots \ {c} : There(w)' <=> There(w))
  BY <1>3, <1>5 DEF There
<1>8. There(Home)'
  BY <1>1, <1>7, SpotsDiffer DEF PlacesSound
<1>9. ASSUME NEW w \in Spots
      PROVE  IF There(w)' THEN Exists(place[w].branch)' ELSE place'[w].files = Clean
  BY <1>1, <1>3, <1>5, <1>7 DEF PlacesSound
<1>10. WorktreesKept'
  BY <1>1, <1>3, <1>5 DEF PlacesSound, WorktreesKept
<1>11. PlacesSound'
  BY <1>8, <1>9, <1>10 DEF PlacesSound
<1> QED  BY <1>3, <1>5, <1>6, <1>7, <1>11

(* One context owns more than before. *)
LEMMA OwnersGain ==
  ASSUME ContInv, NEW c \in Resumers, NEW v \in Spots, OnlyOf(c),
         \A d \in Resumers \ {c} : Firm(d)' => Firm(d),
         \A w \in Spots : There(w) => There(w)',
         \A w \in Spots : Owner(c, w)' => w = v,
         \A d \in Resumers \ {c} :
           Owner(c, v)' /\ Owner(d, v) => v # Home /\ ~(Firm(c)' /\ Firm(d)),
         Owner(c, v)' /\ Firm(c)' => There(v)',
         Registered(c)' /\ entry'[c].workspace # Home => entry'[c].claimed \/ entry'[c].shared,
         \A d \in Resumers \ {c} : Attached(d) /\ Owner(c, d)' => ~Firm(c)',
         \A d \in Resumers \ {c} : Attached(c)' /\ Owner(d, c) => ~Firm(d)
  PROVE  OwnersSound'
<1>1. \A d \in Resumers \ {c} : entry'[d] = entry[d] /\ resume'[d] = resume[d]
  BY DEF OnlyOf
<1>2. \A d \in Resumers \ {c} :
        /\ \A w : Owner(d, w)' <=> Owner(d, w)
        /\ Registered(d)' <=> Registered(d)
        /\ Attached(d)' <=> Attached(d)
  BY <1>1 DEF Owner, Registered, Attached
<1>3. OwnersSound /\ Resumers \subseteq Spots
  BY SpotsDiffer DEF ContInv
<1>4. ASSUME NEW a \in Resumers, NEW d \in Resumers, NEW w \in Spots,
             a # d, Owner(a, w)', Owner(d, w)'
      PROVE  w # Home /\ ~(Firm(a)' /\ Firm(d)')
  <2>1. CASE a = c
    BY <1>2, <1>4, <2>1, Zenon
  <2>2. CASE d = c
    BY <1>2, <1>4, <2>2, Zenon
  <2>3. CASE a # c /\ d # c
    <3>1. Owner(a, w) /\ Owner(d, w)
      BY <1>2, <1>4, <2>3
    <3> QED  BY <1>3, <1>4, <2>3, <3>1, Zenon DEF OwnersSound
  <2> QED  BY <2>1, <2>2, <2>3
<1>5. ASSUME NEW d \in Resumers, NEW w \in Spots, Owner(d, w)', Firm(d)' PROVE There(w)'
  <2>1. CASE d = c
    BY <1>5, <2>1, Zenon
  <2>2. CASE d # c
    BY <1>2, <1>3, <1>5, <2>2, Zenon DEF OwnersSound
  <2> QED  BY <2>1, <2>2
<1>6. ASSUME NEW d \in Resumers, Registered(d)', entry'[d].workspace # Home
      PROVE  entry'[d].claimed \/ entry'[d].shared
  BY <1>1, <1>2, <1>3, <1>6 DEF OwnersSound
<1>7. ASSUME NEW a \in Resumers, NEW d \in Resumers, a # d, Attached(a)', Owner(d, a)'
      PROVE  ~Firm(d)'
  <2>1. CASE a = c
    BY <1>2, <1>7, <2>1, Zenon
  <2>2. CASE d = c
    BY <1>2, <1>7, <2>2, Zenon
  <2>3. CASE a # c /\ d # c
    <3>1. Attached(a) /\ Owner(d, a)
      BY <1>2, <1>7, <2>3
    <3> QED  BY <1>3, <1>7, <2>3, <3>1, Zenon DEF OwnersSound
  <2> QED  BY <2>1, <2>2, <2>3
<1> QED  BY <1>4, <1>5, <1>6, <1>7, Zenon DEF OwnersSound

(* A context claims the workspace it is in. *)
LEMMA ClaimPlaceStep ==
  ASSUME ContInv, NEW c \in Resumers, ClaimPlace(c)
  PROVE  ContInv'
<1>1. PICK e : e = [entry[c] EXCEPT !.claimed = TRUE]
  OBVIOUS
<1>2. PICK v : v = entry[c].workspace
  OBVIOUS
<1>3. PICK step : step = IF Contender(c) /\ v = Home THEN "bind" ELSE "idle"
  OBVIOUS
<1>4. PICK q : q = [NoResume EXCEPT !.at = step]
  OBVIOUS
<1>5. /\ entry[c] \in EntryRecord /\ v \in Spots /\ Registered(c) /\ resume[c].at = "idle"
      /\ ~entry[c].claimed /\ There(v)
  BY <1>2, LeasesRest DEF ClaimPlace, Free, EntryRecord
<1>6. /\ e \in EntryRecord /\ e.state = "live" /\ e.claimed /\ e.workspace = v
      /\ (e.shared = entry[c].shared)
  BY <1>1, <1>2, <1>5 DEF EntryRecord, Registered
<1>7. /\ q \in ResumeRecord /\ q.at = step /\ q.result = "none" /\ ~q.created
  BY <1>3, <1>4, SpotsDiffer DEF NoResume, ResumeRecord, CallSteps
<1>8. /\ UNCHANGED <<place, tip, note, authority, holder, leaving, precious, churn>>
      /\ entry' = [entry EXCEPT ![c] = e] /\ resume' = [resume EXCEPT ![c] = q]
  BY <1>1, <1>2, <1>3, <1>4 DEF ClaimPlace, ContInv, ContType
<1>9. /\ entry' \in [Resumers -> EntryRecord] /\ entry'[c] = e
      /\ \A d \in Resumers \ {c} : entry'[d] = entry[d]
  BY <1>6, <1>8, EntryTurns
<1>10. /\ resume' \in [Resumers -> ResumeRecord] /\ resume'[c] = q
       /\ \A d \in Resumers \ {c} : resume'[d] = resume[d]
  BY <1>7, <1>8, CallTurns
<1>11. PlacesSound' /\ (\A b : Exists(b) <=> Exists(b)') /\ (\A w : There(w) <=> There(w)')
  BY <1>8, PlacesRest
<1>12. OnlyOf(c)
  BY <1>8, <1>9, <1>10, <1>11, LeasesRest DEF OnlyOf
<1>13. ContType'
  BY <1>8, <1>9, <1>10 DEF ContInv, ContType
<1>14. RecordsSound'
  BY <1>5, <1>8, <1>9, <1>11 DEF ContInv, RecordsSound, Registered
<1>15. Registered(c)'
  BY <1>6, <1>9 DEF Registered
<1>16. CallSound(c)' /\ Told(c)' /\ ~Attached(c)'
  BY <1>3, <1>6, <1>7, <1>9, <1>10, <1>15
  DEF CallSound, Told, Attached, Leased, Resuming, Free
<1>17. OwnersSound'
  <2>1. \A d \in Resumers \ {c} : Firm(d)' => Firm(d)
    BY <1>8, <1>9, <1>10 DEF Firm, There
  <2>2. \A w \in Spots : Owner(c, w)' => w = v /\ ~(Contender(c) /\ v = Home)
    BY <1>3, <1>6, <1>7, <1>9, <1>10 DEF Owner
  <2>3. v # Home => ~Firm(c)'
    BY <1>2, <1>3, <1>5, <1>6, <1>7, <1>9, <1>10 DEF Firm, ContInv, OwnersSound
  <2>4. \A d \in Resumers \ {c} :
          Owner(c, v)' /\ Owner(d, v) => v # Home /\ ~(Firm(c)' /\ Firm(d))
    BY <1>5, <2>2, <2>3 DEF Owner, Contender
  <2>5. \A d \in Resumers \ {c} : Owner(c, d)' => ~Firm(c)'
    BY <2>2, <2>3, SpotsDiffer
  <2>6. There(v)' /\ (entry'[c].claimed \/ entry'[c].shared)
    BY <1>5, <1>6, <1>9, <1>11
  <2> QED  BY <1>5, <1>11, <1>12, <1>16, <2>1, <2>2, <2>4, <2>5, <2>6, OwnersGain, ZenonT(40)
<1> QED  BY <1>11, <1>12, <1>13, <1>14, <1>16, <1>17, ContextMoves

(* A context gets a worktree of its own, on a new branch of its name. *)
LEMMA BindPlaceStep ==
  ASSUME ContInv, NEW c \in Resumers, BindPlace(c), tip[c] = Nowhere, ~There(c)
  PROVE  ContInv'
<1>1. PICK e : e = [entry[c] EXCEPT !.workspace = c]
  OBVIOUS
<1>2. PICK x : x = [branch |-> c, head |-> authority[c].head, files |-> Clean]
  OBVIOUS
<1>3. /\ entry[c] \in EntryRecord /\ c \in Spots /\ CallSound(c) /\ resume[c].at = "bind"
      /\ c # Home
  BY LeasesRest, SpotsDiffer DEF BindPlace, ContInv, CallsSound
<1>4. Registered(c) /\ entry[c].claimed /\ entry[c].workspace = Home
  BY <1>3 DEF CallSound
<1>5. authority[c] \in SnapRecord
  BY <1>4 DEF ContInv, RecordsSound
<1>6. x \in SnapRecord /\ authority[c].head \in Nat
  BY <1>2, <1>3, <1>5 DEF SnapRecord, Clean
<1>7. /\ e \in EntryRecord /\ e.state = "live" /\ e.claimed /\ e.workspace = c
  BY <1>1, <1>3, <1>4 DEF EntryRecord, Registered
<1>8. /\ UNCHANGED <<note, holder, leaving, precious, churn>>
      /\ resume' = [resume EXCEPT ![c] = NoResume] /\ entry' = [entry EXCEPT ![c] = e]
      /\ tip' = [tip EXCEPT ![c] = authority[c].head]
      /\ place' = [place EXCEPT ![c] = [branch |-> c, files |-> Clean]]
      /\ authority' = [authority EXCEPT ![c] = x]
  BY <1>1, <1>2 DEF BindPlace, Return, ContInv, ContType
<1>9. /\ entry' \in [Resumers -> EntryRecord] /\ entry'[c] = e
      /\ \A d \in Resumers \ {c} : entry'[d] = entry[d]
  BY <1>7, <1>8, EntryTurns
<1>10. /\ resume' \in [Resumers -> ResumeRecord] /\ resume'[c] = NoResume
       /\ \A d \in Resumers \ {c} : resume'[d] = resume[d]
  BY <1>8, CallTurns, InitialRecords
<1>11. /\ tip' \in [Spots -> Nat \cup {Nowhere}] /\ Exists(c)'
       /\ \A b : Exists(b) => Exists(b)'
  BY <1>3, <1>6, <1>8, SpotsDiffer DEF ContInv, ContType, Exists
<1>12. /\ place' \in [Spots -> PlaceRecord] /\ PlacesSound' /\ place'[c].branch = c
       /\ There(c)' /\ \A w \in Spots \ {c} : place'[w] = place[w]
       /\ \A w \in Spots : There(w) => There(w)'
  BY <1>8, <1>11, PlaceMade
<1>13. /\ authority' \in [Resumers -> SnapRecord \cup {Nowhere}] /\ authority'[c] = x
       /\ \A d \in Resumers \ {c} : authority'[d] = authority[d]
  BY <1>6, <1>8, LeasesRest
<1>14. OnlyOf(c)
  <2>1. \A d \in Resumers \ {c} : Leased(d) => holder'[resume[d].branch] = d
    BY <1>8, LeasesRest
  <2>2. \A d \in Resumers \ {c} : There(d)' => There(d) /\ place'[d].branch = place[d].branch
    BY <1>12, SpotsDiffer DEF There
  <2> QED  BY <1>9, <1>10, <1>11, <1>13, <2>1, <2>2 DEF OnlyOf
<1>15. ContType'
  BY <1>8, <1>9, <1>10, <1>11, <1>12, <1>13 DEF ContInv, ContType
<1>16. RecordsSound'
  BY <1>6, <1>8, <1>9, <1>11, <1>13 DEF ContInv, RecordsSound, Registered
<1>17. CallSound(c)' /\ Told(c)' /\ ~Attached(c)'
  BY <1>10, IdleCall, InitialRecords
<1>18. OwnersSound'
  <2>1. \A d \in Resumers \ {c} :
          /\ entry[d].workspace \in Spots
          /\ resume[d].at = "check" => Exists(resume[d].branch)
    BY LeasesRest DEF EntryRecord, ContInv, CallsSound, CallSound, Leased
  <2>2. ~Exists(c)
    BY DEF Exists
  <2>3. \A d \in Resumers \ {c} : Firm(d)' => Firm(d)
    BY <1>9, <1>10, <1>12, <2>1, <2>2 DEF Firm, There
  <2>4. \A w \in Spots : Owner(c, w)' => w = c
    BY <1>7, <1>9 DEF Owner
  <2>5. \A d \in Resumers \ {c} : Owner(d, c) => ~Firm(d)
    BY <1>3 DEF ContInv, OwnersSound
  <2>6. entry'[c].claimed
    BY <1>7, <1>9
  <2>7. \A d \in Resumers \ {c} : ~Owner(c, d)'
    BY <2>4, SpotsDiffer
  <2> QED  BY <1>3, <1>12, <1>14, <1>17, <2>3, <2>4, <2>5, <2>6, <2>7, OwnersGain, ZenonT(40)
<1> QED  BY <1>12, <1>14, <1>15, <1>16, <1>17, <1>18, ContextMoves

LEMMA BindRefusedStep ==
  ASSUME ContInv, NEW c \in Resumers, BindPlace(c), ~(tip[c] = Nowhere /\ ~There(c))
  PROVE  ContInv'
<1>1. PICK e : e = [entry[c] EXCEPT !.claimed = FALSE]
  OBVIOUS
<1>2. entry[c] \in EntryRecord /\ CallSound(c) /\ resume[c].at = "bind"
  BY LeasesRest DEF BindPlace, ContInv, CallsSound
<1>3. Registered(c) /\ entry[c].workspace = Home
  BY <1>2 DEF CallSound
<1>4. e \in EntryRecord /\ e.state = "live" /\ ~e.claimed /\ e.workspace = Home
  BY <1>1, <1>2, <1>3 DEF EntryRecord, Registered
<1>5. /\ UNCHANGED <<tip, place, authority, note, holder, leaving, precious, churn>>
      /\ resume' = [resume EXCEPT ![c] = NoResume] /\ entry' = [entry EXCEPT ![c] = e]
  BY <1>1 DEF BindPlace, Return, ContInv, ContType
<1>6. /\ entry' \in [Resumers -> EntryRecord] /\ entry'[c] = e
      /\ \A d \in Resumers \ {c} : entry'[d] = entry[d]
  BY <1>4, <1>5, EntryTurns
<1>7. /\ resume' \in [Resumers -> ResumeRecord] /\ resume'[c] = NoResume
      /\ \A d \in Resumers \ {c} : resume'[d] = resume[d]
  BY <1>5, CallTurns, InitialRecords
<1>8. CallSound(c)' /\ Told(c)' /\ ~Attached(c)'
  BY <1>7, IdleCall, InitialRecords
<1>9. ContType'
  BY <1>5, <1>6, <1>7 DEF ContInv, ContType
<1>10. RecordsSound'
  BY <1>3, <1>5, <1>6 DEF ContInv, RecordsSound, Registered, Exists
<1>11. entry'[c].workspace = Home /\ \A w \in Spots : ~Owner(c, w)'
  BY <1>4, <1>6 DEF Owner
<1>12. \A d \in Resumers \ {c} : Leased(d) => holder'[resume[d].branch] = d
  BY <1>5, LeasesRest
<1> QED  BY <1>5, <1>6, <1>7, <1>8, <1>9, <1>10, <1>11, <1>12, QuietMove, ZenonT(30)

(* A failed resume gives back what it took: its binding, its lease and,    *)
(* when nobody has made changes there, its worktree.                       *)
LEMMA RollBackStep ==
  ASSUME ContInv, NEW c \in Resumers, Resuming(c), holder[resume[c].branch] \in {c, Nowhere},
         RollBack(c), UNCHANGED <<tip, note, leaving, precious, churn>>,
         NEW x \in SnapRecord, authority' = [authority EXCEPT ![c] = x]
  PROVE  ContInv'
<1>1. PICK r : r = resume[c]
  OBVIOUS
<1>2. PICK e : e = IF r.taken THEN [entry[c] EXCEPT !.workspace = r.before.workspace,
                                                   !.claimed = r.before.claimed]
                             ELSE entry[c]
  OBVIOUS
<1>3. PICK q : q = [NoResume EXCEPT !.before = r.before, !.result = "failed"]
  OBVIOUS
<1>4. /\ r \in ResumeRecord /\ entry[c] \in EntryRecord /\ CallSound(c)
      /\ r.before \in [workspace : Spots, claimed : BOOLEAN]
      /\ r.at \in {"target", "claim", "check"}
  BY <1>1, LeasesRest DEF ContInv, CallsSound, ResumeRecord, Resuming
<1>5. Registered(c) /\ r.branch \in Spots
  BY <1>1, <1>4 DEF CallSound, Resuming, Exists
<1>6. /\ e \in EntryRecord /\ e.state = "live" /\ e.workspace = r.before.workspace
      /\ (e.claimed = r.before.claimed) /\ (e.shared = entry[c].shared)
  <2>1. CASE r.taken
    BY <1>2, <1>4, <1>5, <2>1 DEF EntryRecord, Registered
  <2>2. CASE ~r.taken
    BY <1>1, <1>2, <1>4, <1>5, <2>2 DEF EntryRecord, Registered, CallSound, Resuming
  <2> QED  BY <2>1, <2>2
<1>7. /\ q \in ResumeRecord /\ q.at = "idle" /\ q.before = r.before /\ q.result = "failed"
  BY <1>3, <1>4, SpotsDiffer DEF NoResume, ResumeRecord, CallSteps
<1>8. entry' = [entry EXCEPT ![c] = e]
  <2>1. CASE r.taken
    BY <1>1, <1>2, <2>1 DEF RollBack, ContInv, ContType
  <2>2. CASE ~r.taken
    BY <1>1, <1>2, <2>2 DEF RollBack, ContInv, ContType
  <2> QED  BY <2>1, <2>2
<1>9. /\ resume' = [resume EXCEPT ![c] = q] /\ FreeBranch(r.branch)
      /\ place' = IF r.created THEN Removed({r.target}) ELSE place
  BY <1>1, <1>3 DEF RollBack
<1>10. /\ entry' \in [Resumers -> EntryRecord] /\ entry'[c] = e
       /\ \A d \in Resumers \ {c} : entry'[d] = entry[d]
  BY <1>6, <1>8, EntryTurns
<1>11. /\ resume' \in [Resumers -> ResumeRecord] /\ resume'[c] = q
       /\ \A d \in Resumers \ {c} : resume'[d] = resume[d]
  BY <1>7, <1>9, CallTurns
<1>12. /\ holder' \in [Spots -> Resumers \cup {Nowhere}]
       /\ \A d \in Resumers \ {c} : Leased(d) => holder'[resume[d].branch] = d
  BY <1>1, <1>5, <1>9, LeaseFreed
<1>13. r.created => Attached(c) /\ r.target = c
  BY <1>1, <1>4 DEF CallSound, Attached
<1>14. /\ place' \in [Spots -> PlaceRecord] /\ PlacesSound' /\ PlacesHeld
       /\ \A w \in Spots \ {c} : place'[w] = place[w]
       /\ place'[c] = place[c] \/ Attached(c)
       /\ \A b : Exists(b) <=> Exists(b)'
  <2>1. CASE r.created
    BY <1>9, <1>13, <2>1, SpotsDiffer, PlacesRemoved
  <2>2. CASE ~r.created
    BY <1>9, <2>2, PlacesRest DEF ContInv, ContType, PlacesHeld
  <2> QED  BY <2>1, <2>2
<1>15. /\ authority' \in [Resumers -> SnapRecord \cup {Nowhere}] /\ authority'[c] = x
       /\ \A d \in Resumers \ {c} : authority'[d] = authority[d]
  BY LeasesRest
<1>16. OnlyOf(c)
  BY <1>10, <1>11, <1>12, <1>14, <1>15, SpotsDiffer DEF OnlyOf, PlacesHeld
<1>17. ContType'
  BY <1>10, <1>11, <1>12, <1>14, <1>15 DEF ContInv, ContType
<1>18. RecordsSound'
  BY <1>10, <1>14, <1>15 DEF ContInv, RecordsSound, Registered
<1>19. Registered(c)'
  BY <1>6, <1>10 DEF Registered
<1>20. CallSound(c)' /\ ~Attached(c)' /\ (Firm(c)' => ~entry'[c].shared)
  BY <1>7, <1>11, <1>19, IdleCall
<1>21. Told(c)'
  BY <1>6, <1>7, <1>10, <1>11 DEF Told
<1>22. OwnersSound'
  <2>1. \A d \in Resumers \ {c}, w \in Spots :
          Owner(d, w) /\ Firm(d) /\ There(w) => There(w)'
    BY <1>14 DEF ContInv, OwnersSound, There
  <2>2. r.before.workspace # Home => entry[c].shared /\ ~r.before.claimed
    BY <1>1, <1>4 DEF CallSound, Resuming
  <2>3. r.before.claimed => entry[c].claimed /\ entry[c].workspace = Home
    BY <1>1, <1>4, <2>2 DEF CallSound, Resuming
  <2>4. ASSUME NEW w \in Spots, Owner(c, w)'
        PROVE  Owner(c, w) /\ (Firm(c)' => Firm(c)) /\ (There(w) => There(w)')
    <3>1. r.before.claimed /\ w = Home
      BY <1>6, <1>10, <2>2, <2>4 DEF Owner
    <3>2. Owner(c, w)
      BY <1>1, <1>4, <1>5, <2>3, <3>1 DEF Owner
    <3>3. Firm(c)' => Firm(c)
      BY <1>6, <1>10, <1>20 DEF Firm
    <3>4. There(w) => There(w)'
      BY <1>14, <3>1 DEF PlacesSound
    <3> QED  BY <3>2, <3>3, <3>4
  <2>5. entry'[c].workspace # Home => entry'[c].shared
    BY <1>6, <1>10, <2>2
  <2> QED  BY <1>14, <1>16, <1>20, <2>1, <2>4, <2>5, OwnersKeep, ZenonT(40)
<1> QED  BY <1>14, <1>16, <1>17, <1>18, <1>20, <1>21, <1>22, ContextMoves

(* The checkpoint of a step that saves none *)
LEMMA AuthorityRest ==
  ASSUME ContInv, NEW c \in Resumers, Resuming(c), UNCHANGED authority
  PROVE  \E x \in SnapRecord : authority' = [authority EXCEPT ![c] = x]
<1>1. authority[c] \in SnapRecord
  BY DEF ContInv, CallsSound, CallSound, RecordsSound, Resuming
<1>2. authority' = [authority EXCEPT ![c] = authority[c]]
  BY LeasesRest
<1> QED  BY <1>1, <1>2

(* The call of a resume that has found its target, or attached it *)
LEMMA FoundCall ==
  ASSUME ContInv, NEW c \in Resumers, resume[c].at = "target", NEW w \in Spots,
         NEW created \in BOOLEAN,
         resume' = [resume EXCEPT ![c].at = "claim", ![c].target = w, ![c].created = created],
         holder'[resume[c].branch] = c, UNCHANGED <<entry, tip>>,
         created => w = c /\ place'[c].branch = resume[c].branch
  PROVE  \E q \in ResumeRecord :
           /\ resume' = [resume EXCEPT ![c] = q] /\ resume'[c] = q /\ q.at = "claim"
           /\ CallSound(c)' /\ Told(c)' /\ (Attached(c)' => created)
<1>1. PICK r : r = resume[c]
  OBVIOUS
<1>2. PICK q : q = [r EXCEPT !.at = "claim", !.target = w, !.created = created]
  OBVIOUS
<1>3. r \in ResumeRecord /\ r.at = "target" /\ CallSound(c)
  BY <1>1, LeasesRest DEF ContInv, CallsSound
<1>4. /\ q \in ResumeRecord /\ q.at = "claim" /\ q.target = w /\ (q.created = created)
      /\ q.scope = r.scope /\ q.saved = r.saved /\ q.branch = r.branch
      /\ (q.taken = r.taken) /\ q.before = r.before
  BY <1>2, <1>3 DEF ResumeRecord, CallSteps
<1>5. resume' = [resume EXCEPT ![c] = q]
  BY <1>1, <1>2, LeasesRest
<1>6. resume'[c] = q
  BY <1>5, LeasesRest
<1>7. Registered(c)' /\ Exists(r.branch)' /\ Registered(c)
  BY <1>1, <1>3 DEF CallSound, Resuming, Registered, Exists
<1>8. CallSound(c)'
  <2>1. /\ r.saved \in NoteRecord /\ r.saved.branch = r.branch /\ r.scope \in Scopes
        /\ r.before.workspace # Home => entry[c].shared /\ ~r.before.claimed
        /\ ~r.taken /\ entry[c].workspace = r.before.workspace
        /\ entry[c].claimed = r.before.claimed
    BY <1>1, <1>3 DEF CallSound, Resuming
  <2> QED  BY <1>1, <1>4, <1>6, <1>7, <2>1 DEF CallSound, Resuming, Leased, Attached
<1>9. Told(c)' /\ (Attached(c)' => created)
  BY <1>4, <1>6 DEF Told, Free, Attached
<1> QED  BY <1>4, <1>5, <1>6, <1>8, <1>9

LEMMA FoundStep ==
  ASSUME ContInv, NEW c \in Resumers, resume[c].at = "target", NEW w \in Spots,
         holder[resume[c].branch] = Nowhere,
         resume' = [resume EXCEPT ![c].at = "claim", ![c].target = w, ![c].created = FALSE],
         holder' = [holder EXCEPT ![resume[c].branch] = c],
         UNCHANGED <<entry, place, tip, note, authority, leaving, precious, churn>>
  PROVE  ContInv'
<1>1. resume[c].branch \in Spots
  BY DEF ContInv, CallsSound, CallSound, Resuming, Exists
<1>2. /\ holder' \in [Spots -> Resumers \cup {Nowhere}] /\ holder'[resume[c].branch] = c
      /\ \A d \in Resumers \ {c} : Leased(d) => holder'[resume[d].branch] = d
  BY <1>1, LeaseTaken
<1>3. PICK q \in ResumeRecord :
        /\ resume' = [resume EXCEPT ![c] = q] /\ q.at = "claim"
        /\ CallSound(c)' /\ Told(c)' /\ ~Attached(c)'
  BY <1>2, FoundCall
<1> QED  BY <1>2, <1>3, CallMoves, LeasesRest

LEMMA AttachStep ==
  ASSUME ContInv, NEW c \in Resumers, resume[c].at = "target",
         holder[resume[c].branch] = Nowhere, ~There(c),
         resume' = [resume EXCEPT ![c].at = "claim", ![c].target = c, ![c].created = TRUE],
         holder' = [holder EXCEPT ![resume[c].branch] = c],
         place' = [place EXCEPT ![c] = [branch |-> resume[c].branch, files |-> Clean]],
         UNCHANGED <<entry, tip, note, authority, leaving, precious, churn>>
  PROVE  ContInv'
<1>1. PICK b : b = resume[c].branch
  OBVIOUS
<1>2. Exists(b) /\ b \in Spots /\ c \in Spots
  BY <1>1, SpotsDiffer DEF ContInv, CallsSound, CallSound, Resuming, Exists
<1>3. /\ holder' \in [Spots -> Resumers \cup {Nowhere}] /\ holder'[b] = c
      /\ \A d \in Resumers \ {c} : Leased(d) => holder'[resume[d].branch] = d
  BY <1>1, <1>2, LeaseTaken
<1>4. (\A x : Exists(x) => Exists(x)') /\ Exists(b)'
  BY <1>2 DEF Exists
<1>5. /\ place' \in [Spots -> PlaceRecord] /\ PlacesSound' /\ place'[c].branch = b
      /\ There(c)' /\ \A w \in Spots \ {c} : place'[w] = place[w]
      /\ \A w \in Spots : There(w) => There(w)'
  BY <1>1, <1>4, PlaceMade
<1>6. PICK q \in ResumeRecord :
        /\ resume' = [resume EXCEPT ![c] = q] /\ resume'[c] = q /\ q.at = "claim"
        /\ CallSound(c)' /\ Told(c)'
  BY <1>1, <1>2, <1>3, <1>5, FoundCall
<1>7. /\ resume' \in [Resumers -> ResumeRecord]
      /\ \A d \in Resumers \ {c} : resume'[d] = resume[d]
  BY <1>6, CallTurns
<1>8. OnlyOf(c)
  <2>1. \A d \in Resumers \ {c} : There(d)' => There(d) /\ place'[d].branch = place[d].branch
    BY <1>5, SpotsDiffer DEF There
  <2> QED  BY <1>3, <1>4, <1>7, <2>1 DEF OnlyOf
<1>9. ContType'
  BY <1>3, <1>5, <1>7 DEF ContInv, ContType
<1>10. RecordsSound'
  BY <1>4 DEF ContInv, RecordsSound, Registered
<1>11. OwnersSound'
  <2>1. PICK v \in Spots : v = entry[c].workspace
    BY LeasesRest DEF EntryRecord
  <2>2. \A d \in Resumers \ {c} :
          /\ entry[d].workspace \in Spots
          /\ resume[d].at = "check" => resume[d].branch # b
    BY <1>1, LeasesRest, SpotsDiffer DEF EntryRecord, Leased
  <2>3. \A d \in Resumers \ {c} : Firm(d)' => Firm(d)
    BY <1>5, <1>7, <2>2 DEF Firm, There
  <2>4. Firm(c)' => Firm(c)
    BY <1>6 DEF Firm
  <2>5. \A w \in Spots : (Owner(c, w)' <=> Owner(c, w)) /\ (Owner(c, w) => w = v)
    BY <1>6, <2>1 DEF Owner, Registered
  <2>6. OwnersSound /\ \A d \in Resumers : d \in Spots
    BY SpotsDiffer DEF ContInv
  <2>7. \A d \in Resumers \ {c} :
          Owner(c, v)' /\ Owner(d, v) => v # Home /\ ~(Firm(c)' /\ Firm(d))
    BY <2>4, <2>5, <2>6 DEF OwnersSound
  <2>8. Owner(c, v)' /\ Firm(c)' => There(v)'
    BY <1>5, <2>4, <2>5, <2>6 DEF OwnersSound
  <2>9. Registered(c)' /\ entry'[c].workspace # Home => entry'[c].claimed \/ entry'[c].shared
    BY <2>6 DEF OwnersSound, Registered
  <2>10. \A d \in Resumers \ {c} : Attached(d) /\ Owner(c, d)' => ~Firm(c)'
    BY <2>4, <2>5, <2>6 DEF OwnersSound
  <2>11. \A d \in Resumers \ {c} : Owner(d, c) => ~Firm(d)
    BY <1>2, <2>6 DEF OwnersSound
  <2> QED  BY <1>5, <1>8, <2>3, <2>5, <2>7, <2>8, <2>9, <2>10, <2>11, OwnersGain, ZenonT(40)
<1> QED  BY <1>5, <1>6, <1>8, <1>9, <1>10, <1>11, ContextMoves

LEMMA FindTargetStep ==
  ASSUME ContInv, NEW c \in Resumers, FindTarget(c)
  PROVE  ContInv'
<1>1. resume[c].at = "target" /\ CallSound(c) /\ Resuming(c)
  BY DEF FindTarget, ContInv, CallsSound, Resuming
<1>2. /\ resume[c].saved.branch = resume[c].branch
      /\ holder[resume[c].branch] = Nowhere
  BY <1>1 DEF CallSound, FindTarget
<1>3. UNCHANGED <<tip, note, authority, leaving, precious, churn>>
  BY DEF FindTarget
<1>4. ASSUME NEW w \in Target(resume[c].saved), UNCHANGED <<entry, place>>,
             resume' = [resume EXCEPT ![c].at = "claim", ![c].target = w, ![c].created = FALSE],
             holder' = [holder EXCEPT ![resume[c].branch] = c]
      PROVE  ContInv'
  <2>1. w \in Spots
    BY SpotsDiffer DEF Target, Managed
  <2> QED  BY <1>1, <1>2, <1>3, <1>4, <2>1, FoundStep
<1>5. ASSUME CanAttach(c, resume[c].saved), UNCHANGED entry,
             resume' = [resume EXCEPT ![c].at = "claim", ![c].target = c, ![c].created = TRUE],
             holder' = [holder EXCEPT ![resume[c].branch] = c],
             place' = [place EXCEPT ![c] = [branch |-> resume[c].branch, files |-> Clean]]
      PROVE  ContInv'
  <2>1. ~There(c)
    BY <1>5 DEF CanAttach
  <2> QED  BY <1>1, <1>2, <1>3, <1>5, <2>1, AttachStep
<1>6. CASE RollBack(c)
  BY <1>1, <1>2, <1>3, <1>6, RollBackStep, AuthorityRest
<1> QED  BY <1>2, <1>4, <1>5, <1>6 DEF FindTarget

(* A resume takes the workspace that it has validated. *)
LEMMA TakeStep ==
  ASSUME ContInv, NEW c \in Resumers, ClaimTarget(c),
         Valid(resume[c].saved, resume[c].target), Claimable(c, resume[c].target)
  PROVE  ContInv'
<1>1. PICK r : r = resume[c]
  OBVIOUS
<1>2. PICK v : v = r.target
  OBVIOUS
<1>3. PICK e : e = [entry[c] EXCEPT !.workspace = v, !.claimed = TRUE]
  OBVIOUS
<1>4. PICK q : q = [r EXCEPT !.at = "check", !.taken = TRUE]
  OBVIOUS
<1>5. r \in ResumeRecord /\ r.at = "claim" /\ CallSound(c) /\ entry[c] \in EntryRecord
  BY <1>1, LeasesRest DEF ContInv, CallsSound, ClaimTarget
<1>6. /\ Registered(c) /\ v \in Spots /\ holder[r.branch] = c /\ Exists(r.branch)
      /\ r.scope \in Scopes /\ r.saved \in NoteRecord /\ r.saved.branch = r.branch
      /\ r.before.workspace # Home => entry[c].shared /\ ~r.before.claimed
      /\ entry[c].workspace = r.before.workspace /\ (entry[c].claimed = r.before.claimed)
  BY <1>1, <1>2, <1>5 DEF CallSound, Resuming, Leased
<1>7. /\ There(v) /\ place[v].branch = r.branch
      /\ entry[c].claimed => entry[c].workspace = v
      /\ \A d \in Resumers \ {c} : ~Owner(d, v)
  BY <1>1, <1>2, <1>6 DEF Valid, Claimable, Owner
<1>8. /\ e \in EntryRecord /\ e.state = "live" /\ e.workspace = v /\ e.claimed
      /\ (e.shared = entry[c].shared)
  BY <1>3, <1>5, <1>6 DEF EntryRecord, Registered
<1>9. /\ q \in ResumeRecord /\ q.at = "check" /\ q.taken /\ q.target = v
      /\ q.scope = r.scope /\ q.saved = r.saved /\ q.branch = r.branch
      /\ (q.created = r.created) /\ q.before = r.before
  BY <1>2, <1>4, <1>5 DEF ResumeRecord, CallSteps
<1>10. /\ UNCHANGED <<place, holder, tip, note, authority, leaving, precious, churn>>
       /\ entry' = [entry EXCEPT ![c] = e] /\ resume' = [resume EXCEPT ![c] = q]
  BY <1>1, <1>2, <1>3, <1>4 DEF ClaimTarget, ContInv, ContType
<1>11. /\ entry' \in [Resumers -> EntryRecord] /\ entry'[c] = e
       /\ \A d \in Resumers \ {c} : entry'[d] = entry[d]
  BY <1>8, <1>10, EntryTurns
<1>12. /\ resume' \in [Resumers -> ResumeRecord] /\ resume'[c] = q
       /\ \A d \in Resumers \ {c} : resume'[d] = resume[d]
  BY <1>9, <1>10, CallTurns
<1>13. PlacesSound' /\ (\A b : Exists(b) <=> Exists(b)') /\ (\A w : There(w) <=> There(w)')
  BY <1>10, PlacesRest
<1>14. OnlyOf(c)
  BY <1>10, <1>11, <1>12, <1>13, LeasesRest DEF OnlyOf
<1>15. ContType'
  BY <1>10, <1>11, <1>12 DEF ContInv, ContType
<1>16. RecordsSound'
  BY <1>6, <1>10, <1>11, <1>13 DEF ContInv, RecordsSound, Registered
<1>17. Registered(c)' /\ Exists(r.branch)'
  BY <1>6, <1>8, <1>11, <1>13 DEF Registered
<1>18. Attached(c)' => Attached(c)
  BY <1>1, <1>5, <1>9, <1>12 DEF Attached
<1>19. CallSound(c)'
  <2>1. /\ r.created => v = c /\ (There(c) => place[c].branch = r.branch)
        /\ r.before.claimed => v = Home
    BY <1>1, <1>2, <1>5, <1>6, <1>7 DEF CallSound, Attached
  <2> QED  BY <1>6, <1>8, <1>9, <1>10, <1>11, <1>12, <1>13, <1>17, <2>1
           DEF CallSound, Resuming, Leased, Attached
<1>20. Told(c)'
  BY <1>9, <1>12 DEF Told, Free
<1>21. OwnersSound'
  <2>1. \A d \in Resumers \ {c} : Firm(d)' => Firm(d)
    BY <1>10, <1>11, <1>12 DEF Firm, There
  <2>2. \A w \in Spots : Owner(c, w)' => w = v
    BY <1>8, <1>11 DEF Owner
  <2>3. \A d \in Resumers \ {c} : Attached(d) /\ Owner(c, d)' => ~Firm(c)'
    <3> SUFFICES ASSUME NEW d \in Resumers \ {c}, Attached(d), v = d PROVE FALSE
      BY <2>2, SpotsDiffer
    <3>1. resume[d].branch = r.branch
      BY <1>7 DEF ContInv, CallsSound, CallSound
    <3>2. holder[resume[d].branch] = d
      BY LeasesRest DEF Attached, Leased
    <3> QED  BY <1>6, <3>1, <3>2
  <2>4. \A d \in Resumers \ {c} : Attached(c)' /\ Owner(d, c) => ~Firm(d)
    BY <1>18 DEF ContInv, OwnersSound
  <2>5. entry'[c].claimed /\ There(v)'
    BY <1>7, <1>8, <1>11, <1>13
  <2> QED  BY <1>6, <1>7, <1>13, <1>14, <2>1, <2>2, <2>3, <2>4, <2>5, OwnersGain, ZenonT(40)
<1> QED  BY <1>13, <1>14, <1>15, <1>16, <1>19, <1>20, <1>21, ContextMoves

LEMMA ClaimTargetStep ==
  ASSUME ContInv, NEW c \in Resumers, ClaimTarget(c)
  PROVE  ContInv'
<1>1. CASE Valid(resume[c].saved, resume[c].target) /\ Claimable(c, resume[c].target)
  BY <1>1, TakeStep
<1>2. CASE ~(Valid(resume[c].saved, resume[c].target) /\ Claimable(c, resume[c].target))
  <2>1. RollBack(c) /\ UNCHANGED <<tip, note, authority, leaving, precious, churn>>
    BY <1>2 DEF ClaimTarget
  <2>2. Resuming(c) /\ holder[resume[c].branch] = c
    BY DEF ClaimTarget, Resuming, ContInv, CallsSound, CallSound, Leased
  <2> QED  BY <2>1, <2>2, RollBackStep, AuthorityRest
<1> QED  BY <1>1, <1>2

(* The state of a target that is still as it was saved *)
LEMMA StillThere ==
  ASSUME ContInv, NEW c \in Resumers, resume[c].at = "check", StillSaved(c)
  PROVE  /\ resume[c].target \in Spots /\ There(resume[c].target)
         /\ place[resume[c].target].branch = resume[c].branch
         /\ SnapshotOf(resume[c].target) \in SnapRecord
         /\ SnapshotOf(resume[c].target) = resume[c].saved.print
         /\ resume[c].saved.branch = resume[c].saved.print.branch
         /\ holder[resume[c].branch] = c /\ Resuming(c)
<1>1. /\ resume[c].target \in Spots /\ resume[c].saved.branch = resume[c].branch
      /\ holder[resume[c].branch] = c /\ Resuming(c)
  BY DEF ContInv, CallsSound, CallSound, Leased, Resuming
<1>2. /\ There(resume[c].target) /\ place[resume[c].target].branch = resume[c].branch
      /\ SnapshotOf(resume[c].target) = resume[c].saved.print
  BY <1>1 DEF StillSaved, Valid
<1> QED  BY <1>1, <1>2, SnapshotThere

LEMMA RejectStep ==
  ASSUME ContInv, NEW c \in Resumers, Reject(c) \/ RenewFails(c)
  PROVE  ContInv'
<1>1. /\ RollBack(c) /\ UNCHANGED <<tip, note, leaving, precious, churn>>
      /\ resume[c].at = "check"
  BY DEF Reject, RenewFails
<1>2. Resuming(c) /\ holder[resume[c].branch] = c
  BY <1>1 DEF Resuming, ContInv, CallsSound, CallSound, Leased
<1>3. CASE Reject(c)
  BY <1>1, <1>2, <1>3, RollBackStep, AuthorityRest DEF Reject
<1>4. CASE RenewFails(c)
  <2>1. StillSaved(c) /\ authority' = [authority EXCEPT ![c] = SnapshotOf(resume[c].target)]
    BY <1>4 DEF RenewFails
  <2>2. SnapshotOf(resume[c].target) \in SnapRecord
    BY <1>1, <2>1, StillThere
  <2> QED  BY <1>1, <1>2, <2>1, <2>2, RollBackStep
<1> QED  BY <1>3, <1>4

LEMMA AcceptStep ==
  ASSUME ContInv, NEW c \in Resumers, Accept(c)
  PROVE  ContInv'
<1>1. PICK r : r = resume[c]
  OBVIOUS
<1>2. PICK e : e = [entry[c] EXCEPT !.shared = FALSE]
  OBVIOUS
<1>3. PICK q : q = [NoResume EXCEPT !.saved = r.saved, !.target = r.target,
                                     !.result = "resumed"]
  OBVIOUS
<1>4. PICK x : x = SnapshotOf(r.target)
  OBVIOUS
<1>5. PICK n : n = NoteOf(r.branch, x, r.target)
  OBVIOUS
<1>6. r \in ResumeRecord /\ r.at = "check" /\ CallSound(c) /\ entry[c] \in EntryRecord
  BY <1>1, LeasesRest DEF ContInv, CallsSound, Accept
<1>7. /\ r.target \in Spots /\ There(r.target) /\ place[r.target].branch = r.branch
      /\ x \in SnapRecord /\ x = r.saved.print /\ r.saved.branch = r.saved.print.branch
      /\ holder[r.branch] = c
  BY <1>1, <1>4, <1>6, StillThere DEF Accept
<1>8. /\ Registered(c) /\ Exists(r.branch) /\ r.branch \in Spots /\ r.scope \in Scopes
      /\ r.saved \in NoteRecord /\ entry[c].claimed /\ entry[c].workspace = r.target
  BY <1>1, <1>6 DEF CallSound, Resuming, Leased, Exists
<1>9. /\ e \in EntryRecord /\ e.state = "live" /\ e.workspace = r.target /\ e.claimed
  BY <1>2, <1>6, <1>8 DEF EntryRecord, Registered
<1>10. /\ q \in ResumeRecord /\ q.at = "idle" /\ q.saved = r.saved /\ q.target = r.target
       /\ q.result = "resumed"
  BY <1>3, <1>7, <1>8, SpotsDiffer DEF NoResume, ResumeRecord, CallSteps
<1>11. n \in NoteRecord /\ n.branch = r.branch
  BY <1>5, <1>7, <1>8, NoteThere
<1>12. /\ UNCHANGED <<place, tip, leaving, precious, churn>> /\ FreeBranch(r.branch)
       /\ entry' = [entry EXCEPT ![c] = e] /\ resume' = [resume EXCEPT ![c] = q]
       /\ authority' = [authority EXCEPT ![c] = x] /\ note' = [note EXCEPT ![r.scope] = n]
  BY <1>1, <1>2, <1>3, <1>4, <1>5 DEF Accept, Renewed, ContInv, ContType
<1>13. /\ entry' \in [Resumers -> EntryRecord] /\ entry'[c] = e
       /\ \A d \in Resumers \ {c} : entry'[d] = entry[d]
  BY <1>9, <1>12, EntryTurns
<1>14. /\ resume' \in [Resumers -> ResumeRecord] /\ resume'[c] = q
       /\ \A d \in Resumers \ {c} : resume'[d] = resume[d]
  BY <1>10, <1>12, CallTurns
<1>15. /\ holder' \in [Spots -> Resumers \cup {Nowhere}]
       /\ \A d \in Resumers \ {c} : Leased(d) => holder'[resume[d].branch] = d
  BY <1>7, <1>8, <1>12, LeaseFreed
<1>16. /\ authority' \in [Resumers -> SnapRecord \cup {Nowhere}] /\ authority'[c] = x
       /\ \A d \in Resumers \ {c} : authority'[d] = authority[d]
  BY <1>7, <1>12, LeasesRest
<1>17. /\ note' \in [Scopes -> NoteRecord \cup {Nowhere}]
       /\ \A s \in Scopes : note'[s] # Nowhere => Exists(note'[s].branch)
  BY <1>8, <1>11, <1>12, LeasesRest
<1>18. ContType'
  BY <1>12, <1>13, <1>14, <1>15, <1>16, <1>17 DEF ContInv, ContType
<1>19. \A b : Exists(b) <=> Exists(b)'
  BY <1>12 DEF Exists
<1>20. RecordsSound'
  BY <1>7, <1>13, <1>16, <1>17, <1>19 DEF ContInv, RecordsSound, Registered
<1>21. Registered(c)'
  BY <1>9, <1>13 DEF Registered
<1>22. CallSound(c)' /\ ~Attached(c)'
  BY <1>10, <1>14, <1>21, IdleCall
<1>23. Told(c)'
  BY <1>7, <1>9, <1>10, <1>13, <1>14, <1>16 DEF Told
<1>24. \A w \in Spots : Owner(c, w)' => Owner(c, w)
  BY <1>1, <1>6, <1>8, <1>9, <1>13 DEF Owner
<1>25. Firm(c) /\ entry'[c].claimed
  BY <1>1, <1>6, <1>7, <1>8, <1>9, <1>13 DEF Firm
<1> QED  BY <1>12, <1>13, <1>14, <1>15, <1>16, <1>18, <1>20, <1>22, <1>23, <1>24, <1>25,
            QuietMove, ZenonT(40)

(* The contents of a workspace change, and the branch it is on may. *)
LEMMA PlaceChanged ==
  ASSUME ContInv, NEW w \in Spots, There(w), NEW files \in Nat, NEW committing \in BOOLEAN,
         Changes(w, files, committing)
  PROVE  /\ place' \in [Spots -> PlaceRecord] /\ tip' \in [Spots -> Nat \cup {Nowhere}]
         /\ precious' \in [Spots -> Nat] /\ churn' \in Nat /\ PlacesSound' /\ PlacesHeld
         /\ \A v \in Spots : There(v) <=> There(v)'
         /\ \A b : Exists(b) => Exists(b)'
<1>1. /\ place \in [Spots -> PlaceRecord] /\ tip \in [Spots -> Nat \cup {Nowhere}]
      /\ precious \in [Spots -> Nat] /\ churn \in Nat /\ PlacesSound
  BY DEF ContInv, ContType
<1>2. PICK b : b = place[w].branch
  OBVIOUS
<1>3. Exists(b) /\ b \in Spots
  BY <1>2, SnapshotThere DEF Exists
<1>4. PICK p : p = [place[w] EXCEPT !.files = files]
  OBVIOUS
<1>5. p \in PlaceRecord /\ p.branch = b /\ p.files = files
  BY <1>1, <1>2, <1>4 DEF PlaceRecord
<1>6. /\ place' = [place EXCEPT ![w] = p] /\ precious' = [precious EXCEPT ![w] = files]
      /\ tip' = tip \/ tip' = [tip EXCEPT ![b] = churn + 1]
      /\ churn' = churn + 1
  BY <1>1, <1>2, <1>4 DEF Changes
<1>7. /\ place' \in [Spots -> PlaceRecord] /\ place'[w] = p
      /\ \A v \in Spots \ {w} : place'[v] = place[v] /\ precious'[v] = precious[v]
      /\ precious' \in [Spots -> Nat] /\ precious'[w] = files /\ churn' \in Nat
  BY <1>1, <1>5, <1>6
<1>8. tip' \in [Spots -> Nat \cup {Nowhere}] /\ \A x : Exists(x) => Exists(x)'
  BY <1>1, <1>3, <1>6, SpotsDiffer DEF Exists
<1>9. \A v \in Spots :
        (There(v) <=> There(v)') /\ place'[v].branch = place[v].branch
  BY <1>2, <1>5, <1>7 DEF There
<1>10. There(Home)' /\ PlacesHeld
  BY <1>1, <1>9, SpotsDiffer DEF PlacesSound, PlacesHeld
<1>11. ASSUME NEW v \in Spots
       PROVE  IF There(v)' THEN Exists(place[v].branch)' ELSE place'[v].files = Clean
  BY <1>1, <1>3, <1>5, <1>7, <1>8, <1>9 DEF PlacesSound
<1>12. WorktreesKept'
  BY <1>1, <1>5, <1>7 DEF PlacesSound, WorktreesKept
<1>13. PlacesSound'
  BY <1>10, <1>11, <1>12 DEF PlacesSound
<1> QED  BY <1>7, <1>8, <1>9, <1>10, <1>13

LEMMA MutatePlaceStep ==
  ASSUME ContInv, NEW c \in Resumers, NEW committing \in BOOLEAN, MutatePlace(c, committing)
  PROVE  ContInv'
<1>1. PICK w : w = entry[c].workspace
  OBVIOUS
<1>2. PICK files : files = IF committing THEN Clean ELSE churn + 1
  OBVIOUS
<1>3. w \in Spots /\ There(w) /\ Registered(c) /\ resume[c].at = "idle" /\ files \in Nat
  BY <1>1, <1>2, LeasesRest DEF MutatePlace, Free, EntryRecord, ContInv, ContType, Clean
<1>4. PICK x : x = [branch |-> place[w].branch, head |-> tip'[place[w].branch],
                    files |-> place'[w].files]
  OBVIOUS
<1>5. /\ Changes(w, files, committing) /\ UNCHANGED <<entry, note, holder, leaving>>
      /\ resume' = [resume EXCEPT ![c] = NoResume]
      /\ authority' = [authority EXCEPT ![c] = x]
  BY <1>1, <1>2, <1>4 DEF MutatePlace, Return
<1>6. /\ place' \in [Spots -> PlaceRecord] /\ tip' \in [Spots -> Nat \cup {Nowhere}]
      /\ precious' \in [Spots -> Nat] /\ churn' \in Nat /\ PlacesSound' /\ PlacesHeld
      /\ \A v \in Spots : There(v) <=> There(v)'
      /\ \A b : Exists(b) => Exists(b)'
  BY <1>3, <1>5, PlaceChanged
<1>7. x \in SnapRecord
  <2>1. Exists(place[w].branch)
    BY <1>3, SnapshotThere
  <2>2. place[w].branch \in Spots /\ tip'[place[w].branch] \in Nat /\ place'[w].files \in Nat
    BY <1>3, <1>6, <2>1 DEF Exists, PlaceRecord
  <2> QED  BY <1>4, <2>2 DEF SnapRecord
<1>8. /\ resume' \in [Resumers -> ResumeRecord] /\ resume'[c] = NoResume
      /\ \A d \in Resumers \ {c} : resume'[d] = resume[d]
  BY <1>5, CallTurns, InitialRecords
<1>9. /\ authority' \in [Resumers -> SnapRecord \cup {Nowhere}] /\ authority'[c] = x
      /\ \A d \in Resumers \ {c} : authority'[d] = authority[d]
  BY <1>5, <1>7, LeasesRest
<1>10. CallSound(c)' /\ Told(c)' /\ ~Attached(c)' /\ (Firm(c)' => ~entry'[c].shared)
  BY <1>8, IdleCall, InitialRecords
<1>11. OnlyOf(c)
  BY <1>5, <1>6, <1>8, <1>9, LeasesRest, SpotsDiffer DEF OnlyOf, PlacesHeld
<1>12. ContType'
  BY <1>5, <1>6, <1>8, <1>9 DEF ContInv, ContType
<1>13. RecordsSound'
  BY <1>5, <1>6, <1>7, <1>9 DEF ContInv, RecordsSound, Registered
<1>14. OwnersSound'
  <2>1. \A v \in Spots : Owner(c, v)' => Owner(c, v) /\ (Firm(c)' => Firm(c))
    BY <1>3, <1>5, <1>10 DEF Owner, Firm, Registered
  <2>2. Registered(c)' /\ entry'[c].workspace # Home => entry'[c].claimed \/ entry'[c].shared
    BY <1>5 DEF ContInv, OwnersSound, Registered
  <2> QED  BY <1>6, <1>10, <1>11, <2>1, <2>2, OwnersKeep, ZenonT(40)
<1> QED  BY <1>6, <1>10, <1>11, <1>12, <1>13, <1>14, ContextMoves

(* Steps outside the server *)
LEMMA WorldMoves ==
  ASSUME ContInv, UNCHANGED <<entry, note, authority, holder, resume, leaving>>,
         place' \in [Spots -> PlaceRecord], tip' \in [Spots -> Nat \cup {Nowhere}],
         precious' \in [Spots -> Nat], churn' \in Nat, PlacesSound',
         \A v \in Spots : There(v) <=> There(v)', \A b : Exists(b) => Exists(b)',
         \A v \in Spots \ {Home} : There(v) => place'[v].branch = place[v].branch
  PROVE  ContInv'
<1>1. OnlyOf(Nowhere)
  BY LeasesRest, SpotsDiffer DEF OnlyOf
<1>2. \A d \in Resumers : CallSound(d)' /\ Told(d)'
  BY <1>1, OthersCalls, SpotsDiffer
<1>3. ContType'
  BY DEF ContInv, ContType
<1>4. RecordsSound'
  BY DEF ContInv, RecordsSound, Registered
<1>5. OwnersSound'
  <2>1. \A d \in Resumers, w \in Spots : Owner(d, w)' => Owner(d, w)
    BY DEF Owner, Registered
  <2>2. \A d \in Resumers, w \in Spots : Owner(d, w)' /\ Firm(d)' => Firm(d) \/ w = Home
    BY DEF Owner, Firm
  <2>3. \A d \in Resumers : Registered(d)' /\ entry'[d].workspace # Home =>
          entry'[d].claimed \/ entry'[d].shared
    BY DEF ContInv, OwnersSound, Registered
  <2>4. \A d \in Resumers : Attached(d)' => Attached(d)
    BY DEF Attached
  <2> QED  BY <2>1, <2>2, <2>3, <2>4, OwnersRest
<1> QED  BY <1>2, <1>3, <1>4, <1>5 DEF ContInv, CallsSound

LEMMA EditPlaceStep ==
  ASSUME ContInv, NEW w \in Spots, EditPlace(w) \/ CommitPlace(w)
  PROVE  ContInv'
<1>1. /\ There(w) /\ UNCHANGED <<entry, note, authority, holder, resume, leaving>>
      /\ \E files \in Nat, committing \in BOOLEAN : Changes(w, files, committing)
  <2>1. churn + 1 \in Nat /\ Clean \in Nat
    BY DEF Clean, ContInv, ContType
  <2>2. CASE EditPlace(w)
    <3>1. PICK files \in {Clean, churn + 1} : Changes(w, files, FALSE)
      BY <2>2 DEF EditPlace
    <3>2. files \in Nat /\ FALSE \in BOOLEAN
      BY <2>1
    <3> QED  BY <2>2, <3>1, <3>2, Zenon DEF EditPlace
  <2>3. CASE CommitPlace(w)
    BY <2>1, <2>3, Zenon DEF CommitPlace
  <2> QED  BY <2>2, <2>3
<1>2. /\ place' \in [Spots -> PlaceRecord] /\ tip' \in [Spots -> Nat \cup {Nowhere}]
      /\ precious' \in [Spots -> Nat] /\ churn' \in Nat /\ PlacesSound' /\ PlacesHeld
      /\ \A v \in Spots : There(v) <=> There(v)'
      /\ \A b : Exists(b) => Exists(b)'
  BY <1>1, PlaceChanged
<1>3. \A v \in Spots \ {Home} : There(v) => place'[v].branch = place[v].branch
  BY <1>2 DEF PlacesHeld
<1> QED  BY <1>1, <1>2, <1>3, WorldMoves

LEMMA SwitchHomeStep ==
  ASSUME ContInv, NEW b \in Spots, SwitchHome(b)
  PROVE  ContInv'
<1>1. PICK p : p = [place[Home] EXCEPT !.branch = b]
  OBVIOUS
<1>2. place \in [Spots -> PlaceRecord] /\ PlacesSound /\ Home \in Spots /\ b # Nowhere
  BY SpotsDiffer DEF ContInv, ContType
<1>3. p \in PlaceRecord /\ p.branch = b /\ p.files = place[Home].files
  BY <1>1, <1>2 DEF PlaceRecord
<1>4. /\ UNCHANGED <<entry, tip, note, authority, holder, resume, leaving, precious, churn>>
      /\ place' = [place EXCEPT ![Home] = p] /\ Exists(b)
  BY <1>1, <1>2 DEF SwitchHome, Exists
<1>5. /\ place' \in [Spots -> PlaceRecord] /\ place'[Home] = p
      /\ \A v \in Spots \ {Home} : place'[v] = place[v]
  BY <1>2, <1>3, <1>4
<1>6. (\A x : Exists(x) <=> Exists(x)') /\ There(Home)'
  BY <1>2, <1>3, <1>4, <1>5 DEF Exists, There
<1>7. \A v \in Spots : There(v) <=> There(v)'
  BY <1>2, <1>5, <1>6 DEF There, PlacesSound
<1>8. ASSUME NEW v \in Spots
      PROVE  IF There(v)' THEN Exists(place[v].branch)' ELSE place'[v].files = Clean
  BY <1>2, <1>3, <1>4, <1>5, <1>6, <1>7 DEF PlacesSound
<1>9. WorktreesKept'
  BY <1>2, <1>3, <1>4, <1>5 DEF PlacesSound, WorktreesKept
<1>10. PlacesSound'
  BY <1>6, <1>8, <1>9 DEF PlacesSound
<1>11. tip \in [Spots -> Nat \cup {Nowhere}] /\ precious \in [Spots -> Nat] /\ churn \in Nat
  BY DEF ContInv, ContType
<1> QED  BY <1>4, <1>5, <1>6, <1>7, <1>10, <1>11, WorldMoves

(* The late cleanup: it may take a worktree from under who has it now, and *)
(* then that context no longer counts as its only owner.                   *)
LEMMA CleanUpStep ==
  ASSUME ContInv, NEW w \in Spots, CleanUp(w)
  PROVE  ContInv'
<1>1. /\ w \in Resumers /\ w # Home /\ leaving' \subseteq Resumers
      /\ UNCHANGED <<tip, note, authority, holder, resume, precious, churn>>
      /\ place' = Removed({w})
  BY SpotsDiffer DEF CleanUp, ContInv, ContType
<1>2. /\ place' \in [Spots -> PlaceRecord] /\ PlacesSound' /\ PlacesHeld
      /\ \A v \in Spots \ {w} : place'[v] = place[v]
      /\ \A b : Exists(b) <=> Exists(b)'
  BY <1>1, PlacesRemoved
<1>3. place[w].files = Clean \/ place'[w] = place[w]
  BY <1>1 DEF Removed
<1>4. ASSUME NEW d \in Resumers
      PROVE  /\ entry'[d] \in EntryRecord /\ entry'[d].state = entry[d].state
             /\ entry'[d].workspace = entry[d].workspace
             /\ (entry'[d].claimed = entry[d].claimed)
             /\ entry[d].shared => entry'[d].shared
             /\ Registered(d) /\ entry[d].workspace = w /\ place[w].files = Clean
                => entry'[d].shared
  <2>1. PICK e : e = [entry[d] EXCEPT !.shared = TRUE]
    OBVIOUS
  <2>2. entry[d] \in EntryRecord
    BY LeasesRest
  <2>3. /\ e \in EntryRecord /\ e.state = entry[d].state /\ e.workspace = entry[d].workspace
        /\ (e.claimed = entry[d].claimed) /\ e.shared
    BY <2>1, <2>2 DEF EntryRecord
  <2>4. entry'[d] = IF Registered(d) /\ entry[d].workspace = w /\ place[w].files = Clean
                    THEN e ELSE entry[d]
    BY <2>1 DEF CleanUp
  <2> QED  BY <2>2, <2>3, <2>4
<1>5. entry' \in [Resumers -> EntryRecord]
  BY <1>4 DEF CleanUp
<1>6. \A d \in Resumers :
        /\ Registered(d)' <=> Registered(d)
        /\ Leased(d)' <=> Leased(d)
        /\ Resuming(d)' <=> Resuming(d)
        /\ Attached(d)' <=> Attached(d)
  BY <1>1, <1>4 DEF Registered, Leased, Resuming, Attached
<1>7. ContType'
  BY <1>1, <1>2, <1>5 DEF ContInv, ContType
<1>8. RecordsSound'
  BY <1>1, <1>2, <1>6 DEF ContInv, RecordsSound
<1>9. ASSUME NEW d \in Resumers PROVE CallSound(d)' /\ Told(d)'
  <2>1. CallSound(d) /\ Told(d)
    BY DEF ContInv, CallsSound
  <2>2. There(d)' => There(d) /\ place'[d].branch = place[d].branch
    BY <1>2, SpotsDiffer DEF PlacesHeld
  <2>3. CallSound(d)'
    BY <1>1, <1>2, <1>4, <1>6, <2>1, <2>2 DEF CallSound
  <2>4. Told(d)'
    BY <1>1, <1>4, <1>6, <2>1 DEF Told, Free
  <2> QED  BY <2>3, <2>4
<1>10. OwnersSound'
  <2>1. \A d \in Resumers, v \in Spots : Owner(d, v)' => Owner(d, v)
    BY <1>1, <1>4, <1>6 DEF Owner
  <2>2. \A d \in Resumers, v \in Spots : Owner(d, v)' /\ Firm(d)' => Firm(d) \/ v = Home
    <3>1. \A d \in Resumers : entry[d].workspace \in Spots
      BY LeasesRest DEF EntryRecord
    <3>2. ASSUME NEW d \in Resumers, Firm(d)' PROVE Firm(d)
      <4>1. entry'[d].workspace = entry[d].workspace /\ (~entry'[d].shared => ~entry[d].shared)
            /\ resume'[d] = resume[d]
        BY <1>1, <1>4
      <4>2. There(entry[d].workspace)' =>
              /\ There(entry[d].workspace)
              /\ place'[entry[d].workspace].branch = place[entry[d].workspace].branch
        BY <1>2, <3>1, <4>1 DEF PlacesHeld, There
      <4> QED  BY <3>2, <4>1, <4>2 DEF Firm
    <3> QED  BY <3>2
  <2>3. ASSUME NEW d \in Resumers, NEW v \in Spots, Owner(d, v)', Firm(d)', There(v)
        PROVE  There(v)'
    <3>1. CASE v # w
      BY <1>2, <2>3, <3>1 DEF There
    <3>2. CASE v = w /\ place[w].files = Clean
      <4>1. entry'[d].shared /\ entry'[d].workspace = w
        BY <1>4, <2>1, <2>3, <3>2 DEF Owner
      <4> QED  BY <2>3, <3>2, <4>1 DEF Firm
    <3>3. CASE v = w /\ place'[w] = place[w]
      BY <2>3, <3>3 DEF There
    <3> QED  BY <1>3, <3>1, <3>2, <3>3
  <2>4. \A d \in Resumers : Registered(d)' /\ entry'[d].workspace # Home =>
          entry'[d].claimed \/ entry'[d].shared
    BY <1>4, <1>6 DEF ContInv, OwnersSound
  <2> QED  BY <1>6, <2>1, <2>2, <2>3, <2>4, OwnersRest
<1> QED  BY <1>2, <1>7, <1>8, <1>9, <1>10 DEF ContInv, CallsSound

LEMMA RestartServerStep ==
  ASSUME ContInv, RestartServer
  PROVE  ContInv'
<1>1. /\ place' = Removed(Resumers) /\ UNCHANGED <<tip, note, precious, churn>>
      /\ authority' = [c \in Resumers |-> Nowhere] /\ holder' = [b \in Spots |-> Nowhere]
      /\ resume' = [c \in Resumers |-> NoResume] /\ leaving' = {}
  BY DEF RestartServer
<1>2. /\ place' \in [Spots -> PlaceRecord] /\ PlacesSound'
      /\ \A b : Exists(b) <=> Exists(b)'
  BY <1>1, PlacesRemoved, SpotsDiffer
<1>3. PICK e : e = [NoEntry EXCEPT !.state = "lost"]
  OBVIOUS
<1>4. NoEntry \in EntryRecord /\ NoEntry.state = "new" /\ e \in EntryRecord /\ e.state = "lost"
  BY <1>3, SpotsDiffer DEF NoEntry, EntryRecord
<1>5. entry' = [c \in Resumers |-> IF entry[c] = NoEntry THEN NoEntry ELSE e]
  BY <1>3 DEF RestartServer
<1>6. entry' \in [Resumers -> EntryRecord] /\ \A c \in Resumers : ~Registered(c)'
  BY <1>4, <1>5 DEF Registered
<1>7. ContType'
  BY <1>1, <1>2, <1>6, InitialRecords DEF ContInv, ContType
<1>8. RecordsSound'
  BY <1>1, <1>2, <1>6 DEF ContInv, RecordsSound
<1>9. \A c \in Resumers : CallSound(c)' /\ ~Attached(c)' /\ Told(c)'
  BY <1>1, IdleCall, InitialRecords
<1>10. OwnersSound'
  BY <1>6, <1>9 DEF OwnersSound, Owner
<1> QED  BY <1>2, <1>7, <1>8, <1>9, <1>10 DEF ContInv, CallsSound

LEMMA ContInitInv == ContInit => ContInv
<1> SUFFICES ASSUME ContInit PROVE ContInv
  OBVIOUS
<1>1. PICK h : h = [branch |-> Home, files |-> Clean]
  OBVIOUS
<1>2. /\ h \in PlaceRecord /\ h.branch = Home /\ h.files = Clean
      /\ Gone \in PlaceRecord /\ Gone.branch = Nowhere /\ Gone.files = Clean /\ Clean \in Nat
  BY <1>1, SpotsDiffer DEF PlaceRecord, Gone, Clean
<1>3. place = [w \in Spots |-> IF w = Home THEN h ELSE Gone]
  BY <1>1 DEF ContInit
<1>4. NoEntry \in EntryRecord /\ NoEntry.state = "new"
  BY SpotsDiffer DEF NoEntry, EntryRecord
<1>5. NoResume \in ResumeRecord /\ NoResume.at = "idle" /\ NoResume.result = "none"
  BY InitialRecords
<1>6. ContType
  BY <1>2, <1>3, <1>4, <1>5 DEF ContInit, ContType
<1>7. PlacesSound
  BY <1>2, <1>3, SpotsDiffer DEF ContInit, PlacesSound, There, Exists, WorktreesKept
<1>8. \A c \in Resumers : ~Registered(c) /\ resume[c] = NoResume
  BY <1>4 DEF ContInit, Registered
<1>9. RecordsSound
  BY <1>8 DEF ContInit, RecordsSound
<1>10. \A c \in Resumers : CallSound(c) /\ ~Attached(c) /\ Told(c)
  BY <1>5, <1>8 DEF CallSound, Attached, Leased, Resuming, Told
<1>11. OwnersSound
  BY <1>8, <1>10 DEF OwnersSound, Owner
<1> QED  BY <1>6, <1>7, <1>9, <1>10, <1>11 DEF ContInv, CallsSound

LEMMA ContStepInv ==
  ASSUME ContInv, NEW c \in Resumers, ContStep(c)
  PROVE  ContInv'
<1>1. CASE Open(c)
  <2>1. PICK e : e = [NoEntry EXCEPT !.state = "live"]
    OBVIOUS
  <2>2. e \in EntryRecord /\ ~e.claimed /\ e.workspace = Home
    BY <2>1, SpotsDiffer DEF NoEntry, EntryRecord
  <2>3. Home \in Spots /\ There(Home)
    BY SpotsDiffer DEF ContInv, PlacesSound
  <2>4. /\ entry[c].state = "new" /\ entry' = [entry EXCEPT ![c] = e]
        /\ authority' = [authority EXCEPT ![c] = SnapshotOf(Home)]
        /\ UNCHANGED <<place, tip, note, holder, resume, leaving, precious, churn>>
    BY <1>1, <2>1 DEF Open
  <2> QED  BY <2>2, <2>3, <2>4, OpenStep
<1>2. ASSUME NEW d \in Resumers, Succeed(c, d) PROVE ContInv'
  <2>1. PICK w : w = entry[d].workspace
    OBVIOUS
  <2>2. PICK e : e = [NoEntry EXCEPT !.state = "live", !.workspace = w, !.shared = w # Home]
    OBVIOUS
  <2>3. w \in Spots
    BY <2>1, LeasesRest DEF EntryRecord
  <2>4. e \in EntryRecord /\ ~e.claimed /\ e.workspace = w /\ (w # Home => e.shared)
    BY <2>2, <2>3, SpotsDiffer DEF NoEntry, EntryRecord
  <2>5. /\ entry[c].state = "new" /\ entry' = [entry EXCEPT ![c] = e] /\ There(w)
        /\ authority' = [authority EXCEPT ![c] = SnapshotOf(w)]
        /\ UNCHANGED <<place, tip, note, holder, resume, leaving, precious, churn>>
    BY <1>2, <2>1, <2>2 DEF Succeed
  <2> QED  BY <2>3, <2>4, <2>5, OpenStep
<1>3. CASE Expire(c)
  BY <1>3, ExpireStep
<1>4. CASE ClaimPlace(c)
  BY <1>4, ClaimPlaceStep
<1>5. CASE BindPlace(c)
  BY <1>5, BindPlaceStep, BindRefusedStep
<1>6. ASSUME NEW committing \in BOOLEAN, MutatePlace(c, committing) PROVE ContInv'
  BY <1>6, MutatePlaceStep
<1>7. ASSUME NEW s \in Scopes, BeginWrite(c, s) \/ ClearNote(c, s) \/ ReadNote(c, s)
      PROVE  ContInv'
  BY <1>7, BeginWriteStep, ClearNoteStep, ReadNoteStep
<1>8. ASSUME NEW evidence \in {"none", "older", "actual"}, WriteNote(c, evidence)
      PROVE  ContInv'
  BY <1>8, WriteNoteStep
<1>9. CASE LeaseHeld(c)
  BY <1>9, LeaseHeldStep
<1>10. CASE FindTarget(c)
  BY <1>10, FindTargetStep
<1>11. CASE ClaimTarget(c)
  BY <1>11, ClaimTargetStep
<1>12. CASE Accept(c)
  BY <1>12, AcceptStep
<1>13. CASE Reject(c) \/ RenewFails(c)
  BY <1>13, RejectStep
<1> QED  BY <1>1, <1>2, <1>3, <1>4, <1>5, <1>6, <1>7, <1>8, <1>9, <1>10, <1>11, <1>12, <1>13
         DEF ContStep

(* Every step keeps the invariant. *)
LEMMA ContNextInv == ContInv /\ [ContNext]_contVars => ContInv'
<1> SUFFICES ASSUME ContInv, [ContNext]_contVars PROVE ContInv'
  OBVIOUS
<1>1. ASSUME NEW c \in Resumers, ContStep(c) PROVE ContInv'
  BY <1>1, ContStepInv
<1>2. ASSUME NEW w \in Spots, CleanUp(w) \/ EditPlace(w) \/ CommitPlace(w) \/ SwitchHome(w)
      PROVE  ContInv'
  BY <1>2, CleanUpStep, EditPlaceStep, SwitchHomeStep
<1>3. CASE RestartServer
  BY <1>3, RestartServerStep
<1>4. CASE UNCHANGED contVars
  <2>1. UNCHANGED <<entry, place, tip, note, authority, holder, resume, leaving, precious, churn>>
    BY <1>4 DEF contVars
  <2>2. PlacesSound' /\ (\A b : Exists(b) <=> Exists(b)') /\ (\A w : There(w) <=> There(w)')
    BY <2>1, PlacesRest
  <2>3. /\ place \in [Spots -> PlaceRecord] /\ tip \in [Spots -> Nat \cup {Nowhere}]
        /\ precious \in [Spots -> Nat] /\ churn \in Nat
    BY DEF ContInv, ContType
  <2> QED  BY <2>1, <2>2, <2>3, WorldMoves
<1> QED  BY <1>1, <1>2, <1>3, <1>4 DEF ContNext

(* What ContinuationSound says, for any number of contexts, scopes and     *)
(* changes: no two live contexts own a workspace unless one shares it, a   *)
(* resume that succeeds accepts exactly the state that was saved and one   *)
(* that fails leaves the binding as it was, and no worktree with           *)
(* uncommitted changes is removed, in every order of the calls, expiries,  *)
(* late cleanups, restarts, edits and switches.                            *)
THEOREM ContinuationIsSound == ContSpec => []ContinuationSound
<1>1. ContInv => ContinuationSound
  <2> SUFFICES ASSUME ContInv PROVE ContinuationSound
    OBVIOUS
  <2>1. OneOwner
    <3> SUFFICES ASSUME NEW c \in Resumers, NEW d \in Resumers, c # d,
                        Owner(c, entry[c].workspace), Owner(d, entry[c].workspace),
                        ~entry[c].shared, ~entry[d].shared
                 PROVE  FALSE
      BY DEF OneOwner, Owner
    <3>1. entry[c].workspace \in Spots
      BY LeasesRest DEF EntryRecord
    <3>2. Firm(c) /\ Firm(d)
      BY DEF Firm
    <3> QED  BY <3>1, <3>2 DEF ContInv, OwnersSound
  <2>2. ResumedOrNot
    BY DEF ContInv, Told, ResumedOrNot
  <2>3. WorktreesKept
    BY DEF ContInv, PlacesSound
  <2> QED  BY <2>1, <2>2, <2>3 DEF ContinuationSound
<1> QED  BY <1>1, ContInitInv, ContNextInv, PTL DEF ContSpec
=============================================================================
