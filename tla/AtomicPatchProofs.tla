-------------------------- MODULE AtomicPatchProofs --------------------------
(***************************************************************************)
(* Proofs about AtomicPatch and PatchStaging: for any set of paths, any    *)
(* contents and any number of patches, faults and edits; for any texts,    *)
(* and patches of any number of operations and hunks.                      *)
(***************************************************************************)
EXTENDS AtomicPatch, PatchStaging, FiniteSetTheorems, SequenceTheorems, NaturalsInduction, TLAPS

Forward == {"prepare", "assert", "check", "move", "confirm", "install"}

(* Where each outcome can be seen, and which paths the commit may touch. *)
Control ==
  /\ pc \in Forward => outcome = "running"
  /\ pc \in {"rollback", "temps"} => outcome \in {"failed", "unrestored"}
  /\ pc = "cleanup" => outcome \in {"applied", "failed", "unrestored", "interrupted"}
  /\ pc = "idle" => outcome \in {"none", "applied", "unmirrored", "failed", "unrestored"}
  /\ pc = "mirror" => outcome = "applied"
  /\ pc = "exit" => outcome = "interrupted"
  /\ pc # "idle" => Cardinality(recorded \cup changes) <= MaxBaselines
  /\ todo \subseteq changes
  /\ backups \subseteq changes
  /\ installed \subseteq changes

(* Before its rollback, the user's version of i is its backup, or no file  *)
(* at all, or still in place.                                              *)
Kept(i) ==
  /\ i \in backups => backup[i] = user[i] /\ user[i] # Absent
  /\ i \in installed \ backups => user[i] = Absent
  /\ i \notin backups \cup installed => disk[i] = user[i]

(* i has its new content, and is watched no more. *)
Arrived(i) == disk[i] = content[i] /\ i \in backups \cup installed

(* Bookkeeping of the loops of commit, for a staged path. *)
Progress(i) ==
  /\ pc \in Forward /\ content[i] = Absent => baseline[i] # Absent
  /\ pc = "prepare" => i \in todo \/ temp[i] = content[i]
  /\ pc \in {"assert", "check", "move"} => temp[i] = content[i]
  /\ pc \in {"prepare", "assert", "check", "move"} => i \notin installed
  /\ pc \in {"prepare", "assert"} => i \notin backups
  /\ pc \in {"check", "move"} /\ i \in todo => i \notin backups
  /\ pc = "move" /\ First(i) => disk[i] = baseline[i]
  /\ (pc \in {"check", "move"} /\ i \notin todo) \/ pc \in {"confirm", "install"} =>
       /\ i \in backups \/ baseline[i] = Absent
       /\ i \in backups \ installed => disk[i] = Absent
  /\ pc \in {"confirm", "install"} =>
       IF i \in todo THEN i \notin installed /\ temp[i] = content[i] ELSE Arrived(i)
  /\ pc = "install" /\ First(i) => i \in backups \/ disk[i] = Absent

PathInv(i) ==
  /\ pc \in Forward => Kept(i)
  /\ pc = "rollback" /\ i \in todo => Kept(i)
  /\ pc = "rollback" /\ i \notin todo /\ outcome = "failed" => disk[i] = user[i]
  /\ pc \in {"temps", "cleanup", "idle"} /\ outcome = "failed" => disk[i] = user[i]
  /\ outcome \in {"none", "failed", "unrestored"} => Recoverable(i)
  /\ i \in changes /\ outcome \in {"applied", "unmirrored"} => Arrived(i)
  /\ i \in changes => Progress(i)

Inv == TypeOK /\ Control /\ \A i \in Paths \ raced : PathInv(i)

(* Every initial state satisfies the inductive invariant. *)
LEMMA InitInv == Init => Inv
  BY BoundsAssumption, FS_EmptySet
  DEF Init, Inv, TypeOK, Control, PathInv, Progress, Kept, Arrived, Recoverable,
      First, Forward, Steps, Outcomes, Data

(* ApplyPatch preserves the inductive invariant. *)
LEMMA ApplyPatchInv ==
  ASSUME Inv, NEW S \in SUBSET Paths, NEW c \in [S -> Data], ApplyPatch(S, c)
  PROVE  Inv'
<1> USE BoundsAssumption, AbsentAssumption, PathsAssumption
<1> USE DEF Inv, Forward, Data, files, patch, ghosts, counters
<1>1. TypeOK'
  <2>1. content' \in [Paths -> Data]
    BY DEF TypeOK, ApplyPatch
  <2>2. pc' \in Steps /\ outcome' \in Outcomes /\ todo' \subseteq Paths
    BY DEF TypeOK, ApplyPatch, Steps, Outcomes
  <2>3. patches' \in 0..MaxPatches
    BY DEF TypeOK, ApplyPatch
  <2>4. QED
    BY <2>1, <2>2, <2>3 DEF TypeOK, ApplyPatch
<1>2. Control'
  <2>1. Cardinality(recorded \cup S) \in Nat
    <3>1. recorded \cup S \subseteq Paths
      BY DEF TypeOK
    <3>2. QED
      BY <3>1, FS_Subset, FS_CardinalityType
  <2>2. pc' # "idle" => Cardinality(recorded' \cup changes') <= MaxBaselines
    BY <2>1 DEF ApplyPatch, TooManyBaselines
  <2>3. QED
    BY <2>2 DEF TypeOK, Control, ApplyPatch
<1>3. ASSUME NEW j \in Paths \ raced' PROVE PathInv(j)'
  BY <1>3 DEF TypeOK, Control, PathInv, Progress, Kept, Arrived, Recoverable,
     ApplyPatch, First, Last, Unwatched
<1>4. QED BY <1>1, <1>2, <1>3

(* Prepare preserves the inductive invariant. *)
LEMMA PrepareInv ==
  ASSUME Inv, NEW i \in Paths, Prepare(i)
  PROVE  Inv'
<1> USE BoundsAssumption, AbsentAssumption, PathsAssumption
<1> USE DEF Inv, Forward, Data, files, patch, ghosts, counters
<1>1. TypeOK'
  BY DEF TypeOK, Steps, Outcomes, Prepare, First, Last, Control, Advance, Unchanged
<1>2. Control'
  BY DEF TypeOK, Control, Prepare, First, Last, Advance, Unchanged
<1>3. ASSUME NEW j \in Paths \ raced' PROVE PathInv(j)'
  BY <1>3 DEF TypeOK, Control, PathInv, Progress, Kept, Arrived, Recoverable,
     Prepare, First, Last, Unwatched, Advance, Unchanged
<1>4. QED BY <1>1, <1>2, <1>3

(* AssertBaseline preserves the inductive invariant. *)
LEMMA AssertBaselineInv ==
  ASSUME Inv, NEW i \in Paths, AssertBaseline(i)
  PROVE  Inv'
<1> USE BoundsAssumption, AbsentAssumption, PathsAssumption
<1> USE DEF Inv, Forward, Data, files, patch, ghosts, counters
<1>1. TypeOK'
  BY DEF TypeOK, Steps, Outcomes, AssertBaseline, First, Last, Control, Advance, Raise, Unchanged
<1>2. Control'
  BY DEF TypeOK, Control, AssertBaseline, First, Last, Advance, Raise, Unchanged
<1>3. ASSUME NEW j \in Paths \ raced' PROVE PathInv(j)'
  BY <1>3 DEF TypeOK, Control, PathInv, Progress, Kept, Arrived, Recoverable,
     AssertBaseline, First, Last, Unwatched, Advance, Raise, Unchanged
<1>4. QED BY <1>1, <1>2, <1>3

(* MoveOriginal preserves the inductive invariant. *)
LEMMA MoveOriginalInv ==
  ASSUME Inv, NEW i \in Paths, MoveOriginal(i)
  PROVE  Inv'
<1> USE BoundsAssumption, AbsentAssumption, PathsAssumption
<1> USE DEF Inv, Forward, Data, files, patch, ghosts, counters
<1>1. TypeOK'
  BY DEF TypeOK, Steps, Outcomes, MoveOriginal, First, Last, Control, Advance, Unchanged
<1>2. Control'
  BY DEF TypeOK, Control, MoveOriginal, First, Last, Advance, Unchanged
<1>3. ASSUME NEW j \in Paths \ raced' PROVE PathInv(j)'
  BY <1>3 DEF TypeOK, Control, PathInv, Progress, Kept, Arrived, Recoverable,
     MoveOriginal, First, Last, Unwatched, Advance, Unchanged
<1>4. QED BY <1>1, <1>2, <1>3

(* ConfirmTarget preserves the inductive invariant. *)
LEMMA ConfirmTargetInv ==
  ASSUME Inv, NEW i \in Paths, ConfirmTarget(i)
  PROVE  Inv'
<1> USE BoundsAssumption, AbsentAssumption, PathsAssumption
<1> USE DEF Inv, Forward, Data, files, patch, ghosts, counters
<1>1. TypeOK'
  BY DEF TypeOK, Steps, Outcomes, ConfirmTarget, First, Last, Control, Advance, Raise, Unchanged
<1>2. Control'
  BY DEF TypeOK, Control, ConfirmTarget, First, Last, Advance, Raise, Unchanged
<1>3. ASSUME NEW j \in Paths \ raced' PROVE PathInv(j)'
  BY <1>3 DEF TypeOK, Control, PathInv, Progress, Kept, Arrived, Recoverable,
     ConfirmTarget, First, Last, Unwatched, Advance, Raise, Unchanged
<1>4. QED BY <1>1, <1>2, <1>3

(* Install preserves the inductive invariant. *)
LEMMA InstallInv ==
  ASSUME Inv, NEW i \in Paths, Install(i)
  PROVE  Inv'
<1> USE BoundsAssumption, AbsentAssumption, PathsAssumption
<1> USE DEF Inv, Forward, Data, files, patch, ghosts, counters
<1>1. TypeOK'
  BY DEF TypeOK, Steps, Outcomes, Install, First, Last, Control, Advance, Unchanged
<1>2. Control'
  BY DEF TypeOK, Control, Install, First, Last, Advance, Unchanged
<1>3. ASSUME NEW j \in Paths \ raced' PROVE PathInv(j)'
  BY <1>3 DEF TypeOK, Control, PathInv, Progress, Kept, Arrived, Recoverable,
     Install, First, Last, Unwatched, Advance, Unchanged
<1>4. QED BY <1>1, <1>2, <1>3

(* Rollback preserves the inductive invariant. *)
LEMMA RollbackInv ==
  ASSUME Inv, NEW i \in Paths, Rollback(i)
  PROVE  Inv'
<1> USE BoundsAssumption, AbsentAssumption, PathsAssumption
<1> USE DEF Inv, Forward, Data, files, patch, ghosts, counters
<1>1. TypeOK'
  BY DEF TypeOK, Steps, Outcomes, Rollback, First, Last, Control, Advance, Unchanged
<1>2. Control'
  BY DEF TypeOK, Control, Rollback, First, Last, Advance, Unchanged
<1>3. ASSUME NEW j \in Paths \ raced' PROVE PathInv(j)'
  BY <1>3 DEF TypeOK, Control, PathInv, Progress, Kept, Arrived, Recoverable,
     Rollback, First, Last, Unwatched, Advance, Unchanged
<1>4. QED BY <1>1, <1>2, <1>3

(* UnlinkTemps preserves the inductive invariant. *)
LEMMA UnlinkTempsInv ==
  ASSUME Inv, UnlinkTemps
  PROVE  Inv'
<1> USE BoundsAssumption, AbsentAssumption, PathsAssumption
<1> USE DEF Inv, Forward, Data, files, patch, ghosts, counters
<1>1. TypeOK'
  BY DEF TypeOK, Steps, Outcomes, UnlinkTemps, First, Last, Control, Unchanged
<1>2. Control'
  BY DEF TypeOK, Control, UnlinkTemps, First, Last, Unchanged
<1>3. ASSUME NEW j \in Paths \ raced' PROVE PathInv(j)'
  BY <1>3 DEF TypeOK, Control, PathInv, Progress, Kept, Arrived, Recoverable,
     UnlinkTemps, First, Last, Unwatched, Unchanged
<1>4. QED BY <1>1, <1>2, <1>3

(* Cleanup preserves the inductive invariant. *)
LEMMA CleanupInv ==
  ASSUME Inv, Cleanup
  PROVE  Inv'
<1> USE BoundsAssumption, AbsentAssumption, PathsAssumption
<1> USE DEF Inv, Forward, Data, files, patch, ghosts, counters
<1>1. TypeOK'
  BY DEF TypeOK, Steps, Outcomes, Cleanup, Returned, First, Last, Control
<1>2. Control'
  BY DEF TypeOK, Control, Cleanup, Returned, First, Last
<1>3. ASSUME NEW j \in Paths \ raced' PROVE PathInv(j)'
  BY <1>3 DEF TypeOK, Control, PathInv, Progress, Kept, Arrived, Recoverable,
     Cleanup, Returned, First, Last, Unwatched
<1>4. QED BY <1>1, <1>2, <1>3

(* Mirror preserves the inductive invariant. *)
LEMMA MirrorInv ==
  ASSUME Inv, Mirror
  PROVE  Inv'
<1> USE BoundsAssumption, AbsentAssumption, PathsAssumption
<1> USE DEF Inv, Forward, Data, files, patch, ghosts, counters
<1>1. TypeOK'
  BY DEF TypeOK, Steps, Outcomes, Mirror, First, Last, Control, Unchanged
<1>2. Control'
  BY DEF TypeOK, Control, Mirror, First, Last, Unchanged
<1>3. ASSUME NEW j \in Paths \ raced' PROVE PathInv(j)'
  BY <1>3 DEF TypeOK, Control, PathInv, Progress, Kept, Arrived, Recoverable,
     Mirror, First, Last, Unwatched, Unchanged
<1>4. QED BY <1>1, <1>2, <1>3

(* MirrorFails preserves the inductive invariant. *)
LEMMA MirrorFailsInv ==
  ASSUME Inv, MirrorFails
  PROVE  Inv'
<1> USE BoundsAssumption, AbsentAssumption, PathsAssumption
<1> USE DEF Inv, Forward, Data, files, patch, ghosts, counters
<1>1. TypeOK'
  BY DEF TypeOK, Steps, Outcomes, MirrorFails, First, Last, Control, Failing, UnchangedBut
<1>2. Control'
  BY DEF TypeOK, Control, MirrorFails, First, Last, Failing, UnchangedBut
<1>3. ASSUME NEW j \in Paths \ raced' PROVE PathInv(j)'
  BY <1>3 DEF TypeOK, Control, PathInv, Progress, Kept, Arrived, Recoverable,
     MirrorFails, First, Last, Unwatched, Failing, UnchangedBut
<1>4. QED BY <1>1, <1>2, <1>3

(* SystemCallFails preserves the inductive invariant. *)
LEMMA SystemCallFailsInv ==
  ASSUME Inv, SystemCallFails
  PROVE  Inv'
<1> USE BoundsAssumption, AbsentAssumption, PathsAssumption
<1> USE DEF Inv, Forward, Data, files, patch, ghosts, counters
<1>1. TypeOK'
  BY DEF TypeOK, Steps, Outcomes, SystemCallFails, First, Last, Control, Failing, Raise, UnchangedBut
<1>2. Control'
  BY DEF TypeOK, Control, SystemCallFails, First, Last, Failing, Raise, UnchangedBut
<1>3. ASSUME NEW j \in Paths \ raced' PROVE PathInv(j)'
  BY <1>3 DEF TypeOK, Control, PathInv, Progress, Kept, Arrived, Recoverable,
     SystemCallFails, First, Last, Unwatched, Failing, Raise, UnchangedBut
<1>4. QED BY <1>1, <1>2, <1>3

(* RollbackFails preserves the inductive invariant. *)
LEMMA RollbackFailsInv ==
  ASSUME Inv, NEW i \in Paths, RollbackFails(i)
  PROVE  Inv'
<1> USE BoundsAssumption, AbsentAssumption, PathsAssumption
<1> USE DEF Inv, Forward, Data, files, patch, ghosts, counters
<1>1. TypeOK'
  <2>1. disk' \in [Paths -> Data]
    <3>1. disk' = disk \/ disk' = [disk EXCEPT ![i] = IF i \in installed /\ i \in backups
                                                        THEN Absent ELSE @]
      BY Zenon DEF RollbackFails
    <3>2. QED
      BY <3>1 DEF TypeOK
  <2>2. pc' \in Steps /\ outcome' \in Outcomes /\ todo' \subseteq Paths
    BY DEF TypeOK, RollbackFails, Advance, Steps, Outcomes, UnchangedBut
  <2>3. faults' \in 0..MaxFaults
    BY DEF TypeOK, RollbackFails, Failing
  <2>4. QED
    BY <2>1, <2>2, <2>3 DEF TypeOK, RollbackFails, UnchangedBut
<1>2. Control'
  BY DEF TypeOK, Control, RollbackFails, First, Last, Failing, Advance, UnchangedBut
<1>3. ASSUME NEW j \in Paths \ raced' PROVE PathInv(j)'
  BY <1>3 DEF TypeOK, Control, PathInv, Progress, Kept, Arrived, Recoverable,
     RollbackFails, First, Last, Unwatched, Failing, Advance, UnchangedBut
<1>4. QED BY <1>1, <1>2, <1>3

(* UnlinkTempsFails preserves the inductive invariant. *)
LEMMA UnlinkTempsFailsInv ==
  ASSUME Inv, UnlinkTempsFails
  PROVE  Inv'
<1> USE BoundsAssumption, AbsentAssumption, PathsAssumption
<1> USE DEF Inv, Forward, Data, files, patch, ghosts, counters
<1>1. TypeOK'
  BY DEF TypeOK, Steps, Outcomes, UnlinkTempsFails, First, Last, Control, Failing, UnchangedBut
<1>2. Control'
  BY DEF TypeOK, Control, UnlinkTempsFails, First, Last, Failing, UnchangedBut
<1>3. ASSUME NEW j \in Paths \ raced' PROVE PathInv(j)'
  BY <1>3 DEF TypeOK, Control, PathInv, Progress, Kept, Arrived, Recoverable,
     UnlinkTempsFails, First, Last, Unwatched, Failing, UnchangedBut
<1>4. QED BY <1>1, <1>2, <1>3

(* LoseBackup preserves the inductive invariant. *)
LEMMA LoseBackupInv ==
  ASSUME Inv, NEW i \in Paths, LoseBackup(i)
  PROVE  Inv'
<1> USE BoundsAssumption, AbsentAssumption, PathsAssumption
<1> USE DEF Inv, Forward, Data, files, patch, ghosts, counters
<1>1. TypeOK'
  BY DEF TypeOK, Steps, Outcomes, LoseBackup, First, Last, Control, Failing
<1>2. Control'
  BY DEF TypeOK, Control, LoseBackup, First, Last, Failing
<1>3. ASSUME NEW j \in Paths \ raced' PROVE PathInv(j)'
  BY <1>3 DEF TypeOK, Control, PathInv, Progress, Kept, Arrived, Recoverable,
     LoseBackup, First, Last, Unwatched, Failing
<1>4. QED BY <1>1, <1>2, <1>3

(* Interrupt preserves the inductive invariant. *)
LEMMA InterruptInv ==
  ASSUME Inv, Interrupt
  PROVE  Inv'
<1> USE BoundsAssumption, AbsentAssumption, PathsAssumption
<1> USE DEF Inv, Forward, Data, files, patch, ghosts, counters
<1>1. TypeOK'
  BY DEF TypeOK, Steps, Outcomes, Interrupt, First, Last, Control, Failing, UnchangedBut
<1>2. Control'
  BY DEF TypeOK, Control, Interrupt, First, Last, Failing, UnchangedBut
<1>3. ASSUME NEW j \in Paths \ raced' PROVE PathInv(j)'
  BY <1>3 DEF TypeOK, Control, PathInv, Progress, Kept, Arrived, Recoverable,
     Interrupt, First, Last, Unwatched, Failing, UnchangedBut
<1>4. QED BY <1>1, <1>2, <1>3

(* Edit preserves the inductive invariant. *)
LEMMA EditInv ==
  ASSUME Inv, NEW i \in Paths, NEW d \in Data, Edit(i, d)
  PROVE  Inv'
<1> USE BoundsAssumption, AbsentAssumption, PathsAssumption
<1> USE DEF Inv, Forward, Data, files, patch, ghosts, counters
<1>1. TypeOK'
  BY DEF TypeOK, Steps, Outcomes, Edit, First, Last, Control
<1>2. Control'
  BY DEF TypeOK, Control, Edit, First, Last
<1>3. ASSUME NEW j \in Paths \ raced' PROVE PathInv(j)'
  BY <1>3 DEF TypeOK, Control, PathInv, Progress, Kept, Arrived, Recoverable,
     Edit, First, Last, Unwatched
<1>4. QED BY <1>1, <1>2, <1>3

(* Inv is inductive. *)
LEMMA StepInv == Inv /\ [Next]_vars => Inv'
<1> SUFFICES ASSUME Inv, [Next]_vars PROVE Inv'
  OBVIOUS
<1>1. CASE \E S \in SUBSET Paths : \E c \in [S -> Data] : ApplyPatch(S, c)
  BY <1>1, ApplyPatchInv
<1>2. CASE CommitStep
  BY <1>2, PrepareInv, AssertBaselineInv, MoveOriginalInv, ConfirmTargetInv,
     InstallInv, RollbackInv, UnlinkTempsInv, CleanupInv, MirrorInv DEF CommitStep
<1>3. CASE SystemCallFails \/ UnlinkTempsFails \/ MirrorFails \/ Interrupt
  BY <1>3, SystemCallFailsInv, UnlinkTempsFailsInv, MirrorFailsInv, InterruptInv
<1>4. CASE \E i \in Paths : RollbackFails(i) \/ LoseBackup(i) \/ \E d \in Data : Edit(i, d)
  BY <1>4, RollbackFailsInv, LoseBackupInv, EditInv
<1>5. CASE UNCHANGED vars
  BY <1>5 DEF vars, files, patch, ghosts, counters, Inv, TypeOK, Control, PathInv,
     Progress, Kept, Arrived, Recoverable, First
<1>6. QED
  BY <1>1, <1>2, <1>3, <1>4, <1>5 DEF Next

(* The inductive invariant implies what the runs check. *)
LEMMA InvSuffices == Inv => AllOrNothing /\ OriginalsKept
<1> SUFFICES ASSUME Inv PROVE AllOrNothing /\ OriginalsKept
  OBVIOUS
<1>1. AllOrNothing
  BY DEF Inv, TypeOK, PathInv, Arrived, AllOrNothing
<1>2. ASSUME NEW i \in Paths \ raced, outcome = "running" PROVE Recoverable(i)
  <2>1. pc \in Forward
    BY <1>2 DEF Inv, TypeOK, Control, Steps, Forward
  <2>2. QED
    BY <2>1 DEF Inv, PathInv, Kept, Recoverable
<1>3. OriginalsKept
  BY <1>2 DEF Inv, TypeOK, Outcomes, PathInv, OriginalsKept
<1>4. QED
  BY <1>1, <1>3

(* Every variable of a commit has its type: what each path holds, what was *)
(* staged and set aside, and the step the commit is at.                    *)
THEOREM TypeCorrect == Spec => []TypeOK
<1>1. Inv => TypeOK
  BY DEF Inv
<1>2. QED
  BY <1>1, InitInv, StepInv, PTL DEF Spec

(* A commit is complete, or undone, or its failed rollback leaves the      *)
(* user's bytes in a backup, whatever fails and whoever edits the files    *)
(* outside the windows that nothing watches.                               *)
THEOREM CommitIsAllOrNothing == Spec => []AllOrNothing
  BY InitInv, StepInv, InvSuffices, PTL DEF Spec

(* At no moment of an unfinished, uninterrupted commit do the user's bytes *)
(* exist neither at their path nor in a backup.                            *)
THEOREM CommitKeepsOriginals == Spec => []OriginalsKept
  BY InitInv, StepInv, InvSuffices, PTL DEF Spec
-----------------------------------------------------------------------------
(* PatchStaging.  Induction over the hunks and over the operations goes by *)
(* the set of the numbers for which a claim holds.                         *)

LEMMA Smallest ==
  ASSUME NEW S \in SUBSET Nat, S # {}
  PROVE  \E m \in S : \A j \in S : m <= j
<1> DEFINE R == {ss \in Nat \X Nat : ss[1] < ss[2]}
<1>1. IsWellFoundedOn(R, Nat)
  BY NatLessThanWellFounded, Zenon DEF OpToRel
<1>2. \E m \in S : \A j \in S : ~(<<j, m>> \in R)
  <2>1. S \subseteq Nat
    OBVIOUS
  <2> HIDE DEF R
  <2>2. QED
    BY <1>1, <2>1, WFMin, Zenon
<1>3. ASSUME NEW j \in Nat, NEW m \in Nat, j < m PROVE <<j, m>> \in R
  BY <1>3
<1> HIDE DEF R
<1>4. PICK m \in S : \A j \in S : <<j, m>> \notin R
  BY <1>2, Zenon
<1>5. \A j \in S : ~(j < m)
  BY <1>3, <1>4
<1>6. QED
  BY <1>5

(* A set of numbers that has zero and with each number the next one has    *)
(* them all.                                                               *)
LEMMA CountsUp ==
  ASSUME NEW S \in SUBSET Nat, 0 \in S, \A n \in S : n + 1 \in S
  PROVE  S = Nat
<1> DEFINE Others == Nat \ S
<1> SUFFICES ASSUME Others # {} PROVE FALSE
  OBVIOUS
<1>1. PICK m \in Others : \A j \in Others : m <= j
  BY Smallest
<1>2. m \in Nat /\ m # 0 /\ m - 1 \in Nat
  OBVIOUS
<1>3. m - 1 \in S
  BY <1>1, <1>2
<1>4. (m - 1) + 1 \in S
  BY <1>3
<1>5. QED
  BY <1>2, <1>4

-----------------------------------------------------------------------------
(* The recursions have a value at every step. *)

SpliceTrace(f, lines, order, n) ==
  f = [k \in 0..n |-> IF k = 0 THEN lines ELSE Splice(f[k - 1], order[k])]

LEMMA SplicedTrace ==
  ASSUME NEW lines, NEW order, Len(order) \in Nat
  PROVE  \E f : SpliceTrace(f, lines, order, Len(order)) /\ Spliced(lines, order) = f
<1> DEFINE IsTrace(f, n) == f = [k \in 0..n |-> IF k = 0 THEN lines ELSE Splice(f[k - 1], order[k])]
           T == {n \in Nat : \E f : IsTrace(f, n)}
<1>1. 0 \in T
  <2> DEFINE f == [k \in 0..0 |-> lines]
  <2>1. IsTrace(f, 0)
    OBVIOUS
  <2>2. QED
    BY <2>1
<1>2. ASSUME NEW n \in T PROVE n + 1 \in T
  <2>1. PICK f : IsTrace(f, n)
    OBVIOUS
  <2> DEFINE g == [k \in 0..n + 1 |-> IF k <= n THEN f[k] ELSE Splice(f[n], order[k])]
  <2>2. IsTrace(g, n + 1)
    <3>1. ASSUME NEW k \in 0..n + 1
          PROVE  g[k] = IF k = 0 THEN lines ELSE Splice(g[k - 1], order[k])
      BY <2>1
    <3>2. QED
      BY <3>1
  <2> HIDE DEF g
  <2>3. \E h : IsTrace(h, n + 1)
    BY <2>2, Zenon
  <2>4. n + 1 \in Nat
    OBVIOUS
  <2> HIDE DEF IsTrace
  <2>5. QED
    BY <2>3, <2>4
<1>3. T = Nat
  <2>1. T \in SUBSET Nat
    OBVIOUS
  <2> HIDE DEF T
  <2>2. QED
    BY <1>1, <1>2, <2>1, CountsUp
<1>4. \E f : IsTrace(f, Len(order))
  BY <1>3
<1>5. QED
  BY <1>4, Zenon DEF Spliced, SpliceTrace
LEMMA WrittenTrace ==
  ASSUME NEW lines, NEW places, Len(places) \in Nat
  PROVE  \E f :
           /\ f = [k \in 0..Len(places) |-> IF k = 0 THEN <<>>
                    ELSE f[k - 1] \o SubSeq(lines, EndOf(places, k - 1) + 1, places[k].start)
                           \o places[k].new]
           /\ Written(lines, places) =
                f[Len(places)] \o SubSeq(lines, EndOf(places, Len(places)) + 1, Len(lines))
<1> DEFINE Longer(s, k) == s \o SubSeq(lines, EndOf(places, k - 1) + 1, places[k].start)
                             \o places[k].new
           IsTrace(f, n) == f = [k \in 0..n |-> IF k = 0 THEN <<>> ELSE Longer(f[k - 1], k)]
           T == {n \in Nat : \E f : IsTrace(f, n)}
<1> HIDE DEF Longer
<1>1. 0 \in T
  <2> DEFINE f == [k \in 0..0 |-> <<>>]
  <2>1. IsTrace(f, 0)
    OBVIOUS
  <2>2. QED
    BY <2>1
<1>2. ASSUME NEW n \in T PROVE n + 1 \in T
  <2>1. PICK f : IsTrace(f, n)
    OBVIOUS
  <2> DEFINE g == [k \in 0..n + 1 |-> IF k <= n THEN f[k] ELSE Longer(f[n], k)]
  <2>2. IsTrace(g, n + 1)
    <3>1. ASSUME NEW k \in 0..n + 1
          PROVE  g[k] = IF k = 0 THEN <<>> ELSE Longer(g[k - 1], k)
      BY <2>1
    <3>2. QED
      BY <3>1
  <2> HIDE DEF g
  <2>3. \E h : IsTrace(h, n + 1)
    BY <2>2, Zenon
  <2>4. n + 1 \in Nat
    OBVIOUS
  <2> HIDE DEF IsTrace
  <2>5. QED
    BY <2>3, <2>4
<1>3. T = Nat
  <2>1. T \in SUBSET Nat
    OBVIOUS
  <2> HIDE DEF T
  <2>2. QED
    BY <1>1, <1>2, <2>1, CountsUp
<1>4. \E f : IsTrace(f, Len(places))
  BY <1>3
<1>5. QED
  BY <1>4, Zenon DEF Written, Longer

EffectTrace(f, tree, list, n) ==
  f = [k \in 0..n |-> IF k = 0 THEN tree ELSE Effect(f[k - 1], list[k])]

LEMMA AsWrittenTrace ==
  ASSUME NEW tree, NEW list, Len(list) \in Nat
  PROVE  \E f : EffectTrace(f, tree, list, Len(list)) /\ AsWritten(tree, list) = f[Len(list)]
<1> DEFINE IsTrace(f, n) == f = [k \in 0..n |-> IF k = 0 THEN tree ELSE Effect(f[k - 1], list[k])]
           T == {n \in Nat : \E f : IsTrace(f, n)}
<1>1. 0 \in T
  <2> DEFINE f == [k \in 0..0 |-> tree]
  <2>1. IsTrace(f, 0)
    OBVIOUS
  <2>2. QED
    BY <2>1
<1>2. ASSUME NEW n \in T PROVE n + 1 \in T
  <2>1. PICK f : IsTrace(f, n)
    OBVIOUS
  <2> DEFINE g == [k \in 0..n + 1 |-> IF k <= n THEN f[k] ELSE Effect(f[n], list[k])]
  <2>2. IsTrace(g, n + 1)
    <3>1. ASSUME NEW k \in 0..n + 1
          PROVE  g[k] = IF k = 0 THEN tree ELSE Effect(g[k - 1], list[k])
      BY <2>1
    <3>2. QED
      BY <3>1
  <2> HIDE DEF g
  <2>3. \E h : IsTrace(h, n + 1)
    BY <2>2, Zenon
  <2>4. n + 1 \in Nat
    OBVIOUS
  <2> HIDE DEF IsTrace
  <2>5. QED
    BY <2>3, <2>4
<1>3. T = Nat
  <2>1. T \in SUBSET Nat
    OBVIOUS
  <2> HIDE DEF T
  <2>2. QED
    BY <1>1, <1>2, <2>1, CountsUp
<1>4. \E f : IsTrace(f, Len(list))
  BY <1>3
<1>5. QED
  BY <1>4, Zenon DEF AsWritten, EffectTrace


-----------------------------------------------------------------------------
(* A stable sort *)

SortedBy(p, n, s, key, result) ==
  /\ result = [k \in 1..n |-> s[p[k]]]
  /\ \A k, l \in 1..n : k < l =>
       key[p[k]] < key[p[l]] \/ (key[p[k]] = key[p[l]] /\ p[k] < p[l])

(* StableSort orders by key and, for equal keys, by position. *)
LEMMA StableSortOrder ==
  ASSUME NEW n \in Nat, NEW s, DOMAIN s = 1..n, NEW key \in [1..n -> Int]
  PROVE  \E p \in [1..n -> 1..n] : SortedBy(p, n, s, key, StableSort(s, key))
<1> DEFINE Less(j, i) == key[j] < key[i] \/ (key[j] = key[i] /\ j < i)
           Before(i) == {j \in 1..n : Less(j, i)}
           Rank(i) == Cardinality(Before(i))
<1>1. \A i, j \in 1..n : i # j => Less(i, j) \/ Less(j, i)
  <2> SUFFICES ASSUME NEW i \in 1..n, NEW j \in 1..n, i # j PROVE Less(i, j) \/ Less(j, i)
    OBVIOUS
  <2>1. key[i] \in Int /\ key[j] \in Int /\ i \in Int /\ j \in Int
    OBVIOUS
  <2>2. QED
    BY <2>1
<1>2. \A i, j, k \in 1..n : Less(k, j) /\ Less(j, i) => Less(k, i)
  <2> SUFFICES ASSUME NEW i \in 1..n, NEW j \in 1..n, NEW k \in 1..n, Less(k, j), Less(j, i)
               PROVE  Less(k, i)
    OBVIOUS
  <2>1. /\ key[i] \in Int /\ key[j] \in Int /\ key[k] \in Int
        /\ i \in Int /\ j \in Int /\ k \in Int
    OBVIOUS
  <2>2. QED
    BY <2>1
<1>3. \A i \in 1..n : ~Less(i, i)
  <2> SUFFICES ASSUME NEW i \in 1..n PROVE ~Less(i, i)
    OBVIOUS
  <2>1. key[i] \in Int /\ i \in Int
    OBVIOUS
  <2>2. QED
    BY <2>1
<1> HIDE DEF Less
<1>4. \A i \in 1..n : IsFiniteSet(Before(i)) /\ Rank(i) \in 0..n - 1
  <2> SUFFICES ASSUME NEW i \in 1..n PROVE IsFiniteSet(Before(i)) /\ Rank(i) \in 0..n - 1
    OBVIOUS
  <2>1. IsFiniteSet(1..n) /\ Cardinality(1..n) = n
    BY FS_Interval
  <2>2. IsFiniteSet((1..n) \ {i}) /\ Cardinality((1..n) \ {i}) = n - 1
    BY <2>1, FS_RemoveElement
  <2>3. Before(i) \in SUBSET ((1..n) \ {i})
    BY <1>3
  <2> HIDE DEF Before
  <2>4. IsFiniteSet(Before(i)) /\ Cardinality(Before(i)) <= n - 1
    BY <2>2, <2>3, FS_Subset
  <2>5. Cardinality(Before(i)) \in Nat
    BY <2>4, FS_CardinalityType
  <2>6. QED
    BY <2>4, <2>5
<1>5. \A i, j \in 1..n : Less(j, i) => Rank(j) < Rank(i)
  <2> SUFFICES ASSUME NEW i \in 1..n, NEW j \in 1..n, Less(j, i) PROVE Rank(j) < Rank(i)
    OBVIOUS
  <2>1. Before(j) \cup {j} \in SUBSET Before(i)
    BY <1>2
  <2>2. j \notin Before(j)
    BY <1>3
  <2>3. IsFiniteSet(Before(i)) /\ IsFiniteSet(Before(j)) /\ Rank(i) \in Int /\ Rank(j) \in Int
    <3> HIDE DEF Before, Rank
    <3>1. QED
      BY <1>4
  <2> HIDE DEF Before
  <2>4. Cardinality(Before(j) \cup {j}) = Rank(j) + 1
    BY <2>2, <2>3, FS_AddElement
  <2>5. Cardinality(Before(j) \cup {j}) <= Rank(i)
    BY <2>1, <2>3, FS_Subset
  <2>6. QED
    BY <2>3, <2>4, <2>5
<1>6. \A k \in 1..n : \E i \in 1..n : Rank(i) = k - 1
  <2> DEFINE rank == [i \in 1..n |-> Rank(i)]
  <2>1. rank \in Injection(1..n, 0..n - 1)
    <3>0. \A i \in 1..n : Rank(i) \in 0..n - 1
      BY <1>4
    <3> HIDE DEF Rank
    <3>1. rank \in [1..n -> 0..n - 1]
      BY <3>0
    <3>2. ASSUME NEW i \in 1..n, NEW j \in 1..n, rank[i] = rank[j] PROVE i = j
      <4>1. Rank(i) = Rank(j) /\ Rank(i) \in Int
        BY <3>0, <3>2
      <4>2. QED
        BY <1>1, <1>5, <4>1
    <3> HIDE DEF rank
    <3>3. QED
      BY <3>1, <3>2 DEF Injection, IsInjective
  <2>2. /\ IsFiniteSet(1..n) /\ Cardinality(1..n) = n
        /\ IsFiniteSet(0..n - 1) /\ Cardinality(0..n - 1) = n
    BY FS_Interval
  <2>3. rank \in Surjection(1..n, 0..n - 1)
    <3> HIDE DEF rank
    <3>1. QED
      BY <2>1, <2>2, FS_Injection, Zenon
  <2>4. ASSUME NEW k \in 1..n PROVE \E i \in 1..n : Rank(i) = k - 1
    <3>1. k - 1 \in 0..n - 1
      OBVIOUS
    <3>2. \E i \in 1..n : rank[i] = k - 1
      <4> HIDE DEF rank
      <4>1. QED
        BY <2>3, <3>1 DEF Surjection
    <3> HIDE DEF Rank
    <3>3. QED
      BY <3>2
  <2>5. QED
    BY <2>4
<1> DEFINE p == [k \in 1..n |-> CHOOSE i \in 1..n : Rank(i) = k - 1]
<1>7. ASSUME NEW k \in 1..n PROVE p[k] \in 1..n /\ Rank(p[k]) = k - 1
  <2> HIDE DEF Rank
  <2>1. \E i \in 1..n : Rank(i) = k - 1
    BY <1>6
  <2>2. p[k] = CHOOSE i \in 1..n : Rank(i) = k - 1
    OBVIOUS
  <2>3. QED
    BY <2>1, <2>2
<1>8. p \in [1..n -> 1..n]
  <2> HIDE DEF Rank
  <2>1. QED
    BY <1>6
<1>9. StableSort(s, key) = [k \in 1..n |-> s[p[k]]]
  <2>1. StableSort(s, key) = [k \in 1..n |-> s[CHOOSE i \in 1..n : Rank(i) = k - 1]]
    BY DEF StableSort, Less
  <2> HIDE DEF Rank
  <2>2. QED
    BY <2>1
<1>10. ASSUME NEW k \in 1..n, NEW l \in 1..n, k < l PROVE Less(p[k], p[l])
  <2>1. Rank(p[k]) = k - 1 /\ Rank(p[l]) = l - 1 /\ p[k] \in 1..n /\ p[l] \in 1..n
    BY <1>7
  <2> HIDE DEF p, Rank
  <2>2. p[k] # p[l] /\ ~(Rank(p[l]) < Rank(p[k]))
    BY <2>1, <1>10
  <2>3. QED
    BY <2>1, <2>2, <1>1, <1>5
<1>11. QED
  <2> HIDE DEF p
  <2>1. QED
    BY <1>8, <1>9, <1>10 DEF Less, SortedBy

Place(V) == [start : Nat, end : Nat, new : Seq(V)]

(* Within the text, apart, and each one behind the one before it. *)
InOrder(places, n, lines) ==
  /\ \A i \in 1..n : places[i].start <= places[i].end /\ places[i].end <= Len(lines)
  /\ \A i \in 1..n - 1 : places[i].end <= places[i + 1].start
  /\ \A i, j \in 1..n : i < j => places[i].start < places[j].start

Reversed(places, n) == [k \in 1..n |-> places[n + 1 - k]]

(* The hunks of a file in the order opposite to that of their places. *)
LEMMA LastFirstReverses ==
  ASSUME NEW m \in Nat, NEW places, DOMAIN places = 1..m,
         \A i \in 1..m : places[i].start \in Int,
         \A i, j \in 1..m : i < j => places[i].start < places[j].start
  PROVE  LastFirst(places) = Reversed(places, m)
<1> DEFINE key == [i \in 1..m |-> -places[i].start]
           Before(i) == {j \in 1..m : key[j] < key[i] \/ (key[j] = key[i] /\ j < i)}
           p == [k \in 1..m |-> CHOOSE i \in 1..m : Cardinality(Before(i)) = k - 1]
<1>1. LastFirst(places) = [k \in 1..m |-> places[p[k]]]
  BY DEF LastFirst, StableSort
<1>2. ASSUME NEW i \in 1..m PROVE Before(i) = i + 1..m
  <2>1. ASSUME NEW j \in 1..m PROVE j \in Before(i) <=> j > i
    <3>1. key[i] = -places[i].start /\ key[j] = -places[j].start
      OBVIOUS
    <3>2. places[i].start \in Int /\ places[j].start \in Int /\ i \in Int /\ j \in Int
      OBVIOUS
    <3>3. /\ i < j => places[i].start < places[j].start
          /\ j < i => places[j].start < places[i].start
      OBVIOUS
    <3> HIDE DEF key
    <3>4. QED
      BY <3>1, <3>2, <3>3
  <2>2. Before(i) \subseteq 1..m
    OBVIOUS
  <2> HIDE DEF Before
  <2>3. \A j : j \in Before(i) <=> j \in 1..m /\ j > i
    BY <2>1, <2>2
  <2>4. \A j : j \in i + 1..m <=> j \in 1..m /\ j > i
    OBVIOUS
  <2>5. QED
    BY <2>3, <2>4
<1>3. ASSUME NEW i \in 1..m PROVE Cardinality(Before(i)) = m - i
  <2> HIDE DEF Before
  <2>1. QED
    BY <1>2, FS_Interval
<1> HIDE DEF Before
<1>4. ASSUME NEW k \in 1..m PROVE p[k] = m + 1 - k
  <2>1. m + 1 - k \in 1..m /\ Cardinality(Before(m + 1 - k)) = k - 1
    BY <1>3
  <2>2. p[k] \in 1..m /\ Cardinality(Before(p[k])) = k - 1
    BY <2>1
  <2>3. QED
    BY <1>3, <2>2
<1>5. QED
  <2> HIDE DEF p
  <2>1. QED
    BY <1>1, <1>4 DEF Reversed

-----------------------------------------------------------------------------
(* Splicing from the last hunk to the first *)

(* The provers lose themselves in nested concatenations; Join is opaque. *)
Join(a, b) == a \o b

LEMMA JoinThree ==
  ASSUME NEW V, NEW a \in Seq(V), NEW b \in Seq(V), NEW c \in Seq(V)
  PROVE  Join(Join(a, b), c) = Join(a, Join(b, c)) /\ Join(a, b) \in Seq(V)
  BY ConcatAssociative, ConcatProperties DEF Join

LEMMA JoinFour ==
  ASSUME NEW V, NEW a \in Seq(V), NEW b \in Seq(V), NEW c \in Seq(V), NEW d \in Seq(V)
  PROVE  Join(Join(Join(a, b), c), d) = Join(a, Join(b, Join(c, d)))
<1>1. Join(a, b) \in Seq(V) /\ Join(c, d) \in Seq(V)
  BY JoinThree
<1>2. Join(Join(Join(a, b), c), d) = Join(Join(a, b), Join(c, d))
  BY <1>1, JoinThree
<1>3. Join(Join(a, b), Join(c, d)) = Join(a, Join(b, Join(c, d)))
  BY <1>1, JoinThree
<1>4. QED
  BY <1>2, <1>3

(* A splice behind the first e lines, which are those of the file. *)
SplicedTail(V, L, t, written, new, b, s, e, m) ==
  LET tail == SubSeq(L, b + 1, s) \o (new \o t)
  IN  /\ tail \in Seq(V)
      /\ Splice(SubSeq(L, 1, e) \o t, m) = SubSeq(L, 1, b) \o tail
      /\ (written \o SubSeq(L, b + 1, s) \o new) \o t = written \o tail

LEMMA SpliceStep ==
  ASSUME NEW V, NEW L \in Seq(V), NEW t \in Seq(V), NEW written \in Seq(V), NEW new \in Seq(V),
         NEW b \in Nat, NEW s \in Nat, NEW e \in Nat, b <= s, s <= e, e <= Len(L),
         NEW m, m.start = s, m.end = e, m.new = new
  PROVE  SplicedTail(V, L, t, written, new, b, s, e, m)
<1> DEFINE low == SubSeq(L, 1, e)
           D == low \o t
           gap == SubSeq(L, b + 1, s)
           front == SubSeq(L, 1, b)
<1>0. Len(L) \in Nat
  BY LenProperties
<1>1. \A i \in 1..Len(L) : L[i] \in V
  BY ElementOfSeq
<1>2. low \in Seq(V) /\ Len(low) = e /\ \A i \in 1..e : low[i] = L[i]
  <2>1. \A i \in 1..e : L[i] \in V
    BY <1>0, <1>1
  <2>2. QED
    BY <2>1, SubSeqProperties
<1>3. gap \in Seq(V)
  <2>1. \A i \in b + 1..s : L[i] \in V
    BY <1>0, <1>1
  <2>2. QED
    BY <2>1, SubSeqProperties
<1>4. front \in Seq(V) /\ Len(front) = b
  <2>1. \A i \in 1..b : L[i] \in V
    BY <1>0, <1>1
  <2>2. QED
    BY <2>1, SubSeqProperties
<1>5. /\ D \in Seq(V) /\ Len(D) = e + Len(t) /\ Len(t) \in Nat
      /\ \A i \in 1..e + Len(t) : D[i] = IF i <= e THEN low[i] ELSE t[i - e]
  BY <1>2, ConcatProperties, LenProperties
<1>6. SubSeq(D, 1, s) = SubSeq(L, 1, s)
  <2>1. \A i \in 1..s : D[i] = L[i] /\ L[i] \in V
    BY <1>0, <1>1, <1>2, <1>5
  <2> HIDE DEF D
  <2>2. /\ SubSeq(D, 1, s) \in Seq(V) /\ Len(SubSeq(D, 1, s)) = s
        /\ \A i \in 1..s : SubSeq(D, 1, s)[i] = D[i]
    BY <2>1, SubSeqProperties
  <2>3. /\ SubSeq(L, 1, s) \in Seq(V) /\ Len(SubSeq(L, 1, s)) = s
        /\ \A i \in 1..s : SubSeq(L, 1, s)[i] = L[i]
    BY <2>1, SubSeqProperties
  <2>4. QED
    BY <2>1, <2>2, <2>3, SeqEqual
<1>7. SubSeq(D, e + 1, Len(D)) = t
  <2>1. \A i \in 1..Len(t) : D[e + i] = t[i] /\ t[i] \in V
    BY <1>5, ElementOfSeq
  <2>2. \A i \in e + 1..Len(D) : D[i] \in V
    BY <1>5, ElementOfSeq
  <2> HIDE DEF D
  <2>3. /\ SubSeq(D, e + 1, Len(D)) \in Seq(V) /\ Len(SubSeq(D, e + 1, Len(D))) = Len(t)
        /\ \A i \in 1..Len(t) : SubSeq(D, e + 1, Len(D))[i] = D[e + i]
    BY <1>5, <2>2, SubSeqProperties
  <2>4. QED
    BY <2>1, <2>3, SeqEqual
<1>8. SubSeq(L, 1, s) = front \o gap
  <2>1. 1 \in 1..Len(L) + 1 /\ b \in 1 - 1..Len(L) /\ s \in b..Len(L)
    BY <1>0
  <2>2. QED
    BY <2>1, ConcatAdjacentSubSeq
<1>9. Splice(D, m) = SubSeq(D, 1, s) \o new \o SubSeq(D, e + 1, Len(D))
  BY DEF Splice
<1>10. Splice(D, m) = ((front \o gap) \o new) \o t
  <2> HIDE DEF D, front, gap
  <2>1. QED
    BY <1>6, <1>7, <1>8, <1>9
<1> HIDE DEF gap, front, D
<1>11. /\ new \o t \in Seq(V) /\ gap \o (new \o t) \in Seq(V)
       /\ front \o gap \in Seq(V) /\ written \o gap \in Seq(V)
  BY <1>3, <1>4, ConcatProperties
<1>12. ((front \o gap) \o new) \o t = front \o (gap \o (new \o t))
  <2>1. Join(Join(Join(front, gap), new), t) = Join(front, Join(gap, Join(new, t)))
    BY <1>3, <1>4, JoinFour
  <2>2. QED
    BY <2>1 DEF Join
<1>13. ((written \o gap) \o new) \o t = written \o (gap \o (new \o t))
  <2>1. Join(Join(Join(written, gap), new), t) = Join(written, Join(gap, Join(new, t)))
    BY <1>3, JoinFour
  <2>2. QED
    BY <2>1 DEF Join
<1>14. QED
  BY <1>10, <1>11, <1>12, <1>13, Zenon DEF SplicedTail, D, gap, front

LEMMA FunctionIsSeq ==
  ASSUME NEW S, NEW n \in Nat, NEW g \in [1..n -> S]
  PROVE  g \in Seq(S) /\ Len(g) = n
  OBVIOUS

(* Hunks that are put in from the last to the first, each at the place it  *)
(* has in the old text, make the text that is read off from the first to   *)
(* the last.                                                               *)
LEMMA SplicedIsWritten ==
  ASSUME NEW V, NEW lines \in Seq(V), NEW m \in Nat,
         NEW places \in [1..m -> Place(V)], InOrder(places, m, lines),
         NEW order, order = Reversed(places, m)
  PROVE  /\ Len(order) = m
         /\ Spliced(lines, order)[m] = Written(lines, places)
         /\ Written(lines, places) \in Seq(V)
<1> DEFINE P == Place(V)
           End(i) == EndOf(places, i)
           Longer(s, k) == s \o SubSeq(lines, End(k - 1) + 1, places[k].start) \o places[k].new
<1>1. places \in Seq(P) /\ Len(places) = m
  <2>1. places \in [1..m -> P]
    OBVIOUS
  <2> HIDE DEF P
  <2>2. QED
    BY <2>1, FunctionIsSeq
<1>2. order \in Seq(P) /\ Len(order) = m
  <2>1. order \in [1..m -> P]
    BY DEF Reversed
  <2> HIDE DEF P
  <2>2. QED
    BY <2>1, FunctionIsSeq
<1>3. PICK D : SpliceTrace(D, lines, order, m) /\ Spliced(lines, order) = D
  <2>1. Len(order) \in Nat
    BY <1>2
  <2>2. PICK D : SpliceTrace(D, lines, order, Len(order)) /\ Spliced(lines, order) = D
    BY <2>1, SplicedTrace
  <2>3. SpliceTrace(D, lines, order, m)
    BY <1>2, <2>2
  <2>4. QED
    BY <2>2, <2>3
<1>4. PICK f :
        /\ f = [k \in 0..m |-> IF k = 0 THEN <<>> ELSE Longer(f[k - 1], k)]
        /\ Written(lines, places) = f[m] \o SubSeq(lines, End(m) + 1, Len(lines))
  <2>1. Len(places) \in Nat
    BY <1>1
  <2>2. QED
    BY <1>1, <2>1, WrittenTrace
<1>5. Len(lines) \in Nat /\ \A i \in 1..Len(lines) : lines[i] \in V
  BY LenProperties, ElementOfSeq
<1>6. ASSUME NEW i \in 1..m
      PROVE  /\ places[i].start \in Nat /\ places[i].end \in Nat /\ places[i].new \in Seq(V)
             /\ places[i].start <= places[i].end /\ places[i].end <= Len(lines)
             /\ End(i) = places[i].end /\ End(i - 1) \in Nat /\ End(i - 1) <= places[i].start
  <2>1. places[i] \in P
    OBVIOUS
  <2>2. /\ places[i].start \in Nat /\ places[i].end \in Nat /\ places[i].new \in Seq(V)
        /\ places[i].start <= places[i].end /\ places[i].end <= Len(lines)
        /\ End(i) = places[i].end
    BY <2>1 DEF EndOf, InOrder, Place
  <2>3. CASE i = 1
    BY <2>2, <2>3 DEF EndOf
  <2>4. CASE i # 1
    <3>1. i - 1 \in 1..m - 1 /\ i - 1 \in 1..m /\ (i - 1) + 1 = i
      BY <2>4
    <3>2. places[i - 1].end \in Nat /\ places[i - 1].end <= places[(i - 1) + 1].start
      BY <3>1 DEF InOrder, Place
    <3>3. End(i - 1) = places[i - 1].end
      BY <3>1 DEF EndOf
    <3>4. QED
      BY <2>2, <3>1, <3>2, <3>3
  <2>5. QED
    BY <2>3, <2>4
<1>7. End(0) = 0 /\ End(m) \in 0..Len(lines)
  BY <1>5, <1>6 DEF EndOf
<1> HIDE DEF End, P
<1>8. ASSUME NEW i \in 1..m
      PROVE  f[i] = (f[i - 1] \o SubSeq(lines, End(i - 1) + 1, places[i].start)) \o places[i].new
  <2>1. f[i] = Longer(f[i - 1], i)
    <3> HIDE DEF Longer
    <3>1. i \in 0..m /\ i # 0
      OBVIOUS
    <3>2. f = [k \in 0..m |-> IF k = 0 THEN <<>> ELSE Longer(f[k - 1], k)]
      BY <1>4
    <3>3. QED
      BY <3>1, <3>2
  <2>2. QED
    BY <2>1
<1> HIDE DEF Longer
<1>9. f[0] = <<>>
  BY <1>4
<1>10. \A i \in 0..m : f[i] \in Seq(V)
  <2> DEFINE T == {i \in Nat : i <= m => f[i] \in Seq(V)}
  <2>1. 0 \in T
    BY <1>9, EmptySeq
  <2>2. ASSUME NEW n \in T PROVE n + 1 \in T
    <3> SUFFICES ASSUME n + 1 <= m PROVE f[n + 1] \in Seq(V)
      OBVIOUS
    <3> DEFINE i == n + 1
               gap == SubSeq(lines, End(i - 1) + 1, places[i].start)
    <3>1. i \in 1..m /\ i - 1 = n /\ n \in Nat
      OBVIOUS
    <3>2. f[n] \in Seq(V)
      BY <3>1
    <3> HIDE DEF i
    <3>3. gap \in Seq(V)
      <4>0. /\ End(i - 1) \in Nat /\ places[i].start \in Nat /\ places[i].end \in Nat
            /\ places[i].start <= places[i].end /\ places[i].end <= Len(lines)
        BY <1>6, <3>1, Zenon
      <4>1. End(i - 1) \in Nat /\ places[i].start \in Nat /\ places[i].start <= Len(lines)
        BY <1>5, <4>0
      <4>2. \A j \in End(i - 1) + 1..places[i].start : lines[j] \in V
        BY <1>5, <4>1
      <4>3. QED
        BY <4>1, <4>2, SubSeqProperties
    <3>4. f[i] = (f[n] \o gap) \o places[i].new /\ places[i].new \in Seq(V)
      BY <1>6, <1>8, <3>1
    <3> HIDE DEF gap
    <3>5. f[n] \o gap \in Seq(V)
      BY <3>2, <3>3, ConcatProperties
    <3>6. f[i] \in Seq(V)
      BY <3>4, <3>5, ConcatProperties
    <3>7. QED
      BY <3>6 DEF i
  <2> HIDE DEF T
  <2>3. T \in SUBSET Nat
    BY DEF T
  <2>4. T = Nat
    BY <2>1, <2>2, <2>3, CountsUp
  <2>5. ASSUME NEW i \in 0..m PROVE f[i] \in Seq(V)
    <3>1. i \in T /\ i <= m
      BY <2>4
    <3>2. QED
      BY <3>1 DEF T
  <2>6. QED
    BY <2>5
<1> DEFINE Carried(k, t) == /\ D[k] = SubSeq(lines, 1, End(m - k)) \o t
                         /\ f[m - k] \o t = Written(lines, places)
           T == {k \in Nat : k <= m => \E t \in Seq(V) : Carried(k, t)}
<1>11. 0 \in T
  <2> DEFINE t == SubSeq(lines, End(m) + 1, Len(lines))
  <2>1. t \in Seq(V)
    <3>1. \A j \in End(m) + 1..Len(lines) : lines[j] \in V
      BY <1>5, <1>7
    <3>2. QED
      BY <3>1, <1>5, <1>7, SubSeqProperties
  <2>2. D[0] = lines
    BY <1>3 DEF SpliceTrace
  <2>3. lines = SubSeq(lines, 1, End(m)) \o t
    <3>1. SubSeq(lines, 1, Len(lines)) = lines
      BY SubSeqFull
    <3>2. /\ 1 \in 1..Len(lines) + 1 /\ End(m) \in 1 - 1..Len(lines)
          /\ Len(lines) \in End(m)..Len(lines)
      BY <1>5, <1>7
    <3>3. SubSeq(lines, 1, Len(lines)) = SubSeq(lines, 1, End(m)) \o t
      BY <3>2, ConcatAdjacentSubSeq
    <3>4. QED
      BY <3>1, <3>3
  <2>4. Written(lines, places) = f[m] \o t
    BY <1>4
  <2> HIDE DEF t
  <2>5. Carried(0, t)
    <3>1. m - 0 = m
      OBVIOUS
    <3>2. QED
      BY <2>2, <2>3, <2>4, <3>1
  <2> HIDE DEF Carried
  <2>6. QED
    BY <2>1, <2>5
<1>12. ASSUME NEW n \in T PROVE n + 1 \in T
  <2> SUFFICES ASSUME n + 1 <= m PROVE \E t \in Seq(V) : Carried(n + 1, t)
    <3> HIDE DEF Carried
    <3>1. QED
      OBVIOUS
  <2> DEFINE i == m - n
             place == places[i]
             gap == SubSeq(lines, End(i - 1) + 1, place.start)
  <2>1. i \in 1..m /\ n \in Nat /\ n <= m /\ m - (n + 1) = i - 1 /\ i - 1 \in 0..m
    OBVIOUS
  <2>2. PICK t \in Seq(V) : Carried(n, t)
    <3> HIDE DEF Carried
    <3>1. QED
      BY <2>1
  <2> DEFINE tail == gap \o (place.new \o t)
  <2>3. order[n + 1] = place
    BY <2>1 DEF Reversed
  <2>4. D[n + 1] = Splice(D[n], place)
    <3>1. n + 1 \in 0..m /\ n + 1 # 0 /\ (n + 1) - 1 = n
      BY <2>1
    <3> HIDE DEF place
    <3>2. D[n + 1] = Splice(D[(n + 1) - 1], order[n + 1])
      BY <1>3, <3>1 DEF SpliceTrace
    <3>3. QED
      BY <2>3, <3>1, <3>2
  <2>5. /\ place.start \in Nat /\ place.end \in Nat /\ place.new \in Seq(V)
        /\ place.start <= place.end /\ place.end <= Len(lines)
        /\ End(i) = place.end /\ End(i - 1) \in Nat /\ End(i - 1) <= place.start
    BY <1>6, <2>1
  <2>6. f[i - 1] \in Seq(V) /\ f[i] = (f[i - 1] \o gap) \o place.new
    BY <1>8, <1>10, <2>1
  <2> HIDE DEF place
  <2>7. /\ tail \in Seq(V)
        /\ Splice(SubSeq(lines, 1, place.end) \o t, place) = SubSeq(lines, 1, End(i - 1)) \o tail
        /\ (f[i - 1] \o gap \o place.new) \o t = f[i - 1] \o tail
    <3> DEFINE w == f[i - 1]
               b == End(i - 1)
               s == place.start
               e == place.end
               u == place.new
    <3>1. /\ w \in Seq(V) /\ b \in Nat /\ s \in Nat /\ e \in Nat /\ u \in Seq(V)
          /\ b <= s /\ s <= e /\ e <= Len(lines)
      BY <2>5, <2>6
    <3>2. place.start = s /\ place.end = e /\ place.new = u
      OBVIOUS
    <3> HIDE DEF w, b, s, e, u
    <3>3. SplicedTail(V, lines, t, w, u, b, s, e, place)
      BY <3>1, <3>2, SpliceStep, ZenonT(30)
    <3>4. QED
      BY <3>3, Zenon DEF SplicedTail, w, b, s, e, u
  <2>8. /\ D[n] = SubSeq(lines, 1, End(i)) \o t
        /\ f[i] \o t = Written(lines, places)
    BY <2>2
  <2> HIDE DEF gap, tail
  <2>9. D[n + 1] = SubSeq(lines, 1, End(i - 1)) \o tail
    BY <2>4, <2>5, <2>7, <2>8
  <2>10. f[i - 1] \o tail = Written(lines, places)
    BY <2>6, <2>7, <2>8
  <2>11. Carried(n + 1, tail)
    BY <2>1, <2>9, <2>10
  <2> HIDE DEF Carried
  <2>12. QED
    BY <2>7, <2>11
<1>13. T = Nat
  <2> HIDE DEF T
  <2>1. T \in SUBSET Nat
    BY DEF T
  <2>2. QED
    BY <1>11, <1>12, <2>1, CountsUp
<1>14. PICK t \in Seq(V) : Carried(m, t)
  <2>1. m \in T /\ m <= m
    <3> HIDE DEF T
    <3>1. QED
      BY <1>13
  <2> HIDE DEF Carried
  <2>2. QED
    BY <2>1
<1>15. D[m] = t /\ Written(lines, places) = t
  <2>1. D[m] = SubSeq(lines, 1, 0) \o t /\ <<>> \o t = Written(lines, places)
    <3>1. m - m = 0
      OBVIOUS
    <3>2. QED
      BY <1>7, <1>9, <1>14, <3>1
  <2>2. SubSeq(lines, 1, 0) = <<>>
    BY SubSeqEmpty
  <2>3. <<>> \o t = t
    BY ConcatEmptySeq
  <2>4. QED
    BY <2>1, <2>2, <2>3
<1>16. QED
  BY <1>2, <1>3, <1>15

-----------------------------------------------------------------------------
(* apply_update_hunks *)

(* A hunk that matches lies within the text. *)
LEMMA MatchWithin ==
  ASSUME NEW V, NEW lines \in Seq(V), NEW old \in Seq(V), NEW k \in Matches(lines, old)
  PROVE  k \in Nat /\ k + Len(old) <= Len(lines)
<1>1. Len(lines) \in Nat /\ Len(old) \in Nat
  BY LenProperties
<1>2. CASE old = <<>>
  <2>1. Len(old) = 0 /\ k = 0
    BY <1>2, EmptySeq DEF Matches
  <2>2. QED
    BY <1>1, <2>1
<1>3. CASE old # <<>>
  BY <1>1, <1>3 DEF Matches
<1>4. QED
  BY <1>2, <1>3

HunkLists(V, n) == [1..n -> [old : Seq(V), new : Seq(V)]]
WithContext(hunks, n) == \A k \in 1..n - 1 : hunks[k].old # <<>>

(* Hunks that match once, do not overlap and have context, the last of     *)
(* them excepted, begin at different lines.                                *)
LEMMA PlacesInOrder ==
  ASSUME NEW V, NEW lines \in Seq(V), NEW n \in Nat, NEW hunks \in HunkLists(V, n),
         Unique(lines, hunks), Disjoint(Places(lines, hunks)), WithContext(hunks, n)
  PROVE  /\ Places(lines, hunks) \in [1..n -> Place(V)]
         /\ InOrder(Places(lines, hunks), n, lines)
<1> DEFINE from == [i \in 1..n |-> CHOOSE k \in Matches(lines, hunks[i].old) : TRUE]
           matched == [i \in 1..n |->
                        [start |-> from[i], end |-> from[i] + Len(hunks[i].old),
                         new |-> hunks[i].new]]
           places == Places(lines, hunks)
<1>1. places = StableSort(matched, from)
  BY DEF Places, HunkLists
<1>2. Len(lines) \in Nat
  BY LenProperties
<1>3. ASSUME NEW i \in 1..n
      PROVE  /\ hunks[i].old \in Seq(V) /\ hunks[i].new \in Seq(V) /\ Len(hunks[i].old) \in Nat
             /\ from[i] \in Nat /\ from[i] + Len(hunks[i].old) <= Len(lines)
  <2>1. hunks[i] \in [old : Seq(V), new : Seq(V)]
    BY DEF HunkLists
  <2>2. hunks[i].old \in Seq(V) /\ hunks[i].new \in Seq(V) /\ Len(hunks[i].old) \in Nat
    BY <2>1, LenProperties
  <2>3. Matches(lines, hunks[i].old) # {}
    <3>1. Cardinality(Matches(lines, hunks[i].old)) = 1
      BY DEF Unique, HunkLists
    <3>2. Cardinality({}) # 1
      BY FS_EmptySet
    <3>3. QED
      BY <3>1, <3>2, Zenon
  <2>4. from[i] \in Matches(lines, hunks[i].old)
    BY <2>3
  <2> HIDE DEF from
  <2>5. QED
    BY <2>2, <2>4, MatchWithin
<1> HIDE DEF from
<1>4. from \in [1..n -> Int]
  <2>1. from = [i \in 1..n |-> from[i]]
    BY DEF from
  <2>2. QED
    BY <1>3, <2>1
<1>5. ASSUME NEW i \in 1..n
      PROVE  /\ matched[i] \in Place(V) /\ matched[i].start = from[i]
             /\ matched[i].end = from[i] + Len(hunks[i].old)
  BY <1>3 DEF Place
<1> HIDE DEF places
<1>6. PICK p \in [1..n -> 1..n] :
        /\ places = [k \in 1..n |-> matched[p[k]]]
        /\ \A k, l \in 1..n : k < l =>
             from[p[k]] < from[p[l]] \/ (from[p[k]] = from[p[l]] /\ p[k] < p[l])
  <2>1. DOMAIN matched = 1..n
    OBVIOUS
  <2> HIDE DEF matched
  <2>2. PICK p \in [1..n -> 1..n] : SortedBy(p, n, matched, from, StableSort(matched, from))
    BY <1>4, <2>1, StableSortOrder, Zenon
  <2>3. SortedBy(p, n, matched, from, places)
    BY <1>1, <2>2, Zenon
  <2>4. QED
    BY <2>3, Zenon DEF SortedBy
<1>7. ASSUME NEW k \in 1..n
      PROVE  /\ p[k] \in 1..n /\ places[k] = matched[p[k]] /\ places[k] \in Place(V)
             /\ places[k].start = from[p[k]]
             /\ places[k].end = from[p[k]] + Len(hunks[p[k]].old)
  <2>1. p[k] \in 1..n
    OBVIOUS
  <2> HIDE DEF matched
  <2>2. places[k] = matched[p[k]]
    BY <1>6
  <2>3. QED
    BY <1>5, <2>1, <2>2
<1> HIDE DEF matched
<1>8. places \in [1..n -> Place(V)]
  BY <1>6, <1>7
<1>9. \A i \in 1..n : /\ places[i].start \in Nat /\ places[i].end \in Nat
                      /\ places[i].start <= places[i].end /\ places[i].end <= Len(lines)
  <2> SUFFICES ASSUME NEW i \in 1..n
               PROVE  /\ places[i].start \in Nat /\ places[i].end \in Nat
                      /\ places[i].start <= places[i].end /\ places[i].end <= Len(lines)
    OBVIOUS
  <2>1. PICK h \in 1..n :
          places[i].start = from[h] /\ places[i].end = from[h] + Len(hunks[h].old)
    BY <1>7, Zenon
  <2>2. PICK a \in Nat, b \in Nat : a = from[h] /\ b = Len(hunks[h].old) /\ a + b <= Len(lines)
    BY <1>3, Zenon
  <2>3. places[i].start = a /\ places[i].end = a + b
    BY <2>1, <2>2
  <2>4. a \in Nat /\ a + b \in Nat /\ a <= a + b
    OBVIOUS
  <2>5. QED
    BY <2>2, <2>3, <2>4, Zenon
<1>10. ASSUME NEW i \in 1..n - 1 PROVE places[i].end <= places[i + 1].start
  <2>1. Len(places) = n
    BY <1>8, FunctionIsSeq
  <2>2. QED
    BY <2>1 DEF Disjoint, places
<1>11. ASSUME NEW i \in 1..n - 1 PROVE places[i].start < places[i + 1].start
  <2>1. i \in 1..n /\ i + 1 \in 1..n /\ i < i + 1
    OBVIOUS
  <2>2. /\ places[i].start \in Nat /\ places[i].end \in Nat /\ places[i + 1].start \in Nat
        /\ places[i].start <= places[i].end /\ places[i].end <= places[i + 1].start
    BY <1>9, <1>10, <2>1
  <2>3. PICK a \in Nat, b \in Nat, c \in Nat :
          /\ places[i].start = a /\ places[i].end = b /\ places[i + 1].start = c
          /\ a <= b /\ b <= c
    BY <2>2, Zenon
  <2>4. SUFFICES ASSUME a = c PROVE FALSE
    <3>1. a <= b /\ b <= c
      BY <2>3, Zenon
    <3>2. a < c \/ a = c
      BY <3>1
    <3>3. QED
      BY <2>3, <3>2, Zenon
  <2>5. PICK h \in 1..n, g \in 1..n : h = p[i] /\ g = p[i + 1]
    BY <1>7, <2>1, Zenon
  <2>6. from[h] = a /\ from[g] = a /\ b = a + Len(hunks[h].old)
    <3>1. /\ places[i].start = from[p[i]] /\ places[i].end = from[p[i]] + Len(hunks[p[i]].old)
          /\ places[i + 1].start = from[p[i + 1]]
      BY <1>7, <2>1, Zenon
    <3>2. QED
      BY <3>1, <2>3, <2>4, <2>5, Zenon
  <2>7. h < g
    <3>1. from[h] < from[g] \/ (from[h] = from[g] /\ h < g)
      BY <1>6, <2>1, <2>5
    <3>2. QED
      BY <3>1, <2>3, <2>6
  <2>8. hunks[h].old \in Seq(V) /\ Len(hunks[h].old) \in Nat
    BY <1>3, Zenon
  <2>9. PICK l \in Nat : l = Len(hunks[h].old)
    BY <2>8, Zenon
  <2>10. l = 0
    <3>1. a <= b /\ b <= c /\ a = c /\ b = a + l
      BY <2>3, <2>4, <2>6, <2>9, Zenon
    <3>2. QED
      BY <3>1
  <2>11. hunks[h].old = <<>>
    BY <2>8, <2>9, <2>10, EmptySeq
  <2>12. h \in 1..n - 1
    BY <2>7
  <2>13. QED
    BY <2>11, <2>12 DEF WithContext
<1>12. ASSUME NEW i \in 1..n, NEW j \in 1..n, i < j PROVE places[i].start < places[j].start
  <2>1. i \in 1..n - 1 /\ i + 1 \in 1..n
    BY <1>12
  <2>2. places[i].start < places[i + 1].start
    BY <1>11, <2>1
  <2>3. places[i].start \in Nat /\ places[i + 1].start \in Nat /\ places[j].start \in Nat
    BY <1>9, <2>1
  <2>4. CASE j = i + 1
    BY <2>2, <2>4
  <2>5. CASE j # i + 1
    <3>1. i + 1 < j
      BY <2>5, <1>12
    <3>2. places[i + 1].start = from[p[i + 1]] /\ places[j].start = from[p[j]]
      BY <1>7, <2>1
    <3>3. places[i + 1].start < places[j].start \/ places[i + 1].start = places[j].start
      BY <1>6, <2>1, <3>1, <3>2
    <3>4. PICK a \in Nat, b \in Nat, c \in Nat :
            places[i].start = a /\ places[i + 1].start = b /\ places[j].start = c
      BY <2>3, Zenon
    <3>5. QED
      BY <2>2, <3>3, <3>4
  <2>6. QED
    BY <2>4, <2>5
<1>13. InOrder(places, n, lines)
  BY <1>9, <1>10, <1>12 DEF InOrder
<1>14. QED
  BY <1>8, <1>13 DEF places

Chars == Lines \cup {Blank}
TextSet == [lines : Seq(Chars), ended : BOOLEAN]

LEMMA TextTyped ==
  ASSUME NEW l \in Seq(Chars), NEW e \in BOOLEAN
  PROVE  Text(l, e) \in TextSet
<1>1. <<Blank>> \in Seq(Chars)
  BY DEF Chars
<1>2. QED
  BY <1>1 DEF Text, TextSet

(* apply_update_hunks on any text, with any number of hunks that match     *)
(* once, do not overlap and have context (the last of them excepted): the  *)
(* text it makes by splicing from the last hunk to the first is the one    *)
(* that the hunks say, read off from the first line to the last.           *)
THEOREM HunksAsWritten ==
  ASSUME NEW text \in TextSet, NEW n \in Nat, NEW hunks \in HunkLists(Chars, n),
         CanApply(text, hunks), WithContext(hunks, n)
  PROVE  /\ ApplyUpdateHunks(text, hunks) = Replaced(text, hunks)
         /\ Replaced(text, hunks) \in TextSet
<1> DEFINE lines == text.lines
           places == Places(lines, hunks)
           order == LastFirst(places)
<1>1. lines \in Seq(Chars) /\ text.ended \in BOOLEAN
  BY DEF TextSet
<1>2. Unique(lines, hunks) /\ Disjoint(places)
  BY DEF CanApply
<1> HIDE DEF lines
<1>3. places \in [1..n -> Place(Chars)] /\ InOrder(places, n, lines)
  BY <1>1, <1>2, PlacesInOrder, ZenonT(30)
<1> HIDE DEF places
<1>4. order = Reversed(places, n)
  <2>1. DOMAIN places = 1..n
    BY <1>3
  <2>2. \A i \in 1..n : places[i].start \in Int
    BY <1>3 DEF Place
  <2>3. \A i, j \in 1..n : i < j => places[i].start < places[j].start
    BY <1>3 DEF InOrder
  <2>4. QED
    BY <2>1, <2>2, <2>3, LastFirstReverses, ZenonT(30)
<1> HIDE DEF order
<1>5. /\ Len(order) = n
      /\ Spliced(lines, order)[n] = Written(lines, places)
      /\ Written(lines, places) \in Seq(Chars)
  BY <1>1, <1>3, <1>4, SplicedIsWritten
<1> DEFINE result == Written(lines, places)
           ended == text.ended \/ (lines = <<>> /\ result # <<>>)
<1>6. ApplyUpdateHunks(text, hunks) = IF hunks = <<>> THEN text ELSE Text(result, ended)
  <2>1. Spliced(lines, order)[Len(order)] = result
    BY <1>5
  <2>2. QED
    BY <2>1, Zenon DEF ApplyUpdateHunks, lines, places, order
<1>7. Replaced(text, hunks) = IF hunks = <<>> THEN text ELSE Text(result, ended)
  BY Zenon DEF Replaced, lines, places
<1>8. ended \in BOOLEAN
  BY <1>1
<1> HIDE DEF result, ended
<1>9. Text(result, ended) \in TextSet
  BY <1>5, <1>8, TextTyped, Zenon DEF result
<1>10. QED
  BY <1>6, <1>7, <1>9

-----------------------------------------------------------------------------
(* The operations of a patch *)

(* One more operation takes effect on what the ones before it made. *)
LEMMA OneMoreOperation ==
  ASSUME NEW S, NEW list \in Seq(S), NEW op \in S, NEW tree
  PROVE  AsWritten(tree, Append(list, op)) = Effect(AsWritten(tree, list), op)
<1> DEFINE n == Len(list)
           longer == Append(list, op)
<1>1. n \in Nat /\ Len(longer) = n + 1 /\ longer[n + 1] = op /\ \A k \in 1..n : longer[k] = list[k]
  BY LenProperties, AppendProperties
<1> HIDE DEF longer
<1>2. PICK f : EffectTrace(f, tree, list, n) /\ AsWritten(tree, list) = f[n]
  BY <1>1, AsWrittenTrace
<1> HIDE DEF n
<1>3. PICK g : EffectTrace(g, tree, longer, n + 1) /\ AsWritten(tree, longer) = g[n + 1]
  <2>1. Len(longer) \in Nat
    BY <1>1
  <2>2. QED
    BY <1>1, <2>1, AsWrittenTrace
<1> DEFINE T == {k \in Nat : k <= n => f[k] = g[k]}
<1>4. 0 \in T
  BY <1>1, <1>2, <1>3 DEF EffectTrace
<1>5. ASSUME NEW k \in T PROVE k + 1 \in T
  <2> SUFFICES ASSUME k + 1 <= n PROVE f[k + 1] = g[k + 1]
    OBVIOUS
  <2>1. k + 1 \in 0..n /\ k + 1 \in 0..n + 1 /\ k + 1 # 0 /\ (k + 1) - 1 = k /\ k + 1 \in 1..n
    BY <1>1
  <2>2. f[k] = g[k]
    BY <1>1, <2>1
  <2>3. f[k + 1] = Effect(f[k], list[k + 1])
    BY <1>2, <2>1 DEF EffectTrace
  <2>4. g[k + 1] = Effect(g[k], longer[k + 1])
    BY <1>3, <2>1 DEF EffectTrace
  <2>5. QED
    BY <1>1, <2>1, <2>2, <2>3, <2>4
<1>6. T = Nat
  <2>1. T \in SUBSET Nat
    OBVIOUS
  <2> HIDE DEF T
  <2>2. QED
    BY <1>4, <1>5, <2>1, CountsUp
<1>7. f[n] = g[n]
  <2>1. n \in T /\ n <= n
    <3> HIDE DEF T
    <3>1. QED
      BY <1>1, <1>6
  <2>2. QED
    BY <2>1
<1>8. g[n + 1] = Effect(g[n], longer[n + 1])
  <2>1. n + 1 \in 0..n + 1 /\ n + 1 # 0 /\ (n + 1) - 1 = n
    BY <1>1
  <2>2. QED
    BY <1>3, <2>1 DEF EffectTrace
<1>9. AsWritten(tree, longer) = Effect(AsWritten(tree, list), op)
  BY <1>1, <1>2, <1>3, <1>7, <1>8
<1>10. QED
  BY <1>9 DEF longer

LEMMA EffectOf ==
  /\ \A f, p, t : Effect(f, OpAdd(p, t)) = [f EXCEPT ![p] = t]
  /\ \A f, p, h : Effect(f, OpUpdate(p, h)) = [f EXCEPT ![p] = Replaced(f[p], h)]
  /\ \A f, p : Effect(f, OpDelete(p)) = [f EXCEPT ![p] = Missing]
  /\ \A f, p, q : Effect(f, OpMove(p, q)) = [f EXCEPT ![q] = f[p], ![p] = Missing]
  BY DEF Effect, OpAdd, OpUpdate, OpDelete, OpMove

LEMMA NamesOf ==
  /\ \A p, t : NamesIn(OpAdd(p, t)) = {p}
  /\ \A p, h : NamesIn(OpUpdate(p, h)) = {p}
  /\ \A p : NamesIn(OpDelete(p)) = {p}
  /\ \A p, q : NamesIn(OpMove(p, q)) = {p, q}
  BY DEF NamesIn, OpAdd, OpUpdate, OpDelete, OpMove

Operations ==
  [kind : {"add"}, path : Names, text : TextSet]
    \cup [kind : {"update"}, path : Names, hunks : Seq([old : Seq(Chars), new : Seq(Chars)])]
    \cup [kind : {"delete"}, path : Names]
    \cup [kind : {"move"}, path : Names, to : Names]

Staged == [content : FileStates, baseline : FileStates]

(* The files once the patch is committed, if they are these now *)
Baselined(tree) == \A p \in Names : IsStaged(p) => staged[p].baseline = tree[p]
Installed(tree) == [p \in Names |-> IF IsStaged(p) THEN staged[p].content ELSE tree[p]]

(* Whatever the files are when the patch is committed, what is staged is   *)
(* what the patch says of them if they are what it was staged from.        *)
StagingInv ==
  /\ onDisk \in [Names -> FileStates]
  /\ ops \in Seq(Operations)
  /\ ~InsertsFirst =>
       /\ staged \in [Names -> Staged \cup {Missing}]
       /\ \A p \in Names : IsStaged(p) => \E i \in DOMAIN ops : p \in NamesIn(ops[i])
       /\ ~Repeats => \A tree \in [Names -> FileStates] :
                        Baselined(tree) => Installed(tree) = AsWritten(tree, ops)

LEMMA UpToTyped ==
  ASSUME NEW n \in Nat, NEW l \in UpTo(n)
  PROVE  l \in Seq(Chars)
<1>1. PICK k \in 0..n : l \in [1..k -> Lines]
  BY DEF UpTo
<1>2. k \in Nat /\ l \in [1..k -> Chars]
  BY <1>1 DEF Chars
<1>3. QED
  BY <1>2, FunctionIsSeq

LEMMA StatesAreTexts == FileStates = TextSet \cup {Missing}
  BY DEF FileStates, TextSet, Chars

LEMMA StagingInit_Inv == StagingInit => StagingInv
<1> SUFFICES ASSUME StagingInit PROVE StagingInv
  OBVIOUS
<1>1. onDisk \in [Names -> FileStates]
  <2>1. Texts \subseteq TextSet
    <3> SUFFICES ASSUME NEW t \in Texts PROVE t \in TextSet
      OBVIOUS
    <3>1. CASE t = Text(<<>>, FALSE)
      <4>1. <<>> \in Seq(Chars) /\ FALSE \in BOOLEAN
        BY EmptySeq
      <4>2. QED
        BY <3>1, <4>1, TextTyped, Zenon
    <3>2. CASE \E l \in UpTo(MaxLines) \ {<<>>}, e \in BOOLEAN : t = Text(l, e)
      <4>1. PICK l \in UpTo(MaxLines) \ {<<>>}, e \in BOOLEAN : t = Text(l, e)
        BY <3>2
      <4>2. l \in Seq(Chars)
        BY StagingAssumption, UpToTyped
      <4>3. QED
        BY <4>1, <4>2, TextTyped, Zenon
    <3>3. QED
      BY <3>1, <3>2, Zenon DEF Texts
  <2>2. QED
    BY <2>1, StatesAreTexts DEF StagingInit
<1>2. ops \in Seq(Operations) /\ ops = <<>> /\ Len(ops) = 0
  BY EmptySeq DEF StagingInit
<1>3. \A p \in Names : ~IsStaged(p)
  BY DEF StagingInit, IsStaged
<1>4. staged \in [Names -> Staged \cup {Missing}]
  BY DEF StagingInit
<1>5. ASSUME NEW tree \in [Names -> FileStates] PROVE Installed(tree) = AsWritten(tree, ops)
  <2>1. Installed(tree) = tree
    BY <1>3 DEF Installed
  <2>2. AsWritten(tree, ops) = tree
    <3>1. Len(ops) \in Nat
      BY <1>2
    <3>2. PICK f : /\ EffectTrace(f, tree, ops, Len(ops))
                   /\ AsWritten(tree, ops) = f[Len(ops)]
      BY <3>1, AsWrittenTrace
    <3>3. f[0] = tree /\ Len(ops) = 0
      BY <1>2, <3>2 DEF EffectTrace
    <3>4. QED
      BY <3>2, <3>3
  <2>3. QED
    BY <2>1, <2>2
<1>6. QED
  BY <1>1, <1>2, <1>3, <1>4, <1>5 DEF StagingInv

(* An operation more: what held of the patch before still holds. *)
LEMMA ParsedFacts ==
  ASSUME ops \in Seq(Operations), NEW op \in Operations, Parsed(op)
  PROVE  /\ ops' \in Seq(Operations)
         /\ \A i \in DOMAIN ops : i \in DOMAIN ops' /\ ops'[i] = ops[i]
         /\ Len(ops) + 1 \in DOMAIN ops' /\ ops'[Len(ops) + 1] = op
         /\ InsertsFirst => InsertsFirst'
         /\ Repeats => Repeats'
         /\ \A tree : AsWritten(tree, ops') = Effect(AsWritten(tree, ops), op)
         /\ ~Repeats' /\ op.kind # "update" =>
              \A i \in DOMAIN ops : NamesIn(ops[i]) \cap NamesIn(op) = {}
<1> DEFINE n == Len(ops)
<1>1. ops' = Append(ops, op)
  BY DEF Parsed
<1>2. /\ n \in Nat /\ DOMAIN ops = 1..n /\ DOMAIN ops' = 1..n + 1
      /\ ops' \in Seq(Operations) /\ ops'[n + 1] = op /\ \A i \in 1..n : ops'[i] = ops[i]
  <2> HIDE DEF n
  <2>1. n \in Nat /\ DOMAIN ops = 1..n
    BY LenProperties DEF n
  <2>2. /\ ops' \in Seq(Operations) /\ Len(ops') = n + 1
        /\ ops'[n + 1] = op /\ \A i \in 1..n : ops'[i] = ops[i]
    BY <1>1, AppendProperties DEF n
  <2>3. DOMAIN ops' = 1..n + 1
    BY <2>2, LenProperties
  <2>4. QED
    BY <2>1, <2>2, <2>3
<1> HIDE DEF n
<1>3. \A i \in DOMAIN ops : i \in DOMAIN ops' /\ ops'[i] = ops[i]
  BY <1>2
<1>4. ASSUME InsertsFirst PROVE InsertsFirst'
  <2>1. PICK i \in DOMAIN ops : /\ ops[i].kind = "update"
                                /\ \E k \in 1..Len(ops[i].hunks) - 1 : ops[i].hunks[k].old = <<>>
    BY <1>4 DEF InsertsFirst
  <2>2. i \in DOMAIN ops' /\ ops'[i] = ops[i]
    BY <1>3
  <2>3. QED
    BY <2>1, <2>2 DEF InsertsFirst
<1>5. ASSUME Repeats PROVE Repeats'
  <2>1. PICK i \in DOMAIN ops, j \in DOMAIN ops :
          /\ i < j /\ NamesIn(ops[i]) \cap NamesIn(ops[j]) # {}
          /\ ~(ops[i].kind = "update" /\ ops[j].kind = "update")
    BY <1>5 DEF Repeats
  <2>2. i \in DOMAIN ops' /\ ops'[i] = ops[i] /\ j \in DOMAIN ops' /\ ops'[j] = ops[j]
    BY <1>3
  <2>3. QED
    BY <2>1, <2>2 DEF Repeats
<1>6. ASSUME ~Repeats', op.kind # "update", NEW i \in DOMAIN ops
      PROVE  NamesIn(ops[i]) \cap NamesIn(op) = {}
  <2>1. i \in DOMAIN ops' /\ n + 1 \in DOMAIN ops' /\ i < n + 1
    BY <1>2
  <2>2. ops'[i] = ops[i] /\ ops'[n + 1] = op
    BY <1>2
  <2>3. NamesIn(ops'[i]) \cap NamesIn(ops'[n + 1]) = {}
    BY <1>6, <2>1, <2>2 DEF Repeats
  <2>4. QED
    BY <2>2, <2>3
<1>7. \A tree : AsWritten(tree, ops') = Effect(AsWritten(tree, ops), op)
  BY <1>1, OneMoreOperation
<1>8. QED
  BY <1>2, <1>3, <1>4, <1>5, <1>6, <1>7 DEF n

(* What an operation has to do to what is staged *)
LEMMA StagedStep ==
  ASSUME StagingInv, NEW op \in Operations, Parsed(op), UNCHANGED onDisk,
         ~InsertsFirst /\ ~InsertsFirst' =>
           /\ staged' \in [Names -> Staged \cup {Missing}]
           /\ \A p \in Names : IsStaged(p)' => IsStaged(p) \/ p \in NamesIn(op)
           /\ ~Repeats' => \A tree \in [Names -> FileStates] :
                Baselined(tree)' =>
                  Baselined(tree) /\ Installed(tree)' = Effect(Installed(tree), op)
  PROVE  StagingInv'
<1>1. ops \in Seq(Operations) /\ onDisk' \in [Names -> FileStates]
  BY DEF StagingInv
<1>2. /\ ops' \in Seq(Operations)
      /\ \A i \in DOMAIN ops : i \in DOMAIN ops' /\ ops'[i] = ops[i]
      /\ Len(ops) + 1 \in DOMAIN ops' /\ ops'[Len(ops) + 1] = op
      /\ InsertsFirst => InsertsFirst'
      /\ Repeats => Repeats'
      /\ \A tree : AsWritten(tree, ops') = Effect(AsWritten(tree, ops), op)
  BY <1>1, ParsedFacts
<1>3. SUFFICES ASSUME ~InsertsFirst'
               PROVE  /\ staged' \in [Names -> Staged \cup {Missing}]
                      /\ \A p \in Names :
                           IsStaged(p)' => \E i \in DOMAIN ops' : p \in NamesIn(ops'[i])
                      /\ ~Repeats' => \A tree \in [Names -> FileStates] :
                           Baselined(tree)' => Installed(tree)' = AsWritten(tree, ops')
  BY <1>1, <1>2 DEF StagingInv
<1>4. ~InsertsFirst
  BY <1>2, <1>3
<1>5. ASSUME NEW p \in Names, IsStaged(p)' PROVE \E i \in DOMAIN ops' : p \in NamesIn(ops'[i])
  <2>1. CASE IsStaged(p)
    <3>1. PICK i \in DOMAIN ops : p \in NamesIn(ops[i])
      BY <1>4, <2>1 DEF StagingInv
    <3>2. QED
      BY <1>2, <3>1
  <2>2. CASE p \in NamesIn(op)
    BY <1>2, <2>2
  <2>3. QED
    BY <1>3, <1>4, <1>5, <2>1, <2>2
<1>6. ASSUME ~Repeats', NEW tree \in [Names -> FileStates], Baselined(tree)'
      PROVE  Installed(tree)' = AsWritten(tree, ops')
  <2>1. Baselined(tree) /\ Installed(tree)' = Effect(Installed(tree), op)
    BY <1>3, <1>4, <1>6
  <2>2. Installed(tree) = AsWritten(tree, ops)
    BY <1>2, <1>4, <1>6, <2>1 DEF StagingInv
  <2>3. QED
    BY <1>2, <2>1, <2>2
<1>7. QED
  BY <1>3, <1>4, <1>5, <1>6

LEMMA StageFacts ==
  ASSUME NEW c \in FileStates, NEW b \in FileStates
  PROVE  /\ Stage(c, b) \in Staged /\ Stage(c, b) # Missing
         /\ Stage(c, b).content = c /\ Stage(c, b).baseline = b
  BY StagingAssumption DEF Stage, Staged

(* A path that an operation other than an update names is not staged yet. *)
LEMMA FreshNames ==
  ASSUME StagingInv, ~InsertsFirst, NEW op \in Operations, Parsed(op), ~Repeats',
         op.kind # "update", NEW p \in Names, p \in NamesIn(op)
  PROVE  ~IsStaged(p)
<1> SUFFICES ASSUME IsStaged(p) PROVE FALSE
  OBVIOUS
<1>1. PICK i \in DOMAIN ops : p \in NamesIn(ops[i])
  BY DEF StagingInv
<1>2. NamesIn(ops[i]) \cap NamesIn(op) = {}
  BY ParsedFacts DEF StagingInv
<1>3. QED
  BY <1>1, <1>2

(* Staging one path *)
LEMMA StageOne ==
  ASSUME staged \in [Names -> Staged \cup {Missing}], NEW p \in Names,
         NEW c \in FileStates, NEW b \in FileStates,
         staged' = [staged EXCEPT ![p] = Stage(c, b)]
  PROVE  /\ staged' \in [Names -> Staged \cup {Missing}]
         /\ IsStaged(p)' /\ staged'[p].content = c /\ staged'[p].baseline = b
         /\ \A q \in Names \ {p} : staged'[q] = staged[q] /\ (IsStaged(q)' <=> IsStaged(q))
         /\ \A tree : Installed(tree)' = [Installed(tree) EXCEPT ![p] = c]
<1>1. Stage(c, b) \in Staged /\ Stage(c, b) # Missing
  BY StageFacts
<1>2. staged' \in [Names -> Staged \cup {Missing}]
  BY <1>1
<1>3. staged'[p] = Stage(c, b) /\ \A q \in Names \ {p} : staged'[q] = staged[q]
  BY <1>1
<1>4. staged'[p].content = c /\ staged'[p].baseline = b /\ IsStaged(p)'
  BY <1>1, <1>3, StageFacts DEF IsStaged
<1>5. \A q \in Names \ {p} : IsStaged(q)' <=> IsStaged(q)
  BY <1>3 DEF IsStaged
<1>6. ASSUME NEW tree PROVE Installed(tree)' = [Installed(tree) EXCEPT ![p] = c]
  BY <1>3, <1>4, <1>5 DEF Installed
<1>7. QED
  BY <1>2, <1>3, <1>4, <1>5, <1>6

LEMMA StageAdd_Inv ==
  ASSUME StagingInv, NEW p \in Names, NEW lines \in UpTo(1), StageAdd(p, lines)
  PROVE  StagingInv'
<1> DEFINE text == Text(lines, TRUE)
           op == OpAdd(p, text)
<1>1. text \in TextSet
  <2>1. lines \in Seq(Chars) /\ TRUE \in BOOLEAN
    BY UpToTyped
  <2>2. QED
    BY <2>1, TextTyped, Zenon
<1>2. text \in FileStates /\ Missing \in FileStates
  BY <1>1, StatesAreTexts
<1>3. /\ Parsed(op) /\ UNCHANGED onDisk
      /\ staged' = [staged EXCEPT ![p] = Stage(text, Missing)]
  BY DEF StageAdd
<1> HIDE DEF text
<1>4. op \in Operations /\ op.kind = "add"
  BY <1>1 DEF Operations, OpAdd
<1>5. NamesIn(op) = {p} /\ \A f : Effect(f, op) = [f EXCEPT ![p] = text]
  BY NamesOf, EffectOf
<1> HIDE DEF op
<1>6. ASSUME ~InsertsFirst
      PROVE  /\ staged' \in [Names -> Staged \cup {Missing}]
             /\ \A q \in Names : IsStaged(q)' => IsStaged(q) \/ q \in NamesIn(op)
             /\ ~Repeats' => \A tree \in [Names -> FileStates] :
                  Baselined(tree)' =>
                    Baselined(tree) /\ Installed(tree)' = Effect(Installed(tree), op)
  <2>1. staged \in [Names -> Staged \cup {Missing}]
    BY <1>6 DEF StagingInv
  <2>2. /\ staged' \in [Names -> Staged \cup {Missing}]
        /\ \A q \in Names \ {p} : staged'[q] = staged[q] /\ (IsStaged(q)' <=> IsStaged(q))
        /\ \A tree : Installed(tree)' = [Installed(tree) EXCEPT ![p] = text]
    BY <1>2, <1>3, <2>1, StageOne
  <2>3. ASSUME ~Repeats', NEW tree \in [Names -> FileStates], Baselined(tree)'
        PROVE  Baselined(tree) /\ Installed(tree)' = Effect(Installed(tree), op)
    <3>1. op.kind # "update" /\ p \in NamesIn(op)
      BY <1>4, <1>5
    <3>2. ~IsStaged(p)
      BY <1>3, <1>4, <1>6, <2>3, <3>1, FreshNames
    <3>3. Baselined(tree)
      BY <2>2, <2>3, <3>2 DEF Baselined
    <3>4. QED
      BY <1>5, <2>2, <3>3
  <2>4. QED
    BY <1>5, <2>2, <2>3
<1>7. QED
  BY <1>3, <1>4, <1>6, StagedStep

LEMMA StageDelete_Inv ==
  ASSUME StagingInv, NEW p \in Names, StageDelete(p)
  PROVE  StagingInv'
<1> DEFINE op == OpDelete(p)
<1>1. onDisk[p] \in FileStates /\ Missing \in FileStates
  BY StatesAreTexts DEF StagingInv
<1>2. PICK b \in FileStates : b = onDisk[p]
  BY <1>1
<1>3. /\ Parsed(op) /\ UNCHANGED onDisk
      /\ staged' = [staged EXCEPT ![p] = Stage(Missing, b)]
  BY <1>2 DEF StageDelete
<1>4. op \in Operations /\ op.kind = "delete"
  BY DEF Operations, OpDelete
<1>5. NamesIn(op) = {p} /\ \A f : Effect(f, op) = [f EXCEPT ![p] = Missing]
  BY NamesOf, EffectOf
<1> HIDE DEF op
<1>6. ASSUME ~InsertsFirst
      PROVE  /\ staged' \in [Names -> Staged \cup {Missing}]
             /\ \A q \in Names : IsStaged(q)' => IsStaged(q) \/ q \in NamesIn(op)
             /\ ~Repeats' => \A tree \in [Names -> FileStates] :
                  Baselined(tree)' =>
                    Baselined(tree) /\ Installed(tree)' = Effect(Installed(tree), op)
  <2>1. staged \in [Names -> Staged \cup {Missing}]
    BY <1>6 DEF StagingInv
  <2>2. /\ staged' \in [Names -> Staged \cup {Missing}]
        /\ \A q \in Names \ {p} : staged'[q] = staged[q] /\ (IsStaged(q)' <=> IsStaged(q))
        /\ \A tree : Installed(tree)' = [Installed(tree) EXCEPT ![p] = Missing]
    BY <1>1, <1>3, <2>1, StageOne
  <2>3. ASSUME ~Repeats', NEW tree \in [Names -> FileStates], Baselined(tree)'
        PROVE  Baselined(tree) /\ Installed(tree)' = Effect(Installed(tree), op)
    <3>1. op.kind # "update" /\ p \in NamesIn(op)
      BY <1>4, <1>5
    <3>2. ~IsStaged(p)
      BY <1>3, <1>4, <1>6, <2>3, <3>1, FreshNames
    <3>3. Baselined(tree)
      BY <2>2, <2>3, <3>2 DEF Baselined
    <3>4. QED
      BY <1>5, <2>2, <3>3
  <2>4. QED
    BY <1>5, <2>2, <2>3
<1>7. QED
  BY <1>3, <1>4, <1>6, StagedStep

LEMMA HunksTyped ==
  ASSUME NEW n \in 0..MaxHunks, NEW hunks \in [1..n -> Hunks]
  PROVE  /\ n \in Nat /\ hunks \in HunkLists(Chars, n) /\ Len(hunks) = n
         /\ hunks \in Seq([old : Seq(Chars), new : Seq(Chars)])
<1> DEFINE H == [old : Seq(Chars), new : Seq(Chars)]
<1>1. n \in Nat
  BY StagingAssumption
<1>2. Hunks \subseteq H
  <2> SUFFICES ASSUME NEW h \in Hunks PROVE h \in H
    OBVIOUS
  <2>1. h \in [old : UpTo(MaxHunk), new : UpTo(MaxHunk)]
    BY DEF Hunks
  <2>2. UpTo(MaxHunk) \subseteq Seq(Chars)
    BY StagingAssumption, UpToTyped
  <2>3. QED
    BY <2>1, <2>2
<1>3. hunks \in [1..n -> H]
  BY <1>2
<1>4. hunks \in HunkLists(Chars, n)
  BY <1>3 DEF HunkLists
<1> HIDE DEF H
<1>5. hunks \in Seq(H) /\ Len(hunks) = n
  BY <1>1, <1>3, FunctionIsSeq
<1>6. QED
  BY <1>1, <1>4, <1>5 DEF H

LEMMA StageUpdate_Inv ==
  ASSUME StagingInv, NEW p \in Names, NEW n \in 0..MaxHunks, NEW hunks \in [1..n -> Hunks],
         StageUpdate(p, hunks)
  PROVE  StagingInv'
<1> DEFINE op == OpUpdate(p, hunks)
           original == IF IsStaged(p) THEN staged[p].content ELSE onDisk[p]
<1>1. /\ n \in Nat /\ hunks \in HunkLists(Chars, n) /\ Len(hunks) = n
      /\ hunks \in Seq([old : Seq(Chars), new : Seq(Chars)])
  BY HunksTyped
<1>2. /\ Parsed(op) /\ UNCHANGED onDisk /\ original # Missing /\ CanApply(original, hunks)
      /\ staged' = [staged EXCEPT ![p] = Stage(ApplyUpdateHunks(original, hunks), BaselineOf(p))]
  BY DEF StageUpdate
<1>3. op \in Operations /\ op.kind = "update" /\ op.hunks = hunks
  BY <1>1 DEF Operations, OpUpdate
<1>4. NamesIn(op) = {p} /\ \A f : Effect(f, op) = [f EXCEPT ![p] = Replaced(f[p], hunks)]
  BY NamesOf, EffectOf
<1> HIDE DEF op
<1>5. ASSUME ~InsertsFirst, ~InsertsFirst'
      PROVE  /\ staged' \in [Names -> Staged \cup {Missing}]
             /\ \A q \in Names : IsStaged(q)' => IsStaged(q) \/ q \in NamesIn(op)
             /\ ~Repeats' => \A tree \in [Names -> FileStates] :
                  Baselined(tree)' =>
                    Baselined(tree) /\ Installed(tree)' = Effect(Installed(tree), op)
  <2>1. staged \in [Names -> Staged \cup {Missing}] /\ onDisk[p] \in FileStates
    BY <1>5 DEF StagingInv
  <2>2. IsStaged(p) => staged[p].content \in FileStates /\ staged[p].baseline \in FileStates
    BY <2>1 DEF IsStaged, Staged
  <2>3. WithContext(hunks, n)
    <3>1. Len(ops) + 1 \in DOMAIN ops' /\ ops'[Len(ops) + 1] = op
      BY <1>2, <1>3, ParsedFacts DEF StagingInv
    <3>2. ~\E k \in 1..Len(ops'[Len(ops) + 1].hunks) - 1 :
              ops'[Len(ops) + 1].hunks[k].old = <<>>
      BY <1>3, <1>5, <3>1 DEF InsertsFirst
    <3>3. QED
      BY <1>1, <1>3, <3>1, <3>2 DEF WithContext
  <2>4. PICK t \in TextSet : t = original
    BY <1>2, <2>1, <2>2, StatesAreTexts
  <2>5. PICK c \in TextSet : c = ApplyUpdateHunks(original, hunks) /\ c = Replaced(t, hunks)
    <3>1. CanApply(t, hunks)
      BY <1>2, <2>4
    <3>2. ApplyUpdateHunks(t, hunks) = Replaced(t, hunks) /\ Replaced(t, hunks) \in TextSet
      BY <1>1, <2>3, <3>1, HunksAsWritten
    <3>3. QED
      BY <2>4, <3>2
  <2>6. PICK b \in FileStates : b = BaselineOf(p)
    BY <2>1, <2>2 DEF BaselineOf
  <2>7. c \in FileStates /\ staged' = [staged EXCEPT ![p] = Stage(c, b)]
    BY <1>2, <2>5, <2>6, StatesAreTexts
  <2>8. /\ staged' \in [Names -> Staged \cup {Missing}]
        /\ IsStaged(p)' /\ staged'[p].baseline = b
        /\ \A q \in Names \ {p} : staged'[q] = staged[q] /\ (IsStaged(q)' <=> IsStaged(q))
        /\ \A tree : Installed(tree)' = [Installed(tree) EXCEPT ![p] = c]
    BY <2>1, <2>7, StageOne
  <2>9. ASSUME NEW tree \in [Names -> FileStates], Baselined(tree)'
        PROVE  Baselined(tree) /\ Installed(tree)' = Effect(Installed(tree), op)
    <3>1. tree[p] = b
      BY <2>8, <2>9 DEF Baselined
    <3>2. Baselined(tree)
      <4>1. IsStaged(p) => staged[p].baseline = tree[p]
        BY <2>6, <3>1 DEF BaselineOf
      <4>2. ASSUME NEW q \in Names \ {p}, IsStaged(q) PROVE staged[q].baseline = tree[q]
        BY <2>8, <2>9, <4>2 DEF Baselined
      <4>3. QED
        BY <4>1, <4>2 DEF Baselined
    <3>3. Installed(tree)[p] = t
      BY <2>4, <2>6, <3>1 DEF Installed, BaselineOf
    <3>4. QED
      BY <1>4, <2>5, <2>8, <3>2, <3>3
  <2>10. QED
    BY <1>4, <2>8, <2>9
<1>6. QED
  BY <1>2, <1>3, <1>5, StagedStep

LEMMA StageMove_Inv ==
  ASSUME StagingInv, NEW p \in Names, NEW q \in Names, StageMove(p, q)
  PROVE  StagingInv'
<1> DEFINE op == OpMove(p, q)
<1>1. onDisk[p] \in FileStates /\ Missing \in FileStates
  BY StatesAreTexts DEF StagingInv
<1>2. PICK b \in FileStates : b = onDisk[p]
  BY <1>1
<1>3. /\ Parsed(op) /\ UNCHANGED onDisk /\ p # q
      /\ staged' = [staged EXCEPT ![p] = Stage(Missing, b), ![q] = Stage(b, Missing)]
  BY <1>2 DEF StageMove
<1>4. op \in Operations /\ op.kind = "move"
  BY DEF Operations, OpMove
<1>5. NamesIn(op) = {p, q} /\ \A f : Effect(f, op) = [f EXCEPT ![q] = f[p], ![p] = Missing]
  BY NamesOf, EffectOf
<1> HIDE DEF op
<1>6. ASSUME ~InsertsFirst
      PROVE  /\ staged' \in [Names -> Staged \cup {Missing}]
             /\ \A r \in Names : IsStaged(r)' => IsStaged(r) \/ r \in NamesIn(op)
             /\ ~Repeats' => \A tree \in [Names -> FileStates] :
                  Baselined(tree)' =>
                    Baselined(tree) /\ Installed(tree)' = Effect(Installed(tree), op)
  <2>1. staged \in [Names -> Staged \cup {Missing}]
    BY <1>6 DEF StagingInv
  <2>2. /\ Stage(Missing, b) \in Staged /\ Stage(Missing, b) # Missing
        /\ Stage(Missing, b).content = Missing /\ Stage(Missing, b).baseline = b
        /\ Stage(b, Missing) \in Staged /\ Stage(b, Missing) # Missing
        /\ Stage(b, Missing).content = b
    BY <1>1, StageFacts
  <2>3. /\ staged' \in [Names -> Staged \cup {Missing}]
        /\ staged'[p] = Stage(Missing, b) /\ staged'[q] = Stage(b, Missing)
        /\ \A r \in Names \ {p, q} : staged'[r] = staged[r]
    BY <1>3, <2>1, <2>2
  <2>4. /\ IsStaged(p)' /\ IsStaged(q)'
        /\ \A r \in Names \ {p, q} : IsStaged(r)' <=> IsStaged(r)
    BY <2>2, <2>3 DEF IsStaged
  <2>5. ASSUME ~Repeats', NEW tree \in [Names -> FileStates], Baselined(tree)'
        PROVE  Baselined(tree) /\ Installed(tree)' = Effect(Installed(tree), op)
    <3>1. op.kind # "update" /\ p \in NamesIn(op) /\ q \in NamesIn(op)
      BY <1>4, <1>5
    <3>2. ~IsStaged(p)
      BY <1>3, <1>4, <1>6, <2>5, <3>1, FreshNames
    <3>3. ~IsStaged(q)
      BY <1>3, <1>4, <1>6, <2>5, <3>1, FreshNames
    <3>4. Baselined(tree)
      BY <2>3, <2>4, <2>5, <3>2, <3>3 DEF Baselined
    <3>5. tree[p] = b
      BY <2>2, <2>3, <2>4, <2>5 DEF Baselined
    <3>6. /\ Installed(tree)[p] = b
          /\ Installed(tree)' = [Installed(tree) EXCEPT ![q] = b, ![p] = Missing]
      BY <1>3, <2>2, <2>3, <2>4, <3>2, <3>5 DEF Installed
    <3>7. QED
      BY <1>5, <3>4, <3>6
  <2>6. QED
    BY <1>5, <2>3, <2>4, <2>5
<1>7. QED
  BY <1>3, <1>4, <1>6, StagedStep

LEMMA WriteByOther_Inv ==
  ASSUME StagingInv, NEW p \in Names, NEW text \in FileStates, WriteByOther(p, text)
  PROVE  StagingInv'
<1>1. ops' = ops /\ staged' = staged /\ onDisk' = [onDisk EXCEPT ![p] = text]
  BY DEF WriteByOther
<1>2. /\ (InsertsFirst' <=> InsertsFirst) /\ (Repeats' <=> Repeats)
      /\ \A q : IsStaged(q)' <=> IsStaged(q)
      /\ \A tree : /\ Baselined(tree)' <=> Baselined(tree)
                    /\ Installed(tree)' = Installed(tree)
  BY <1>1 DEF InsertsFirst, Repeats, IsStaged, Baselined, Installed
<1>3. onDisk' \in [Names -> FileStates]
  BY <1>1 DEF StagingInv
<1>4. QED
  BY <1>1, <1>2, <1>3 DEF StagingInv

LEMMA StagingUnchanged_Inv ==
  ASSUME StagingInv, UNCHANGED stagingVars
  PROVE  StagingInv'
<1>1. ops' = ops /\ staged' = staged /\ onDisk' = onDisk
  BY DEF stagingVars
<1>2. /\ (InsertsFirst' <=> InsertsFirst) /\ (Repeats' <=> Repeats)
      /\ \A q : IsStaged(q)' <=> IsStaged(q)
      /\ \A tree : /\ Baselined(tree)' <=> Baselined(tree)
                    /\ Installed(tree)' = Installed(tree)
  BY <1>1 DEF InsertsFirst, Repeats, IsStaged, Baselined, Installed
<1>3. QED
  BY <1>1, <1>2 DEF StagingInv

LEMMA StagingNext_Inv == StagingInv /\ [StagingNext]_stagingVars => StagingInv'
<1> SUFFICES ASSUME StagingInv, [StagingNext]_stagingVars PROVE StagingInv'
  OBVIOUS
<1>1. ASSUME NEW p \in Names, NEW lines \in UpTo(1), StageAdd(p, lines) PROVE StagingInv'
  BY <1>1, StageAdd_Inv
<1>2. ASSUME NEW p \in Names, NEW n \in 0..MaxHunks, NEW hunks \in [1..n -> Hunks],
             StageUpdate(p, hunks)
      PROVE  StagingInv'
  BY <1>2, StageUpdate_Inv
<1>3. ASSUME NEW p \in Names, StageDelete(p) PROVE StagingInv'
  BY <1>3, StageDelete_Inv
<1>4. ASSUME NEW p \in Names, NEW q \in Names, StageMove(p, q) PROVE StagingInv'
  BY <1>4, StageMove_Inv
<1>5. ASSUME NEW p \in Names, NEW lines \in UpTo(1), WriteByOther(p, Text(lines, TRUE))
      PROVE  StagingInv'
  <2>1. lines \in Seq(Chars) /\ TRUE \in BOOLEAN
    BY UpToTyped
  <2>2. Text(lines, TRUE) \in TextSet
    BY <2>1, TextTyped, Zenon
  <2>3. Text(lines, TRUE) \in FileStates
    BY <2>2, StatesAreTexts
  <2>4. QED
    BY <1>5, <2>3, WriteByOther_Inv
<1>6. ASSUME NEW p \in Names, WriteByOther(p, Missing) PROVE StagingInv'
  <2>1. Missing \in FileStates
    BY StatesAreTexts
  <2>2. QED
    BY <1>6, <2>1, WriteByOther_Inv
<1>7. CASE UNCHANGED stagingVars
  BY <1>7, StagingUnchanged_Inv
<1>8. QED
  BY <1>1, <1>2, <1>3, <1>4, <1>5, <1>6, <1>7 DEF StagingNext

LEMMA StagingInv_AsWritten == StagingInv => StagedAsWritten
<1> SUFFICES ASSUME StagingInv, ~Repeats, ~InsertsFirst,
                    \A p \in Names : IsStaged(p) => staged[p].baseline = onDisk[p]
             PROVE  [p \in Names |-> IF IsStaged(p) THEN staged[p].content ELSE onDisk[p]]
                      = AsWritten(onDisk, ops)
  BY DEF StagedAsWritten
<1>1. onDisk \in [Names -> FileStates] /\ Baselined(onDisk)
  BY DEF StagingInv, Baselined
<1>2. Installed(onDisk) = AsWritten(onDisk, ops)
  BY <1>1 DEF StagingInv
<1>3. QED
  BY <1>2 DEF Installed

(* However many operations and hunks a patch has, and whoever writes the   *)
(* files while _analyze_patch reads them: what is staged, committed onto   *)
(* unchanged baselines, is what the patch says of the files there.         *)
THEOREM StagingSound == StagingSpec => []StagedAsWritten
<1>1. StagingInit => StagingInv
  BY StagingInit_Inv
<1>2. StagingInv /\ [StagingNext]_stagingVars => StagingInv'
  BY StagingNext_Inv
<1>3. StagingInv => StagedAsWritten
  BY StagingInv_AsWritten
<1>4. QED
  BY <1>1, <1>2, <1>3, PTL DEF StagingSpec
=============================================================================
