------------------------ MODULE GuardedMutationProofs ------------------------
(***************************************************************************)
(* Safety of writer leases and guarded mutations for any number of owners, *)
(* branches, trees and faults and every time to live.  The lease files of  *)
(* WriterLease implement BranchLock.  LeaseHonoured is the inductive core  *)
(* of the mutations: from it follow that two covered writers exclude each  *)
(* other and that a covered writer works on the state its owner last       *)
(* accepted.                                                               *)
(***************************************************************************)
EXTENDS GuardedMutation, TLAPS

-----------------------------------------------------------------------------
(* WriterLease *)

(* Every lease operation keeps the lease records well formed. *)
LEMMA LeaseTypeStep ==
  ASSUME LeaseTypeOK, [LeaseNext]_lease
  PROVE  LeaseTypeOK'
<1> USE TTLAssumption DEF LeaseTypeOK, LeaseRecord
<1>1. ASSUME NEW o \in Owners, NEW B \in SUBSET Branches, AcquireWriterLeases(o, B)
      PROVE  LeaseTypeOK'
  BY <1>1 DEF AcquireWriterLeases, Written
<1>2. ASSUME NEW o \in Owners, NEW B \in SUBSET Branches, NEW W \in SUBSET Branches,
             AcquireInterrupted(o, B, W)
      PROVE  LeaseTypeOK'
  BY <1>2 DEF AcquireInterrupted, Written
<1>3. ASSUME NEW o \in Owners, NEW b \in Branches, ReleaseWriterLease(o, b)
      PROVE  LeaseTypeOK'
  BY <1>3 DEF ReleaseWriterLease, NoLease
<1>4. ASSUME NEW o \in Owners, ReleaseOwnerLeases(o)
      PROVE  LeaseTypeOK'
  BY <1>4 DEF ReleaseOwnerLeases, NoLease
<1>5. CASE LeaseTick
  BY <1>5 DEF LeaseTick, Aged
<1>6. CASE UNCHANGED lease
  BY <1>6
<1> QED
  BY <1>1, <1>2, <1>3, <1>4, <1>5, <1>6 DEF LeaseNext

(* Every record of every lease file names an owner, or nobody, and has     *)
(* between none and all of its time to live left.                          *)
THEOREM LeaseTypeCorrect == LeaseSpec => []LeaseTypeOK
<1>1. LeaseInit => LeaseTypeOK
  BY TTLAssumption DEF LeaseInit, LeaseTypeOK, LeaseRecord, NoLease
<1>2. LeaseTypeOK /\ [LeaseNext]_lease => LeaseTypeOK'
  BY LeaseTypeStep
<1> QED
  BY <1>1, <1>2, PTL DEF LeaseSpec

-----------------------------------------------------------------------------
(* Rewriting the records of W for o, when nobody else holds one of them,   *)
(* grants o the lock of each branch of W.                                  *)
LEMMA WriteIsGrant ==
  ASSUME LeaseTypeOK, NEW o \in Owners, NEW W \in SUBSET Branches,
         Conflicts(o, W) = {}, lease' = Written(o, W)
  PROVE  Lock!Grant(o, W)
<1>1. \A b \in W : Holder[b] \in {Nobody, o}
  BY DEF Conflicts, Holder, Active
<1>2. Holder' = [b \in Branches |-> IF b \in W THEN o ELSE Holder[b]]
  BY TTLAssumption DEF Holder, Active, Written
<1> QED
  BY <1>1, <1>2 DEF Lock!Grant

(* A step that leaves each record either as it was, in what its lock says, *)
(* or not active, frees a set of locks.                                    *)
LEMMA LossIsFree ==
  ASSUME lease' \in [Branches -> LeaseRecord],
         \A b \in Branches : \/ ~Active(b)'
                             \/ Active(b) /\ lease'[b].owner = lease[b].owner
  PROVE  \E B \in SUBSET Branches : Lock!Free(B)
<1> DEFINE B == {b \in Branches : ~Active(b)'}
<1>1. Holder' = [b \in Branches |-> IF b \in B THEN Nobody ELSE Holder[b]]
  BY DEF Holder, Active
<1>2. Lock!Free(B)
  BY <1>1 DEF Lock!Free
<1> QED
  BY <1>2

(* Every lease operation is a grant or a release of branch locks, or invisible. *)
LEMMA LeaseStepIsLockStep ==
  ASSUME LeaseTypeOK, [LeaseNext]_lease
  PROVE  [Lock!LockNext]_Holder
<1>t. lease' \in [Branches -> LeaseRecord]
  BY LeaseTypeStep DEF LeaseTypeOK
<1> USE DEF Lock!LockNext
<1>1. ASSUME NEW o \in Owners, NEW B \in SUBSET Branches, AcquireWriterLeases(o, B)
      PROVE  Lock!LockNext
  BY <1>1, WriteIsGrant DEF AcquireWriterLeases
<1>2. ASSUME NEW o \in Owners, NEW B \in SUBSET Branches, NEW W \in SUBSET Branches,
             AcquireInterrupted(o, B, W)
      PROVE  Lock!LockNext
  <2>1. Conflicts(o, W) = {}
    BY <1>2 DEF AcquireInterrupted, Conflicts
  <2> QED
    BY <1>2, <2>1, WriteIsGrant DEF AcquireInterrupted
<1>3. ASSUME NEW o \in Owners, NEW b \in Branches, ReleaseWriterLease(o, b)
      PROVE  Lock!LockNext
  <2>1. \A c \in Branches : \/ ~Active(c)'
                            \/ Active(c) /\ lease'[c].owner = lease[c].owner
    BY <1>3, <1>t DEF ReleaseWriterLease, NoLease, Active, LeaseTypeOK
  <2> QED
    BY <2>1, <1>t, LossIsFree
<1>4. ASSUME NEW o \in Owners, ReleaseOwnerLeases(o)
      PROVE  Lock!LockNext
  <2>1. \A c \in Branches : \/ ~Active(c)'
                            \/ Active(c) /\ lease'[c].owner = lease[c].owner
    BY <1>4, <1>t DEF ReleaseOwnerLeases, NoLease, Active, LeaseTypeOK
  <2> QED
    BY <2>1, <1>t, LossIsFree
<1>5. CASE LeaseTick
  <2>1. \A c \in Branches : \/ ~Active(c)'
                            \/ Active(c) /\ lease'[c].owner = lease[c].owner
    BY <1>5, <1>t DEF LeaseTick, Aged, Active, LeaseTypeOK, LeaseRecord
  <2> QED
    BY <2>1, <1>t, LossIsFree
<1>6. CASE UNCHANGED lease
  BY <1>6 DEF Holder, Active
<1> QED
  BY <1>1, <1>2, <1>3, <1>4, <1>5, <1>6 DEF LeaseNext

(* The lease files implement the branch lock: in particular an unexpired   *)
(* lease is never taken over, not even through an acquisition that failed  *)
(* half way.                                                               *)
THEOREM LeaseRefinesLock == LeaseSpec => ImplementsBranchLock
<1>1. LeaseInit => Lock!LockInit
  BY DEF LeaseInit, Lock!LockInit, Holder, Active, NoLease
<1>2. LeaseTypeOK /\ [LeaseNext]_lease => [Lock!LockNext]_Holder
  BY LeaseStepIsLockStep
<1> QED
  BY <1>1, <1>2, LeaseTypeCorrect, PTL DEF LeaseSpec, Lock!LockSpec, ImplementsBranchLock

-----------------------------------------------------------------------------
(* GuardedMutation *)

(* Types of the pieces that the actions of an owner change. *)
LEMMA SnapshotType == TypeOK => Snapshot \in Snapshots
BY DEF TypeOK, Snapshot, Snapshots

(* The record of an owner without a call is a call record. *)
LEMMA IdleType == Idle \in OpRecord /\ Idle.kind # "move"
BY TTLAssumption DEF Idle, Call, OpRecord, Kinds, Outcomes

OpOK == /\ op \in [Owners -> OpRecord]
        /\ \A o \in Owners : op[o].kind = "move" => op[o].target \in Branches

(* Noting an outcome keeps the call records well formed. *)
LEMMA OpOutcome ==
  ASSUME OpOK, NEW o \in Owners, NEW x \in Outcomes,
         op' = [op EXCEPT ![o].outcome = x]
  PROVE  OpOK'
BY DEF OpOK, OpRecord

(* Ending a call keeps the call records well formed. *)
LEMMA OpLeave ==
  ASSUME TypeOK, NEW o \in Owners, NEW step \in Steps, Leave(o, step)
  PROVE  /\ pc' \in [Owners -> Steps]
         /\ OpOK'
         /\ intruded' \in [Owners -> SUBSET {"during", "since"}]
BY IdleType DEF TypeOK, OpOK, Leave, Goto

(* The clock keeps the call records well formed. *)
LEMMA OpAged ==
  ASSUME OpOK, op' = [o \in Owners |-> Aged(op[o])]
  PROVE  OpOK'
<1>1. \A r \in OpRecord :
        /\ Aged(r) \in OpRecord
        /\ Aged(r).kind = r.kind /\ Aged(r).target = r.target
  BY TTLAssumption DEF Aged, OpRecord
<1> QED
  BY <1>1 DEF OpOK

(* Every step keeps every variable well typed. *)
LEMMA TypeStep ==
  ASSUME TypeOK, [Next]_vars
  PROVE  TypeOK'
<1> USE TTLAssumption, MaxFaultsAssumption, CallsAssumption
    DEF TypeOK, LeaseTypeOK, Steps
<1>o. OpOK
  BY DEF OpOK
<1>s. Snapshot \in Snapshots
  BY SnapshotType
<1>l. ASSUME NEW o \in Owners, NEW step \in Steps, Leave(o, step)
      PROVE  /\ pc' \in [Owners -> Steps]
             /\ OpOK'
             /\ intruded' \in [Owners -> SUBSET {"during", "since"}]
  BY <1>l, OpLeave
<1>r. ASSUME NEW o \in Owners, ReleaseOwnerLeases(o)
      PROVE  LeaseTypeOK'
  BY <1>r DEF ReleaseOwnerLeases, NoLease, LeaseTypeOK, LeaseRecord
<1>w. ASSUME NEW o \in Owners, NEW B \in SUBSET Branches, lease' = Written(o, B)
      PROVE  LeaseTypeOK'
  BY <1>w DEF Written, LeaseTypeOK, LeaseRecord
<1>b. \A o \in Owners : Leased(o) \in SUBSET Branches
  BY DEF Leased, OpRecord
<1>n. ASSUME NEW O, Intrude(O)
      PROVE  intruded' \in [Owners -> SUBSET {"during", "since"}]
  BY <1>n DEF Intrude
<1>1. ASSUME NEW o \in Owners, EnsureBaseline(o) \/ BindWorkspace(o), UNCHANGED faults
      PROVE  TypeOK'
  BY <1>1, <1>s DEF EnsureBaseline, BindWorkspace, WriteAuthority, repo
<1>2. ASSUME NEW o \in Owners, NEW k \in Calls, NEW t \in Branches \cup {NoBranch},
             NEW e \in Snapshots \cup {NoSnapshot}, Begin(o, k, t, e), UNCHANGED faults
      PROVE  TypeOK'
  <2> DEFINE r == Call(k, head, t, e)
  <2>1. /\ r \in OpRecord
        /\ r.kind = k /\ r.target = t
    BY DEF Call, OpRecord, Kinds, Outcomes
  <2>2. k = "move" => t \in Branches
    BY <1>2 DEF Begin
  <2>3. op' = [op EXCEPT ![o] = r]
    BY <1>2 DEF Begin
  <2>4. OpOK'
    BY <1>o, <2>1, <2>2, <2>3 DEF OpOK
  <2> QED
    BY <1>2, <2>4 DEF Begin, Goto, OpOK, repo
<1>3. ASSUME NEW o \in Owners, ReadAuthority(o), UNCHANGED faults
      PROVE  TypeOK'
  BY <1>3, <1>s DEF ReadAuthority, WriteAuthority, Goto, repo
<1>4. ASSUME NEW o \in Owners, AcquireLeases(o), UNCHANGED faults
      PROVE  TypeOK'
  <2>1. OpOK'
    BY <1>4, <1>o DEF AcquireLeases, OpOK, OpRecord
  <2> QED
    BY <1>4, <1>b, <1>w, <2>1 DEF AcquireLeases, AcquireWriterLeases, Goto, OpOK, repo
<1>5. ASSUME NEW o \in Owners, LeaseConflict(o), UNCHANGED faults
      PROVE  TypeOK'
  BY <1>5, <1>l DEF LeaseConflict, OpOK, repo
<1>6. ASSUME NEW o \in Owners, AcquireFails(o), faults' \in 0..MaxFaults
      PROVE  TypeOK'
  <2>1. LeaseTypeOK'
    BY <1>6, <1>b, <1>w DEF AcquireFails, AcquireInterrupted
  <2> QED
    BY <1>6, <1>l, <2>1 DEF AcquireFails, OpOK, repo
<1>7. ASSUME NEW o \in Owners, Preflight(o), UNCHANGED faults
      PROVE  TypeOK'
  BY <1>7 DEF Preflight, Goto, repo
<1>8. ASSUME NEW o \in Owners, StateDrift(o), UNCHANGED faults
      PROVE  TypeOK'
  BY <1>8, <1>l, <1>r DEF StateDrift, OpOK, repo
<1>9. ASSUME NEW o \in Owners, PreflightFails(o), faults' \in 0..MaxFaults
      PROVE  TypeOK'
  BY <1>9, <1>l, <1>r DEF PreflightFails, OpOK, repo
<1>10. ASSUME NEW o \in Owners, CallbackStep(o), UNCHANGED faults
       PROVE  TypeOK'
  <2>1. head' \in Branches /\ tree' \in Trees
    BY <1>10 DEF CallbackStep, Change, OpRecord, Kinds
  <2>2. intruded' \in [Owners -> SUBSET {"during", "since"}]
    BY <1>10, <1>n DEF CallbackStep
  <2>3. OpOK'
    BY <1>10, <1>o, OpOutcome DEF CallbackStep, Outcomes
  <2> QED
    BY <1>10, <2>1, <2>2, <2>3 DEF CallbackStep, OpOK
<1>11. ASSUME NEW o \in Owners, CallbackEnds(o) \/ ExecEnds(o), UNCHANGED faults
       PROVE  TypeOK'
  <2>1. OpOK'
    BY <1>11, <1>o, OpOutcome DEF CallbackEnds, ExecEnds, Outcomes
  <2> QED
    BY <1>11, <2>1 DEF CallbackEnds, ExecEnds, Goto, OpOK, repo
<1>12. ASSUME NEW o \in Owners, StateAfter(o), UNCHANGED faults
       PROVE  TypeOK'
  BY <1>12, <1>s DEF StateAfter, WriteAuthority, Goto, repo
<1>13. ASSUME NEW o \in Owners, StateAfterFails(o), faults' \in 0..MaxFaults
       PROVE  TypeOK'
  <2>1. OpOK'
    BY <1>13, <1>o, OpOutcome DEF StateAfterFails, Outcomes
  <2> QED
    BY <1>13, <2>1 DEF StateAfterFails, Goto, OpOK, repo
<1>14. ASSUME NEW o \in Owners, Release(o), UNCHANGED faults
       PROVE  TypeOK'
  BY <1>14, <1>l, <1>r DEF Release, OpOK, repo
<1>15. ASSUME NEW o \in Owners, ReconcileApplied(o), UNCHANGED faults
       PROVE  TypeOK'
  BY <1>15, <1>s DEF ReconcileApplied, WriteAuthority, Goto, repo
<1>16. ASSUME NEW o \in Owners, ReconcileNotApplied(o), UNCHANGED faults
       PROVE  TypeOK'
  BY <1>16 DEF ReconcileNotApplied, Goto, repo
<1>17. ASSUME NEW o \in Owners, Crash(o), faults' \in 0..MaxFaults
       PROVE  TypeOK'
  BY <1>17, <1>l DEF Crash, OpOK, repo
<1>18. ASSUME External, faults' \in 0..MaxFaults
       PROVE  TypeOK'
  BY <1>18, <1>n DEF External
<1>19. CASE Tick
  <2>1. LeaseTypeOK'
    BY <1>19, SMTT(40) DEF Tick, LeaseTick, Aged, LeaseTypeOK, LeaseRecord
  <2>2. OpOK'
    BY <1>19, <1>o, OpAged DEF Tick
  <2> QED
    BY <1>19, <2>1, <2>2 DEF Tick, OpOK, repo
<1>20. CASE UNCHANGED vars
  BY <1>20 DEF vars, repo
<1>21. Fault => faults' \in 0..MaxFaults
  BY DEF Fault
<1> QED
  BY <1>1, <1>2, <1>3, <1>4, <1>5, <1>6, <1>7, <1>8, <1>9, <1>10, <1>11, <1>12,
     <1>13, <1>14, <1>15, <1>16, <1>17, <1>18, <1>19, <1>20, <1>21
  DEF Next, OwnerStep, ClientStep, Fault

(* The variables of a guarded mutation keep their types. *)
THEOREM TypeCorrect == Spec => []TypeOK
<1>1. Init => TypeOK
  BY TTLAssumption, MaxFaultsAssumption, IdleType
  DEF Init, TypeOK, LeaseInit, LeaseTypeOK, LeaseRecord, NoLease, Steps
<1>2. TypeOK /\ [Next]_vars => TypeOK'
  BY TypeStep
<1> QED
  BY <1>1, <1>2, PTL DEF Spec

-----------------------------------------------------------------------------
(* The leases: what every step of a guarded call does to the lease files.  *)

(* Every step of a guarded call does to the lease files what one lease operation does. *)
LEMMA StepOnLeases ==
  ASSUME TypeOK, [Next]_vars
  PROVE  [LeaseNext]_lease
<1>b. \A o \in Owners : Leased(o) \in SUBSET Branches
  BY DEF TypeOK, Leased, OpRecord
<1>1. ASSUME NEW o \in Owners, AcquireLeases(o)
      PROVE  LeaseNext
  BY <1>1, <1>b DEF AcquireLeases, LeaseNext
<1>2. ASSUME NEW o \in Owners, AcquireFails(o)
      PROVE  LeaseNext
  BY <1>2, <1>b DEF AcquireFails, LeaseNext
<1>3. ASSUME NEW o \in Owners, StateDrift(o) \/ PreflightFails(o) \/ Release(o)
      PROVE  LeaseNext
  BY <1>3 DEF StateDrift, PreflightFails, Release, LeaseNext
<1>4. Tick => LeaseNext
  BY DEF Tick, LeaseNext
<1>5. ASSUME NEW o \in Owners,
             \/ EnsureBaseline(o) \/ BindWorkspace(o) \/ ReadAuthority(o) \/ LeaseConflict(o)
             \/ Preflight(o) \/ CallbackStep(o) \/ CallbackEnds(o) \/ ExecEnds(o)
             \/ StateAfter(o) \/ StateAfterFails(o) \/ ReconcileApplied(o)
             \/ ReconcileNotApplied(o) \/ Crash(o)
             \/ \E k \in Calls, t \in Branches \cup {NoBranch},
                   e \in Snapshots \cup {NoSnapshot} : Begin(o, k, t, e)
      PROVE  UNCHANGED lease
  BY <1>5 DEF EnsureBaseline, BindWorkspace, ReadAuthority, LeaseConflict, Preflight, CallbackStep,
     CallbackEnds, ExecEnds, StateAfter, StateAfterFails, ReconcileApplied,
     ReconcileNotApplied, Crash, Begin
<1>6. External => UNCHANGED lease
  BY DEF External
<1>7. UNCHANGED vars => UNCHANGED lease
  BY DEF vars
<1> QED
  BY <1>1, <1>2, <1>3, <1>4, <1>5, <1>6, <1>7 DEF Next, OwnerStep, ClientStep, Fault

(* Guarded calls, with all their failures and crashes, use the lease files *)
(* as a branch lock.                                                       *)
THEOREM GuardedCallsKeepLock == Spec => ImplementsBranchLock
<1>1. Init => Lock!LockInit
  BY DEF Init, LeaseInit, Lock!LockInit, Holder, Active, NoLease
<1>2. TypeOK /\ [Next]_vars => [Lock!LockNext]_Holder
  BY StepOnLeases, LeaseStepIsLockStep DEF TypeOK
<1> QED
  BY <1>1, <1>2, TypeCorrect, PTL DEF Spec, Lock!LockSpec, ImplementsBranchLock

-----------------------------------------------------------------------------
(* A call that has acquired its leases and whose time is not up. *)
Holding(o) ==
  /\ pc[o] \in {"snapshot", "callback", "after", "release"}
  /\ op[o].left > 0

(* What identifies the leases of o is as it was. *)
SameLeases(o) ==
  /\ op'[o].left = op[o].left
  /\ op'[o].branch = op[o].branch
  /\ op'[o].target = op[o].target

(* LeaseHonoured in terms of the calls that hold leases. *)
LEMMA HonouredAlt ==
  LeaseHonoured <=>
    \A o \in Owners : Holding(o) =>
      \A b \in Leased(o) : lease[b] = [owner |-> o, left |-> op[o].left]
BY DEF LeaseHonoured, Holding, InCharge

(* The same in the next state. *)
LEMMA HonouredAltPrime ==
  LeaseHonoured' <=>
    \A o \in Owners : Holding(o)' =>
      \A b \in Leased(o)' : lease'[b] = [owner |-> o, left |-> op'[o].left]
BY DEF LeaseHonoured, Holding, InCharge

(* Steps of o that leave the leases and the other calls alone. *)
LEMMA HonouredFrame ==
  ASSUME LeaseHonoured, UNCHANGED lease,
         \A p \in Owners : Holding(p)' => Holding(p) /\ SameLeases(p)
  PROVE  LeaseHonoured'
BY HonouredAlt, HonouredAltPrime DEF SameLeases, Leased

(* Steps in which o gives up its leases and returns. *)
LEMMA HonouredRelease ==
  ASSUME TypeOK, LeaseHonoured, NEW o \in Owners, ReleaseOwnerLeases(o), Leave(o, "idle")
  PROVE  LeaseHonoured'
<1> SUFFICES ASSUME NEW p \in Owners, Holding(p)', NEW b \in Leased(p)'
             PROVE  lease'[b] = [owner |-> p, left |-> op'[p].left]
  BY HonouredAltPrime
<1>1. p # o
  BY DEF Leave, Goto, Holding, TypeOK
<1>2. Holding(p) /\ op'[p] = op[p] /\ b \in Leased(p)
  BY <1>1 DEF Leave, Goto, Holding, TypeOK, Leased
<1>3. lease[b] = [owner |-> p, left |-> op[p].left]
  BY <1>2, HonouredAlt
<1>4. b \in Branches
  BY <1>2 DEF TypeOK, OpRecord, Leased
<1> QED
  BY <1>1, <1>2, <1>3, <1>4 DEF ReleaseOwnerLeases

(* Rewriting records that are in nobody else's way. *)
LEMMA HonouredOthers ==
  ASSUME TypeOK, LeaseHonoured, NEW o \in Owners, NEW W \in SUBSET Branches,
         Conflicts(o, W) = {}, lease' = Written(o, W),
         NEW p \in Owners, p # o, Holding(p), NEW b \in Leased(p)
  PROVE  lease'[b] = [owner |-> p, left |-> op[p].left]
<1>1. lease[b] = [owner |-> p, left |-> op[p].left]
  BY HonouredAlt
<1>2. b \in Branches
  BY DEF TypeOK, OpRecord, Leased
<1>3. b \notin W
  BY <1>1 DEF Conflicts, Active, Holding
<1> QED
  BY <1>1, <1>2, <1>3 DEF Written

(* No step takes away or overwrites the unexpired leases of a call. *)
LEMMA HonouredStep ==
  ASSUME TypeOK, LeaseHonoured, [Next]_vars
  PROVE  LeaseHonoured'
<1>b. \A o \in Owners : Leased(o) \in SUBSET Branches
  BY DEF TypeOK, Leased, OpRecord
<1>1. ASSUME NEW o \in Owners, AcquireLeases(o)
      PROVE  LeaseHonoured'
  <2> SUFFICES ASSUME NEW p \in Owners, Holding(p)', NEW b \in Leased(p)'
               PROVE  lease'[b] = [owner |-> p, left |-> op'[p].left]
    BY HonouredAltPrime
  <2>1. /\ lease' = Written(o, Leased(o)) /\ Conflicts(o, Leased(o)) = {}
        /\ op' = [op EXCEPT ![o].left = TTL] /\ pc' = [pc EXCEPT ![o] = "snapshot"]
    BY <1>1 DEF AcquireLeases, AcquireWriterLeases, Goto
  <2>2. Leased(p)' = Leased(p)
    BY <2>1 DEF Leased, TypeOK, OpRecord
  <2>3. CASE p = o
    BY <2>1, <2>2, <2>3, <1>b DEF Written, TypeOK, OpRecord
  <2>4. CASE p # o
    <3>1. op'[p] = op[p] /\ Holding(p)
      BY <2>1, <2>4 DEF Holding, TypeOK
    <3> QED
      BY <2>1, <2>2, <2>4, <3>1, <1>b, HonouredOthers
  <2> QED
    BY <2>3, <2>4
<1>2. ASSUME NEW o \in Owners, AcquireFails(o)
      PROVE  LeaseHonoured'
  <2> SUFFICES ASSUME NEW p \in Owners, Holding(p)', NEW b \in Leased(p)'
               PROVE  lease'[b] = [owner |-> p, left |-> op'[p].left]
    BY HonouredAltPrime
  <2>1. PICK W \in SUBSET Leased(o) : AcquireInterrupted(o, Leased(o), W)
    BY <1>2 DEF AcquireFails
  <2>2. Conflicts(o, W) = {} /\ lease' = Written(o, W) /\ W \in SUBSET Branches
    BY <2>1, <1>b DEF AcquireInterrupted, Conflicts
  <2>3. p # o /\ op'[p] = op[p] /\ Holding(p) /\ b \in Leased(p)
    BY <1>2 DEF AcquireFails, Leave, Goto, Holding, TypeOK, Leased
  <2> QED
    BY <2>2, <2>3, HonouredOthers
<1>3. ASSUME NEW o \in Owners, StateDrift(o) \/ PreflightFails(o) \/ Release(o)
      PROVE  LeaseHonoured'
  BY <1>3, HonouredRelease DEF StateDrift, PreflightFails, Release
<1>4. CASE Tick
  <2> SUFFICES ASSUME NEW p \in Owners, Holding(p)', NEW b \in Leased(p)'
               PROVE  lease'[b] = [owner |-> p, left |-> op'[p].left]
    BY HonouredAltPrime
  <2>1. op'[p] = Aged(op[p]) /\ pc' = pc /\ lease' = [c \in Branches |-> Aged(lease[c])]
    BY <1>4 DEF Tick, LeaseTick
  <2>2. /\ Holding(p) /\ b \in Leased(p)
        /\ op'[p].left = op[p].left - 1
    BY <2>1 DEF Holding, Leased, Aged, TypeOK, OpRecord
  <2>3. lease[b] = [owner |-> p, left |-> op[p].left] /\ b \in Branches
    BY <2>2, <1>b, HonouredAlt
  <2>4. Aged([owner |-> p, left |-> op[p].left]) = [owner |-> p, left |-> op[p].left - 1]
    BY <2>2 DEF Aged, Holding
  <2> QED
    BY <2>1, <2>2, <2>3, <2>4
<1>5. ASSUME NEW o \in Owners,
             \/ EnsureBaseline(o) \/ BindWorkspace(o) \/ ReadAuthority(o) \/ Preflight(o)
             \/ StateAfter(o) \/ ReconcileApplied(o) \/ ReconcileNotApplied(o)
      PROVE  LeaseHonoured'
  BY <1>5, HonouredFrame DEF EnsureBaseline, BindWorkspace, ReadAuthority, Preflight, StateAfter,
     ReconcileApplied, ReconcileNotApplied, Goto, Holding, SameLeases, TypeOK
<1>6. ASSUME NEW o \in Owners, LeaseConflict(o) \/ Crash(o)
      PROVE  LeaseHonoured'
  BY <1>6, HonouredFrame DEF LeaseConflict, Crash, Leave, Goto, Holding, SameLeases, TypeOK
<1>7. ASSUME NEW o \in Owners,
             CallbackStep(o) \/ CallbackEnds(o) \/ ExecEnds(o) \/ StateAfterFails(o)
      PROVE  LeaseHonoured'
  <2>1. PICK x : op' = [op EXCEPT ![o].outcome = x]
    BY <1>7 DEF CallbackStep, CallbackEnds, ExecEnds, StateAfterFails
  <2>2. \A p \in Owners : SameLeases(p)
    BY <2>1 DEF SameLeases, TypeOK, OpRecord
  <2>3. /\ UNCHANGED lease
        /\ \A p \in Owners : pc'[p] \in {"after", "release"} => pc[p] \in {"callback", "after", "release"}
        /\ \A p \in Owners : pc'[p] \in {"snapshot", "callback"} => pc[p] = pc'[p]
    BY <1>7 DEF CallbackStep, CallbackEnds, ExecEnds, StateAfterFails, Goto, TypeOK
  <2> QED
    BY <2>2, <2>3, HonouredFrame DEF Holding, SameLeases
<1>8. ASSUME NEW o \in Owners, NEW k \in Calls, NEW t \in Branches \cup {NoBranch},
             NEW e \in Snapshots \cup {NoSnapshot}, Begin(o, k, t, e)
      PROVE  LeaseHonoured'
  BY <1>8, HonouredFrame DEF Begin, Goto, Holding, SameLeases, TypeOK
<1>9. CASE External
  BY <1>9, HonouredFrame DEF External, Holding, SameLeases
<1>10. CASE UNCHANGED vars
  BY <1>10, HonouredFrame DEF vars, Holding, SameLeases
<1> QED
  BY <1>1, <1>2, <1>3, <1>4, <1>5, <1>6, <1>7, <1>8, <1>9, <1>10
  DEF Next, OwnerStep, ClientStep, Fault

(* An unexpired lease is honoured: whatever other owners, crashes and      *)
(* failed writes do, its records stay on disk under its owner's name.      *)
THEOREM LeasesAreHonoured == Spec => []LeaseHonoured
<1>1. Init => LeaseHonoured
  BY HonouredAlt DEF Init, Holding
<1>2. TypeOK /\ LeaseHonoured /\ [Next]_vars => LeaseHonoured'
  BY HonouredStep
<1> QED
  BY <1>1, <1>2, TypeCorrect, PTL DEF Spec

(* Two calls that are covered for the branch checked out are the same call. *)
LEMMA Exclusion ==
  ASSUME LeaseHonoured, NEW o \in Owners, NEW p \in Owners,
         Legitimate(o), Legitimate(p)
  PROVE  o = p
<1>1. lease[head].owner = o
  <2>1. Holding(o) /\ head \in Leased(o)
    BY DEF Legitimate, InCharge, Holding
  <2>2. lease[head] = [owner |-> o, left |-> op[o].left]
    BY <2>1, LeaseHonoured, HonouredAlt
  <2> QED
    BY <2>2
<1>2. lease[head].owner = p
  <2>1. Holding(p) /\ head \in Leased(p)
    BY DEF Legitimate, InCharge, Holding
  <2>2. lease[head] = [owner |-> p, left |-> op[p].left]
    BY <2>1, LeaseHonoured, HonouredAlt
  <2> QED
    BY <2>2
<1> QED
  BY <1>1, <1>2

(* Two calls never both work past their preflight on a branch that both    *)
(* their unexpired leases cover.                                           *)
THEOREM WritersExclude == Spec => []ExclusiveWriters
<1>1. LeaseHonoured => ExclusiveWriters
  BY Exclusion DEF ExclusiveWriters
<1> QED
  BY <1>1, LeasesAreHonoured, PTL

-----------------------------------------------------------------------------
(* A covered writer works on the state its owner last accepted. *)

(* Nothing has been recorded for a call that is still in its preflight. *)
Unrecorded ==
  \A o \in Owners : pc[o] \in {"authority", "lease", "snapshot"} =>
                      op[o].outcome = "started"

(* No call gets an outcome before its preflight is over. *)
LEMMA UnrecordedStep ==
  ASSUME TypeOK, Unrecorded, [Next]_vars
  PROVE  Unrecorded'
<1> USE DEF Unrecorded, TypeOK, Goto
<1>1. ASSUME NEW o \in Owners,
             \/ EnsureBaseline(o) \/ BindWorkspace(o) \/ ReadAuthority(o) \/ Preflight(o)
             \/ StateAfter(o) \/ ReconcileApplied(o) \/ ReconcileNotApplied(o)
      PROVE  Unrecorded'
  BY <1>1 DEF EnsureBaseline, BindWorkspace, ReadAuthority, Preflight, StateAfter, ReconcileApplied,
     ReconcileNotApplied
<1>2. ASSUME NEW o \in Owners, AcquireLeases(o)
      PROVE  Unrecorded'
  BY <1>2 DEF AcquireLeases, OpRecord
<1>3. ASSUME NEW o \in Owners, Leave(o, "idle") \/ Leave(o, "dead")
      PROVE  Unrecorded'
  BY <1>3 DEF Leave
<1>4. ASSUME NEW o \in Owners,
             CallbackStep(o) \/ CallbackEnds(o) \/ ExecEnds(o) \/ StateAfterFails(o)
      PROVE  Unrecorded'
  BY <1>4 DEF CallbackStep, CallbackEnds, ExecEnds, StateAfterFails
<1>5. ASSUME NEW o \in Owners, NEW k \in Calls, NEW t \in Branches \cup {NoBranch},
             NEW e \in Snapshots \cup {NoSnapshot}, Begin(o, k, t, e)
      PROVE  Unrecorded'
  BY <1>5 DEF Begin, Call
<1>6. CASE External
  BY <1>6 DEF External
<1>7. CASE Tick
  BY <1>7 DEF Tick, Aged, OpRecord
<1>8. CASE UNCHANGED vars
  BY <1>8 DEF vars
<1> QED
  BY <1>1, <1>2, <1>3, <1>4, <1>5, <1>6, <1>7, <1>8
  DEF Next, OwnerStep, ClientStep, Fault, LeaseConflict, AcquireFails, StateDrift,
      PreflightFails, Release, Crash

(* WriterSeesOwnState for one owner. *)
SeesOwnState(o) ==
  Legitimate(o) /\ intruded[o] = {} =>
    /\ pc[o] = "callback" /\ op[o].outcome = "started" => Snapshot = authority[o]
    /\ pc[o] = "release" /\ op[o].outcome \in {"success", "error"} =>
         Snapshot = authority[o]

(* A step that leaves p, its checkpoint and the checkout alone changes nothing for p. *)
LEMMA OwnStateFrame ==
  ASSUME NEW p \in Owners, SeesOwnState(p), UNCHANGED repo,
         pc'[p] = pc[p], intruded'[p] = intruded[p], authority'[p] = authority[p],
         op'[p].outcome = op[p].outcome, op'[p].branch = op[p].branch,
         op'[p].target = op[p].target, op'[p].left > 0 => op[p].left > 0
  PROVE  SeesOwnState(p)'
BY DEF SeesOwnState, Legitimate, InCharge, Leased, Snapshot, repo

(* Every step of o that is not a change to the checkout. *)
LEMMA OwnStateQuiet ==
  ASSUME TypeOK, Unrecorded, NEW o \in Owners, NEW p \in Owners, SeesOwnState(p),
         \/ OwnerStep(o) \/ EnsureBaseline(o) \/ BindWorkspace(o) \/ Crash(o) \/ AcquireFails(o)
         \/ PreflightFails(o) \/ StateAfterFails(o)
         \/ \E k \in Calls, t \in Branches \cup {NoBranch},
               e \in Snapshots \cup {NoSnapshot} : Begin(o, k, t, e)
  PROVE  SeesOwnState(p)'
<1> USE DEF TypeOK, Goto
<1>1. CASE p # o
  <2>1. /\ UNCHANGED repo
        /\ pc'[p] = pc[p] /\ op'[p] = op[p]
        /\ intruded'[p] = intruded[p] /\ authority'[p] = authority[p]
    BY <1>1 DEF OwnerStep, EnsureBaseline, BindWorkspace, Crash, AcquireFails, PreflightFails,
       StateAfterFails, Begin, ReadAuthority, AcquireLeases, LeaseConflict, Preflight,
       StateDrift, CallbackEnds, ExecEnds, StateAfter, ReconcileApplied,
       ReconcileNotApplied, Release, WriteAuthority, Leave
  <2> QED
    BY <2>1, OwnStateFrame
<1>2. CASE p = o
  <2>1. ASSUME pc'[o] \notin {"callback", "release"}
        PROVE  SeesOwnState(p)'
    BY <2>1, <1>2 DEF SeesOwnState
  <2>2. ASSUME Preflight(o)
        PROVE  SeesOwnState(p)'
    BY <2>2, <1>2 DEF Preflight, SeesOwnState, Snapshot, repo
  <2>3. ASSUME StateAfter(o) \/ ReconcileApplied(o)
        PROVE  SeesOwnState(p)'
    BY <2>3, <1>2 DEF StateAfter, ReconcileApplied, WriteAuthority, SeesOwnState,
       Snapshot, repo
  <2>4. ASSUME ReconcileNotApplied(o)
        PROVE  SeesOwnState(p)'
    BY <2>4, <1>2 DEF ReconcileNotApplied, SeesOwnState, Unrecorded
  <2>5. ASSUME ExecEnds(o) \/ StateAfterFails(o)
        PROVE  SeesOwnState(p)'
    BY <2>5, <1>2 DEF ExecEnds, StateAfterFails, SeesOwnState, OpRecord
  <2>6. \/ pc'[o] \notin {"callback", "release"}
        \/ Preflight(o) \/ StateAfter(o) \/ ReconcileApplied(o)
        \/ ReconcileNotApplied(o) \/ ExecEnds(o) \/ StateAfterFails(o)
    BY DEF OwnerStep, EnsureBaseline, BindWorkspace, Crash, AcquireFails, PreflightFails, Begin,
       ReadAuthority, AcquireLeases, LeaseConflict, StateDrift, CallbackEnds, Release,
       Leave
  <2> QED
    BY <2>1, <2>2, <2>3, <2>4, <2>5, <2>6
<1> QED
  BY <1>1, <1>2

(* A change by the tool of o: either o is covered, and then nobody else is, *)
(* or the others know that they have been intruded upon.                    *)
LEMMA OwnStateChange ==
  ASSUME TypeOK, LeaseHonoured', NEW o \in Owners, NEW p \in Owners, SeesOwnState(p),
         CallbackStep(o)
  PROVE  SeesOwnState(p)'
<1> USE DEF TypeOK
<1>0. /\ pc' = pc /\ pc[o] = "callback"
      /\ op' = [op EXCEPT ![o].outcome = "touched"]
      /\ Intrude(IF Legitimate(o) /\ head' \in Leased(o) THEN {} ELSE InCharge \ {o})
  BY DEF CallbackStep
<1>1. CASE p = o
  BY <1>0, <1>1 DEF SeesOwnState, OpRecord
<1>2. CASE p # o /\ Legitimate(o) /\ head' \in Leased(o)
  <2>1. Legitimate(o)'
    BY <1>0, <1>2 DEF Legitimate, InCharge, Leased, OpRecord
  <2>2. ~Legitimate(p)'
    <3> SUFFICES ASSUME Legitimate(p)' PROVE FALSE
      OBVIOUS
    <3>1. \A q \in Owners : Legitimate(q)' => Holding(q)' /\ head' \in Leased(q)'
      BY DEF Legitimate, InCharge, Holding
    <3>2. /\ lease'[head'] = [owner |-> o, left |-> op'[o].left]
          /\ lease'[head'] = [owner |-> p, left |-> op'[p].left]
      BY <2>1, <3>1, HonouredAltPrime
    <3>3. o = p
      BY <3>2
    <3> QED
      BY <3>3, <1>2
  <2> QED
    BY <2>2 DEF SeesOwnState
<1>3. CASE p # o /\ ~(Legitimate(o) /\ head' \in Leased(o))
  <2>1. CASE repo' # repo
    <3>1. p \in InCharge => intruded'[p] # {}
      BY <1>0, <1>3, <2>1 DEF Intrude
    <3>2. InCharge' = InCharge
      BY <1>0 DEF InCharge
    <3> QED
      BY <3>1, <3>2 DEF SeesOwnState, Legitimate
  <2>2. CASE repo' = repo
    <3>1. intruded'[p] = intruded[p] /\ pc'[p] = pc[p] /\ op'[p] = op[p]
          /\ authority'[p] = authority[p]
      BY <1>0, <1>3, <2>2 DEF Intrude, CallbackStep
    <3> QED
      BY <2>2, <3>1, OwnStateFrame
  <2> QED
    BY <2>1, <2>2
<1> QED
  BY <1>1, <1>2, <1>3

(* No step makes a covered call work on, or record, a state its owner did not accept. *)
LEMMA OwnStateStep ==
  ASSUME TypeOK, LeaseHonoured', Unrecorded, WriterSeesOwnState, [Next]_vars
  PROVE  WriterSeesOwnState'
<1> SUFFICES ASSUME NEW p \in Owners PROVE SeesOwnState(p)'
  BY DEF WriterSeesOwnState, SeesOwnState
<1>0. SeesOwnState(p)
  BY DEF WriterSeesOwnState, SeesOwnState
<1>1. ASSUME NEW o \in Owners, OwnerStep(o) \/ ClientStep(o)
      PROVE  SeesOwnState(p)'
  BY <1>0, <1>1, OwnStateQuiet, OwnStateChange DEF ClientStep
<1>2. ASSUME External
      PROVE  SeesOwnState(p)'
  <2>1. InCharge' = InCharge /\ (p \in InCharge => intruded'[p] # {})
    BY <1>2 DEF External, InCharge, Intrude
  <2> QED
    BY <2>1 DEF SeesOwnState, Legitimate
<1>3. ASSUME Fault
      PROVE  SeesOwnState(p)'
  BY <1>0, <1>2, <1>3, OwnStateQuiet DEF Fault
<1>4. CASE Tick
  <2>1. /\ op'[p].outcome = op[p].outcome /\ op'[p].branch = op[p].branch
        /\ op'[p].target = op[p].target /\ (op'[p].left > 0 => op[p].left > 0)
    BY <1>4 DEF Tick, Aged, TypeOK, OpRecord
  <2> QED
    BY <1>0, <1>4, <2>1, OwnStateFrame DEF Tick
<1>5. CASE UNCHANGED vars
  BY <1>0, <1>5, OwnStateFrame DEF vars
<1> QED
  BY <1>1, <1>3, <1>4, <1>5 DEF Next

(* The state a covered call starts from, and the state it records, are     *)
(* those of the checkout, for every number of owners and whatever they do. *)
THEOREM WritersSeeOwnState == Spec => []WriterSeesOwnState
<1>1. Init => Unrecorded /\ WriterSeesOwnState
  BY DEF Init, Unrecorded, WriterSeesOwnState
<1>2. TypeOK /\ Unrecorded /\ [Next]_vars => Unrecorded'
  BY UnrecordedStep
<1>3. TypeOK /\ LeaseHonoured' /\ Unrecorded /\ WriterSeesOwnState /\ [Next]_vars
        => WriterSeesOwnState'
  BY OwnStateStep
<1> QED
  BY <1>1, <1>2, <1>3, TypeCorrect, LeasesAreHonoured, PTL DEF Spec
=============================================================================
