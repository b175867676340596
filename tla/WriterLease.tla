----------------------------- MODULE WriterLease -----------------------------
(***************************************************************************)
(* The branch writer leases of coding_tools_mcp/writer_lease.py: one JSON  *)
(* record per branch under the project's state directory, shared by every  *)
(* DevMCP process that serves the project.  project_lock (flock) makes     *)
(* each operation atomic, so an operation is one action here.              *)
(*                                                                         *)
(* A record is kept as its owner and the time left before                  *)
(* expires_at_epoch; Tick is the wall clock.  A missing file is NoLease.   *)
(***************************************************************************)
EXTENDS Integers

CONSTANTS
  Owners,    \* logical contexts ("ctx_...") and stdio runtimes ("runtime:...")
  Branches,  \* Git branch names
  TTL,       \* DEFAULT_WRITER_TTL_SECONDS, in clock ticks
  Nobody     \* the owner of a record that does not exist

ASSUME TTLAssumption == TTL \in Nat \ {0}
ASSUME NobodyAssumption == Nobody \notin Owners

VARIABLE lease

LeaseRecord == [owner : Owners \cup {Nobody}, left : 0..TTL]
NoLease == [owner |-> Nobody, left |-> 0]

(* Mutant: a record counts until it is removed. *)
ActiveForever(b) == lease[b].owner # Nobody

Active(b) == lease[b].left > 0

(* Mutant: a record in its last tick counts as expired. *)
ConflictsEarly(o, B) == {b \in B : lease[b].left > 1 /\ lease[b].owner # o}

Conflicts(o, B) == {b \in B : Active(b) /\ lease[b].owner # o}

(* The records of B rewritten for o with a full time to live. *)
Written(o, B) ==
  [b \in Branches |-> IF b \in B THEN [owner |-> o, left |-> TTL] ELSE lease[b]]

LeaseInit == lease = [b \in Branches |-> NoLease]

(* acquire_writer_leases: every branch or none. *)
AcquireWriterLeases(o, B) ==
  /\ B # {}
  /\ Conflicts(o, B) = {}
  /\ lease' = Written(o, B)

(* acquire_writer_leases, when write_json raises (or the process dies)     *)
(* after the records of W only: nothing takes them back.                   *)
AcquireInterrupted(o, B, W) ==
  /\ W \subseteq B
  /\ Conflicts(o, B) = {}
  /\ lease' = Written(o, W)

(* release_writer_lease: an expired record may be removed by anybody. *)
ReleaseWriterLease(o, b) ==
  /\ lease[b] # NoLease
  /\ Active(b) => lease[b].owner = o
  /\ lease' = [lease EXCEPT ![b] = NoLease]

(* Mutant: a release that does not look at the owner. *)
ReleaseAnyLeases(o) == lease' = [b \in Branches |-> NoLease]

(* release_owner_leases: every record of the owner, active or not. *)
ReleaseOwnerLeases(o) ==
  lease' = [b \in Branches |-> IF lease[b].owner = o THEN NoLease ELSE lease[b]]

(* Time passes; a record whose time is up stays in its file. *)
Aged(l) == [l EXCEPT !.left = IF @ > 0 THEN @ - 1 ELSE 0]

LeaseTick == lease' = [b \in Branches |-> Aged(lease[b])]

LeaseNext ==
  \/ \E o \in Owners, B \in SUBSET Branches :
        \/ AcquireWriterLeases(o, B)
        \/ \E W \in SUBSET Branches : AcquireInterrupted(o, B, W)
  \/ \E o \in Owners, b \in Branches : ReleaseWriterLease(o, b)
  \/ \E o \in Owners : ReleaseOwnerLeases(o)
  \/ LeaseTick

LeaseSpec == LeaseInit /\ [][LeaseNext]_lease

-----------------------------------------------------------------------------
LeaseTypeOK == lease \in [Branches -> LeaseRecord]

Holder == [b \in Branches |-> IF Active(b) THEN lease[b].owner ELSE Nobody]

Lock == INSTANCE BranchLock WITH holder <- Holder

(* The lease files implement a branch lock: whatever acquisitions, partial *)
(* acquisitions, releases and expiries happen, no branch ever passes from  *)
(* one unexpired owner to another.                                         *)
ImplementsBranchLock == Lock!LockSpec
=============================================================================
