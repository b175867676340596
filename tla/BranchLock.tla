----------------------------- MODULE BranchLock -----------------------------
(***************************************************************************)
(* What the writer leases of coding_tools_mcp/writer_lease.py promise: one *)
(* lock per Git branch, granted for a whole set of branches or not at all, *)
(* and never handed from one owner to another without having been free in  *)
(* between.  A lock may become free at any time: its owner releases it, or *)
(* it times out.                                                           *)
(***************************************************************************)
CONSTANTS Owners, Branches, Nobody

VARIABLE holder

LockInit == holder = [b \in Branches |-> Nobody]

Grant(o, B) ==
  /\ \A b \in B : holder[b] \in {Nobody, o}
  /\ holder' = [b \in Branches |-> IF b \in B THEN o ELSE holder[b]]

Free(B) ==
  holder' = [b \in Branches |-> IF b \in B THEN Nobody ELSE holder[b]]

LockNext ==
  \E B \in SUBSET Branches : Free(B) \/ \E o \in Owners : Grant(o, B)

LockSpec == LockInit /\ [][LockNext]_holder
=============================================================================
