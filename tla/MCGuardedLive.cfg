SPECIFICATION FairSpec
CONSTANTS
  Owners = {o1, o2}
  Branches = {main}
  TTL = 2
  Nobody = Nobody
  Trees = {t0, t1}
  Calls = {"write", "exec", "reconcile"}
  MaxFaults = 1
  NoBranch = NoBranch
  NoSnapshot = NoSnapshot
PROPERTIES ImplementsBranchLock DeadOwnerRecovered CallEnds
