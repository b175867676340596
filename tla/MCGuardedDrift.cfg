SPECIFICATION Spec
CONSTANTS
  Owners = {o1, o2}
  Branches = {main, feature}
  TTL = 1
  Nobody = Nobody
  Trees = {t0, t1}
  Calls = {"write", "move", "exec", "reconcile"}
  MaxFaults = 1
  NoBranch = NoBranch
  NoSnapshot = NoSnapshot
SYMMETRY Symmetry
INVARIANT ExternalMutationDrifts
