SPECIFICATION ServicesSpec
CONSTANTS
  \* GuardedMutation
  Owners = {o1, o2}
  Branches = {main, feature}
  TTL = 1
  Nobody = Nobody
  Trees = {t0, t1}
  Calls = {"write", "move", "reconcile"}
  MaxFaults = 1
  NoBranch = NoBranch
  NoSnapshot = NoSnapshot
  \* OAuthProvider
  Clients = {c0, c1}
  Preregistered = {c0}
  Redirects = {u1, u2}
  Verifiers = {v1}
  Hosts = {h1}
  MaxCodes = 3
  MaxClients = 2
  MaxPending = 2
  CodeTTL = 1
  TokenTTL = 1
  StableSecret = TRUE
  MaxRestarts = 1
  NoAuth = NoAuth
  \* DesktopSupervisor
  Pids = {p1, p2}
  Configs = {local, public}
  Tunnelled = {public}
  MaxBorn = 4
  MaxQuits = 1
  Vacant = Vacant
  \* ServiceUpdate
  MaxCommit = 2
  MaxUpdates = 2
  MaxMoves = 1
  MaxOutages = 1
  Modified = Modified
SYMMETRY Symmetry
INVARIANTS
  TypeOK LeaseHonoured ExclusiveWriters WriterSeesOwnState
  GrantsHonoured
  SupervisesOwn
  UpdateHonest
CHECK_DEADLOCK FALSE
