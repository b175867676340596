SPECIFICATION FairSpec
CONSTANTS
  Requests = {r1, r2, r3}
  Sessions = {s1, s2}
  MaxSessions = 1
  None = None
INVARIANTS TypeOK SessionsBounded ServedOpen NoOrphan
PROPERTIES BusySpared DeletedCloses
CHECK_DEADLOCK FALSE
