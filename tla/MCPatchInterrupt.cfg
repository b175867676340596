SPECIFICATION Spec
CONSTANTS
  Paths <- MCPaths
  Contents = {old, new}
  Absent = Absent
  MaxBaselines = 2
  MaxPatches = 1
  MaxFaults = 1
  MaxEdits = 0
  Interruptible = TRUE
SYMMETRY Symmetry
INVARIANTS OriginalsRetained
CHECK_DEADLOCK FALSE
