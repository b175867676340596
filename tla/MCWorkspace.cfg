SPECIFICATION WorkspaceSpec
CONSTANTS
  \* AtomicPatch
  Paths <- MCPaths3
  Contents = {v1, v2}
  Absent = Absent
  MaxBaselines = 2
  MaxPatches = 1
  MaxFaults = 2
  MaxEdits = 1
  Interruptible = TRUE
  \* PatchStaging
  Names = {f1, f2}
  Lines = {v1, v2}
  MaxLines = 2
  MaxHunk = 1
  MaxHunks = 2
  MaxOps = 2
  MaxWrites = 1
  Missing = Missing
  \* GitTools
  Callers = {v1, v2}
  Files = {f1, f2}
  Heads = {main, topic}
  Trunk = main
  MaxCommits = 4
  MaxCalls = 4
  MaxFileEdits = 3
  MaxKills = 1
  \* Continuation
  Resumers = {v1, v2, v3}
  Home = Home
  Scopes = {s1}
  Nowhere = Nowhere
  MaxChanges = 1
  MaxUpsets = 1
SYMMETRY WorkspaceSymmetry
INVARIANTS
  TypeOK AllOrNothing OriginalsKept
  StagedAsWritten
  CommitScoped WorkKept
  ContinuationSound
CHECK_DEADLOCK FALSE
