SPECIFICATION CommandsSpec
CONSTANTS
  \* ExecSessions
  Commands = {c1, c2}
  MaxActive = 2
  MaxRetained = 1
  MaxJobs = 1
  MaxFaults = 0
  Tools = {"kill_session"}
  Modes = {"direct"}
  Registries = {"open"}
  None = None
  \* OutputBuffers
  MaxBytes = 5
  BufferLimit = 3
  PollBytes = 2
  PollLines = 2
  PageLimits = {1, 2}
  \* Transactions
  TxCalls = {c1, c2}
  TxFiles = {f1}
  TxData = {a, b}
  NoEntry = NoEntry
  Nil = Nil
  MaxTxEdits = 1
  \* Delegation
  Delegations = {c1, c2}
  Sources = {a, b}
  Labels = {main, topic}
  Original = Original
  ByUser = ByUser
  NoSource = NoSource
  MaxUserSteps = 1
  MaxGitFaults = 1
SYMMETRY CommandsSymmetry
INVARIANTS
  TablesSound ResourcesAccounted
  OutputAccounted
  TransactionSound
  DelegationSound
CHECK_DEADLOCK FALSE
