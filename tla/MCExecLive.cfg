SPECIFICATION FairSpec
CONSTANTS
  Commands = {c1}
  MaxActive = 1
  MaxRetained = 1
  MaxJobs = 1
  MaxFaults = 1
  Tools = {"write_stdin", "job_status", "kill_session", "read_output"}
  Modes = {"direct", "apply"}
  Registries = {"none", "open"}
  None = None
INVARIANTS TypeOK ResourcesAccounted
PROPERTIES DeadlineEnforced CloseReleases
CHECK_DEADLOCK FALSE
