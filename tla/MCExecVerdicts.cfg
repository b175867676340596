SPECIFICATION Spec
CONSTANTS
  Commands = {c1}
  MaxActive = 2
  MaxRetained = 1
  MaxJobs = 2
  MaxFaults = 0
  Tools = {"job_status"}
  Modes = {"direct"}
  Registries = {"open"}
  None = None
INVARIANT VerdictsAgree
CHECK_DEADLOCK FALSE
