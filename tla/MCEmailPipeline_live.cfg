\* Every email settles, with failing steps, a reprocessing and a crash.
SPECIFICATION FairSpec
CONSTANTS
  Emails = {e1}
  Workers = {w1}
  Clients = {}
  None = None
  StuckReset = TRUE
  Faults = {"broker", "database"}
  MaxCopies = 2
  MaxRetries = 1
  MaxCrashes = 1
  MaxOverruns = 0
  MaxDeletes = 0
PROPERTY EmailSettles
CHECK_DEADLOCK FALSE
