\* One worker process: a retry races with the pipeline, every step can fail.
SPECIFICATION Spec
CONSTANTS
  Emails = {e1}
  Workers = {w1}
  Clients = {c1, c2}
  None = None
  StuckReset = FALSE
  Faults = {"broker", "database", "graph"}
  MaxCopies = 2
  MaxRetries = 2
  MaxCrashes = 0
  MaxOverruns = 0
  MaxDeletes = 1
INVARIANT ProcessingIsOwned
CHECK_DEADLOCK FALSE
