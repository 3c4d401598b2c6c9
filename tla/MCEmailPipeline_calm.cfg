\* No reset, no broker or database errors: retries, a deletion, a crash.
SPECIFICATION Spec
CONSTANTS
  Emails = {e1}
  Workers = {w1, w2}
  Clients = {c1}
  None = None
  StuckReset = FALSE
  Faults = {"graph"}
  MaxCopies = 2
  MaxRetries = 2
  MaxCrashes = 1
  MaxOverruns = 0
  MaxDeletes = 1
SYMMETRY WorkerSymmetry
PROPERTY LifecycleSpec
CHECK_DEADLOCK FALSE
