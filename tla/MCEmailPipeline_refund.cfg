\* One run that charges and then fails for a system error.
SPECIFICATION Spec
CONSTANTS
  Emails = {e1}
  Workers = {w1}
  Clients = {}
  None = None
  StuckReset = FALSE
  Faults = {}
  MaxCopies = 2
  MaxRetries = 0
  MaxCrashes = 0
  MaxOverruns = 0
  MaxDeletes = 0
INVARIANT SystemErrorsRefunded
CHECK_DEADLOCK FALSE
