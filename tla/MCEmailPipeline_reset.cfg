\* The reset against a crash, a redelivery, a reprocessing and failing steps.
SPECIFICATION Spec
CONSTANTS
  Emails = {e1}
  Workers = {w1, w2}
  Clients = {}
  None = None
  StuckReset = TRUE
  Faults = {"broker", "database"}
  MaxCopies = 2
  MaxRetries = 1
  MaxCrashes = 1
  MaxOverruns = 0
  MaxDeletes = 0
SYMMETRY WorkerSymmetry
VIEW WhatCounts
INVARIANTS
  OneRunPerEmail
  SuccessHasResults
PROPERTY AnnouncesStoredResults
CHECK_DEADLOCK FALSE
