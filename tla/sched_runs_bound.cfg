\* A duplicate entry restarts the attempt counter.
SPECIFICATION Spec
CONSTANTS
  Executions = {e1}
  Workers = {w1, w2}
  Jobs = {j1}
  CronJobs = {}
  None = None
  MaxStamp = 2
  MaxAttempts = 2
  BatchSize = 1
  MaxCrashes = 0
  MaxRuns = 3
  StartPhases = {"due"}
  Stalls = FALSE
  Outages = FALSE
SYMMETRY Symmetry
INVARIANTS RunsBounded
