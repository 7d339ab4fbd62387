\* A crash loses an execution that was claimed before.
SPECIFICATION Spec
CONSTANTS
  Executions = {e1}
  Workers = {w1, w2}
  Jobs = {j1}
  CronJobs = {}
  None = None
  MaxStamp = 2
  MaxAttempts = 2
  BatchSize = 1
  MaxCrashes = 1
  MaxRuns = 3
  StartPhases = {"due"}
  Stalls = FALSE
  Outages = FALSE
SYMMETRY Symmetry
INVARIANTS NoneStranded
