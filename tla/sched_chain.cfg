\* A cron job with crashes, stalled workers and an absent scheduler.
SPECIFICATION Spec
CONSTANTS
  Executions = {e1, e2, e3}
  Workers = {w1, w2}
  Jobs = {j1}
  CronJobs = {j1}
  None = None
  MaxStamp = 1
  MaxAttempts = 2
  BatchSize = 2
  MaxCrashes = 1
  MaxRuns = 3
  StartPhases = {"aged"}
  Stalls = TRUE
  Outages = TRUE
SYMMETRY Symmetry
INVARIANTS TypeOK ChainIsLinear ChainUnbroken
PROPERTIES LifecycleRefinement
