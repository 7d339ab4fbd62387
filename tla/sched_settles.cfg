\* Without crashes every execution settles; with one entry its runs are bounded.
SPECIFICATION ScenarioSpec
CONSTANTS
  Executions = {e1}
  Workers = {w1, w2}
  Jobs = {j1}
  CronJobs = {}
  None = None
  MaxStamp = 2
  MaxAttempts = 2
  BatchSize = 1
  MaxCrashes = 2
  MaxRuns = 3
  StartPhases = {"far", "due", "aged"}
  Stalls = FALSE
  Outages = FALSE
INVARIANTS OneRunner OneEntryRunsBounded
PROPERTIES CalmSettles
