\* One crash of any process, with outages of the scheduler.
SPECIFICATION FairSpec
CONSTANTS
  Executions = {e1}
  Workers = {w1, w2}
  Jobs = {j1}
  CronJobs = {}
  None = None
  MaxStamp = 1
  MaxAttempts = 1
  BatchSize = 1
  MaxCrashes = 1
  MaxRuns = 1
  StartPhases = {"far", "due"}
  Stalls = FALSE
  Outages = TRUE
PROPERTIES PendingIsClaimed
