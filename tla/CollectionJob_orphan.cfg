\* The job may turn an hour old between failAbandonedJobs and findIncompleteJobs.
SPECIFICATION Spec
CONSTANTS
  Pois = {p1, p2}
  MaxConcurrency = 2
  RetryLimit = 2
  Sources = {"admin", "scheduled"}
  MayFail = {}
  AgeDuringStartup = TRUE
  MaxMessages = 2
  MaxRuns = 2
  MaxCrashes = 1
  MaxExpiries = 0
  MaxFailures = 0
PROPERTY StartupLeavesNoOrphan
CHECK_DEADLOCK FALSE
