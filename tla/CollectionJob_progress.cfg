\* One worker and no expiry: three POIs, two crashes, two failures a retry outlives; no job grows old during a startup.
SPECIFICATION FairSpec
CONSTANTS
  Pois = {p1, p2, p3}
  MaxConcurrency = 1
  RetryLimit = 2
  Sources = {"admin"}
  MayFail = {"setup", "checkpoint", "close"}
  AgeDuringStartup = FALSE
  MaxMessages = 3
  MaxRuns = 2
  MaxCrashes = 2
  MaxExpiries = 0
  MaxFailures = 2
PROPERTIES ProgressIsKept JobCloses StartupLeavesNoOrphan
CHECK_DEADLOCK FALSE
