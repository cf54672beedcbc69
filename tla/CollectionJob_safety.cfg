\* Two POIs, every source and every failure: overlapping runs, one crash, one expiry.
SPECIFICATION Spec
CONSTANTS
  Pois = {p1, p2}
  MaxConcurrency = 2
  RetryLimit = 1
  Sources = {"admin", "scheduled"}
  MayFail = {"submit", "setup", "status", "checkpoint", "close", "abandon", "scheduler", "resume"}
  AgeDuringStartup = TRUE
  MaxMessages = 2
  MaxRuns = 2
  MaxCrashes = 1
  MaxExpiries = 1
  MaxFailures = 1
SYMMETRY Symmetry
INVARIANTS ProcessedWereCollected CompletedMeansCollected OrphanHasCause
CHECK_DEADLOCK FALSE
