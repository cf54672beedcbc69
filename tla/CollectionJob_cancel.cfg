\* No crash, no expiry, no failure: one admin request and one cancellation.
SPECIFICATION Spec
CONSTANTS
  Pois = {p1, p2}
  MaxConcurrency = 2
  RetryLimit = 2
  Sources = {"admin"}
  MayFail = {}
  AgeDuringStartup = FALSE
  MaxMessages = 1
  MaxRuns = 1
  MaxCrashes = 0
  MaxExpiries = 0
  MaxFailures = 0
PROPERTY CancelIsFinal
CHECK_DEADLOCK FALSE
