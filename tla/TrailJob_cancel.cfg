\* One POI, no fault: a queued or running job is cancelled.
SPECIFICATION Spec
CONSTANTS
  Pois = {p1}
  Singles = {}
  Pages = {1}
  Statuses = {1}
  Blank = {1}
  MaxConcurrency = 2
  RetryLimit = 2
  MaxRows = 2
  MaxCrashes = 0
  MaxFailures = 0
PROPERTY CancelIsFinal
CHECK_DEADLOCK FALSE
