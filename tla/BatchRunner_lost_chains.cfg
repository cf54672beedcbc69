\* As many failed status reads as workers: the job hangs.
SPECIFICATION FairSpec
CONSTANTS
  ItemCount = 3
  MaxConcurrency = 2
  HasCancelCheck = TRUE
  MaxCheckFailures = 2
PROPERTY Returns
CHECK_DEADLOCK FALSE
