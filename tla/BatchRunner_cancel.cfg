\* 4 items on 3 workers, a cancellation at any moment, up to 2 failed reads.
SPECIFICATION FairSpec
CONSTANTS
  ItemCount = 4
  MaxConcurrency = 3
  HasCancelCheck = TRUE
  MaxCheckFailures = 2
INVARIANT CancelStopsClaims
PROPERTIES KeepsPromise StepsOfJob Returns
CHECK_DEADLOCK FALSE
