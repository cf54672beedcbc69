\* A job of two POIs, one of which an admin collects again and again; one crash, two failures.
SPECIFICATION FairSpec
CONSTANTS
  Pois = {p1, p2}
  Singles = {p1}
  Pages = {1}
  Statuses = {1}
  Blank = {1}
  MaxConcurrency = 2
  RetryLimit = 1
  MaxRows = 3
  MaxCrashes = 1
  MaxFailures = 2
INVARIANTS ProcessedWereSettled CompletedMeansSettled SlotsAreFreed OpenIsPursued
PROPERTIES DuplicatesAreExplained JobCloses
CHECK_DEADLOCK FALSE
