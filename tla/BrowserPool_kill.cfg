\* Three renders, two crawls that may kill, three launches, one crash.
SPECIFICATION FairSpec
CONSTANTS
  Users = {u1, u2, u3}
  Crawls = {c1, c2}
  MaxBrowsers = 3
  MaxCrashes = 1
  MaxStrays = 2
INVARIANTS CountsHolders OneBrowser
PROPERTIES IdleCloseSparesHolders PoolEmpties
CHECK_DEADLOCK FALSE
