\* Two renders, and two crawls that find the browser unresponsive together.
SPECIFICATION FairSpec
CONSTANTS
  Users = {u1, u2}
  Crawls = {c1, c2}
  MaxBrowsers = 3
  MaxCrashes = 0
  MaxStrays = 2
PROPERTY IdleBrowsersClose
CHECK_DEADLOCK FALSE
