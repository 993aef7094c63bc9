SPECIFICATION FairSpec
CONSTANTS
  w1 = w1
  w2 = w2
  Workers <- MCWorkers
  Quota <- MCQuota
  Redirected <- Leaky
  Mortal = {w2}
  MaxFd = 3
INVARIANTS WatchedOnce ReadOut WaitsOnlyIfGarbled
PROPERTIES TakenDown
CHECK_DEADLOCK FALSE
