SPECIFICATION Spec
CONSTANTS
  t1 = t1
  t2 = t2
  Threads <- MCThreads
  MaxFd = 2
  MaxChains = 3
  MaxSubs = 0
  MaxPid = 1
  Found <- Nothing
  Modes <- Filters
  Canonical = TRUE
INVARIANTS MonitoredOnly
