SPECIFICATION Spec
CONSTANTS
  t1 = t1
  t2 = t2
  Threads <- MCThreads
  MaxFd = 2
  MaxChains = 2
  MaxSubs = 1
  MaxPid = 2
  Found <- Nothing
  Modes <- BothModes
  Canonical = TRUE
INVARIANTS KeyIsOwn BeginThenEnd LeaksOnlyIfRunAgain
PROPERTIES ServedInBoundedSteps
SYMMETRY Swaps
CHECK_DEADLOCK FALSE
