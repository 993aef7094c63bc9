SPECIFICATION ClockSpec
CONSTANTS
  MaxPid = 3
  Found <- Both
  Day = 6
  DELETE_INTERVAL = 4
  Checks <- MCChecks
  Defrags <- MCDefrags
  Never = Never
  Lag = 1
  MaxClock = 16
INVARIANTS Reachable DefragOncePerDay
PROPERTIES ComesBack RestartsApart
CHECK_DEADLOCK FALSE
