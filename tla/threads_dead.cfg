SPECIFICATION ReadFairSpec
CONSTANTS
  MayDie = TRUE
  Handlers <- AlarmOnly
  MaxSignals = 2
  MaxItems = 1
PROPERTY ExitCompletes
CHECK_DEADLOCK FALSE
