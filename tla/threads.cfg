SPECIFICATION FairSpec
CONSTANTS
  MayDie = TRUE
  Handlers <- AlarmAndDefrag
  MaxSignals = 2
  MaxItems = 1
INVARIANTS LockOrder SomeoneMoves
PROPERTY EndsOrSelfLocks
CHECK_DEADLOCK FALSE
