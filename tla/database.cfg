SPECIFICATION Spec
CONSTANTS
  startup = startup
  saver = saver
  main = main
  signal = signal
  page1 = page1
  page2 = page2
  Processes <- MCProcesses
  Calls <- MCCalls
  Beneath <- MCBeneath
  DbTypes = {"mysql", "pgsql"}
  NoThread = NoThread
  MaxCalls <- MCMaxCalls
  MaxFails = 2
INVARIANTS
  
  BadNeedsAnother
  NothingOnlyIfGiven
PROPERTY CallsReturn
CHECK_DEADLOCK FALSE
