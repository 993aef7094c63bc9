SPECIFICATION Spec
CONSTANTS
  w1 = w1
  w2 = w2
  Workers <- MCWorkers
  TidOf <- MCTidOf
  Mortal = {w2}
  Quota <- MCOneEach
  MaxFd = 2
INVARIANT CompletedIsRecorded
