SPECIFICATION FairSpec
CONSTANTS
  w1 = w1
  w2 = w2
  Workers <- MCWorkers
  TidOf <- MCTidOf
  Mortal = {w2}
  Quota <- MCQuota
  MaxFd = 2
INVARIANTS RowsPairOneRequest RecordedOnce LostOnlyByRemoval NoStaleEntries
PROPERTIES EndedIsSaved
CHECK_DEADLOCK FALSE
