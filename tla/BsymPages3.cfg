SPECIFICATION FairSpec
CONSTANTS
  w1 = w1
  w2 = w2
  w3 = w3
  PageWorkers <- MCWorkers
  PageSize = 3
  Runs <- MCRuns
INVARIANTS
  CompressedOnce
  FirstFilePacked
PROPERTIES
  FlushesEnd
CHECK_DEADLOCK FALSE
