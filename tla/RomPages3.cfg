SPECIFICATION FairSpec
CONSTANTS
  w1 = w1
  w2 = w2
  w3 = w3
  PageWorkers <- MCWorkers
  PageSize = 3
  Roms <- MCRoms
INVARIANTS
  TypeOK
  CompressedOnce
  ImageReadsBack
PROPERTIES
  PackingEnds
CHECK_DEADLOCK FALSE
