SPECIFICATION FairSpec
CONSTANTS
  N = 3
  Base = 8
  w1 = w1
  w2 = w2
  Obeys <- MCOrphans
  Workers <- MCWorkers2
CHECK_DEADLOCK FALSE
PROPERTY SerialLayout
