SPECIFICATION FairSpec
CONSTANTS
  w1 = w1
  w2 = w2
  SymWorkers <- MCWorkers
  Builds <- MCBuilds
INVARIANTS
  TypeOK
  NoLostWakeup
  EntriesInOnePlace
  SymbolFileComplete
PROPERTIES
  BuildEnds
CHECK_DEADLOCK FALSE
