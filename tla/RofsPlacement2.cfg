SPECIFICATION FairSpec
CONSTANTS
  N = 3
  Base = 8
  w1 = w1
  w2 = w2
  Obeys <- MCObeys
  Workers <- MCWorkers2
INVARIANTS
  TypeOK
  VpsFollowsList
  AliasesWaitForFiles
  ReadsOnce
  SymbolsOnceEach
PROPERTIES
  SerialLayout
  BuildEnds
CHECK_DEADLOCK FALSE
