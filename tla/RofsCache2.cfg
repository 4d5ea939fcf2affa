SPECIFICATION FairSpec
CONSTANTS
  None = None
  w1 = w1
  w2 = w2
  dll = dll
  exe = exe
  n1 = n1
  n2 = n2
  Workers <- MCWorkers
  Files <- MCFiles
  Nodes <- MCNodes
  iFileName <- MCFileName
  Methods = {"none", "deflate"}
  Options = {"deflate"}
  Faults = {"crash while placing"}
  MaxBuilds = 3
  MaxEdits = 1
INVARIANTS
  TypeOK
  PlacedAsOpened
  CacheIsSound
  RendersChangedOnly
PROPERTIES
  BuildEnds
CHECK_DEADLOCK FALSE
