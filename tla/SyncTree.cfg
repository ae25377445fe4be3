SPECIFICATION TreeSpec
CONSTANTS
  TreeRank <- MCRank
  Root = 0
  Parent <- MCParent
  Depth <- MCDepth
  MaxError = 1
  MaxSyncs = 3
INVARIANTS
  TypeOK
  Accurate
  InStep
CHECK_DEADLOCK FALSE
