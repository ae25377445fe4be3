SPECIFICATION Spec
CONSTANTS
  nprocs = 3
  Skew <- MCSkew
  MaxError = 1
  MaxSyncs = 2
INVARIANTS
  OnePairAtATime
  ReturnedTogether
PROPERTIES
  Termination
  TreePromise
