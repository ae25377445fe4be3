SPECIFICATION CopySpec
CONSTANTS
  nprocs = 2
  Nests <- MCOffsetNests
  MaxCopies = 1
INVARIANT PropagatesModel
