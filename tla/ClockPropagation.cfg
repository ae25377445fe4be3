SPECIFICATION CopySpec
CONSTANTS
  nprocs = 3
  Nests <- MCNests
  MaxCopies = 2
INVARIANTS
  BufferFits
  SameAsRoot
PROPERTY Termination
