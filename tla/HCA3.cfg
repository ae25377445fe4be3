SPECIFICATION Spec
CONSTANTS
  nprocs = 5
  Settings <- MCSettings
  MaxError = 1
  MaxSyncs = 2
INVARIANTS
  MeetInSameRound
  GlobalAccurate
PROPERTIES
  Termination
  TreePromise
