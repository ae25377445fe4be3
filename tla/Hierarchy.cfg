SPECIFICATION Spec
CONSTANTS
  nprocs = 4
  Settings <- MCSettings
  MaxError = 1
  MaxSyncs = 2
INVARIANTS
  GlobalAccurate
  SettledFromAbove
  NestFits
PROPERTY Termination
