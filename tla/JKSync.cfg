SPECIFICATION Spec
CONSTANTS
  nprocs = 3
  n_fitpoints = 2
  nexchanges = 2
  nexchanges_rtt = 3
  nwarmups = 1
  MinDelay = 1
  MaxDelay = 4
  MaxSyncs = 2
INVARIANTS
  SamePhase
  OffsetWithinDelays
PROPERTY Termination
