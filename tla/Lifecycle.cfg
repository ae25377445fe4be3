SPECIFICATION Spec
CONSTANTS
  Envs <- MCEnvs
  Numbers <- MCNumbers
  Handle = {1, 2}
  MaxInits = 3
  MaxSyncs = 3
INVARIANTS
  ParametersHeeded
  ReadsCurrentClock
  
CHECK_DEADLOCK FALSE
