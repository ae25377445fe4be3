SPECIFICATION Spec
CONSTANTS
  Skew <- MCSkew
  Refs <- MCRefs
  Minimum_ping_pongs = 1
  Number_ping_pongs = 3
  MaxTime = 5
INVARIANTS
  TypeOK
  BracketSound
  Lockstep
  NoCrossTalk
  RoundsAgree
PROPERTIES
  OffsetAccurate
  Termination
