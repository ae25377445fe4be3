SPECIFICATION Spec
CONSTANTS
  Skew <- MCSkew
  Refs <- MCRefs
  Minimum_ping_pongs = 1
  Number_ping_pongs = 4
  MaxTime = 5
PROPERTIES
  ReMeasureStopsEarly
