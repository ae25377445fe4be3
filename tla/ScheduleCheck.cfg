SPECIFICATION AllCases
CONSTANTS
  MaxProcs = 130
  MaxPlaced = 4
  Nodes = {0, 1, 2}
  Bindings <- MCBindings
INVARIANTS
  CallsMatch
  LearnsOnceFromSettled
  LogarithmicDepth
  SettledLevelByLevel
  StaysLocal
CHECK_DEADLOCK FALSE
