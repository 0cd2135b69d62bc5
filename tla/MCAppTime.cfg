SPECIFICATION BootThenTime
CONSTANTS
  CountMod = 8
  MsMod = 16
  MsPerSecond = 5
  CountsPerSecond = 7
  MaxTotal = 50
CONSTRAINT Observed
INVARIANTS
  TimeIsExact
  CpuKeepsItsClock
  StartsInOrder
