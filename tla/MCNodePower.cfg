SPECIFICATION Spec
CONSTANTS
  Intervals = {0, 1, 2, 4}
  ClockHz = 1024
  MaxCount = 3
  InitialComp = 3
  SleptCap = 8
INVARIANTS
  TypeOK
  NeverEarly
  NoLostWakeup
  StoppedIsQuiet
PROPERTIES
  EverySleepEnds
