SPECIFICATION DumpSpec
CONSTANTS
  Capacity = 224
  MinFrame = 9
  MaxFrame = 64
  MaxReceived = 255
INVARIANTS
  DumpFits
