SPECIFICATION Spec
CONSTANTS
  none = none
  one = one
  two = two
  other = other
  NoByte = NoByte
  NoFrame = NoFrame
  Frames <- MCFrames
  Length <- MCLength
  Uplinks <- MCUplinks
  MinLength = 2
  FifoSize = 3
  TxBase = 1
  TxPolls = 2
INVARIANTS
  DeliveredIsReceived
  OnAirAsConfigured
PROPERTIES
  RefinesRadioDriver
