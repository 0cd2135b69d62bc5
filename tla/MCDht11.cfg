SPECIFICATION ReadingSpec
CONSTANTS
  ByteBits = 2
  Words <- MCWords
  START_HIGH = 6
  RESPONSE_WAIT = 20
  BIT_THRESHOLD = 8
  TIMEOUT = 40
  ResponseDelays = {4, 8}
  ResponsePulse = 16
  BitLow = 10
  ZeroPulses = {5, 6}
  OnePulse = 14
  Jitter = 2
  MaxHumidity = 2
INVARIANTS
  SampleIsFresh
  GoodReadingSucceeds
PROPERTIES
  ReadingEnds
