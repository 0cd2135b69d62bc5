SPECIFICATION Spec
CONSTANTS
  TickMod = 3
  IdMod = 1
  SeqMod = 2
  IntervalMs = 2
  AckTimeoutMs = 2
  PollGapMs = 1
  NodeAddress = 2
  Frames <- MCFrames
  Channels <- MCAnyChannel
  SensorResults <- MCSensorResults
  TxTimeoutPolls = 2
  AckLife = 1
  NoFrame = NoFrame
PROPERTIES
  KeepsCycling
  AckIsNotDiscarded
