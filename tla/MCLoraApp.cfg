SPECIFICATION Spec
CONSTANTS
  TickMod = 3
  IdMod = 2
  SeqMod = 4
  IntervalMs = 2
  AckTimeoutMs = 2
  PollGapMs = 1
  NodeAddress = 2
  Frames <- MCFrames
  Channels <- MCBusyChannel
  SensorResults <- MCSensorResults
  TxTimeoutPolls = 2
  AckLife = 2
  NoFrame = NoFrame
INVARIANTS
  ReceiverFlagHonest
  NoStuckTransmission
  TransmitsOnlyInTransaction
PROPERTIES
  UsesStateMachine
  RefinesNodeCycle
