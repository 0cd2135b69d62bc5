SPECIFICATION Spec
CONSTANTS
  TickMod = 8
  IdMod = 2
  SeqMod = 4
  IntervalMs = 3
  AckTimeoutMs = 3
  PollGapMs = 4
  NodeAddress = 2
  Frames <- MCFrames
INVARIANTS
  TypeOK
  IdTracksSequence
  PendingIsCurrent
  WaitIsBounded
PROPERTY DeadlineIsExact
