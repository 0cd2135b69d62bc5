SPECIFICATION Spec
CONSTANTS
  RadioBytes = 1
  PowerBytes = 2
  WaitAttempts = 3
  None = None
INVARIANTS
  TypeOK
  AnswersAreComplete
  SelectedWhileShifting
PROPERTIES
  BufferHasOwner
  EveryTransferEnds
