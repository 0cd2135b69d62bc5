SPECIFICATION Spec
CONSTANTS
  Requests  <- MCRequests
  Downlinks <- MCDownlinks
  Patterns  <- MCPatterns
  Strays    <- MCStrays
INVARIANTS
  AcceptedIffUndamaged
  AcceptedIsCanonical
  SampleSurvives
  CrcIsRemainder
CHECK_DEADLOCK FALSE
