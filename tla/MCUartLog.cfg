SPECIFICATION Spec
CONSTANTS
  Lines = {l1, l2}
  MaxLength = 3
  Debug = TRUE
  Stalls = {TRUE, FALSE}
  None = None
INVARIANTS
  NoTornLine
  LineIsWhole
  DrainedIsSilent
  DrainSucceeds
