SPECIFICATION Spec
CONSTANTS
  Lines = {l1, l2}
  MaxLength = 3
  Debug = FALSE
  Stalls = {FALSE}
  None = None
INVARIANTS
  DrainSucceeds
