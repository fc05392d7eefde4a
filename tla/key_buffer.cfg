SPECIFICATION RingSpec
CONSTANTS
  Size = 4
  Char = {nul, a}
  Nul = nul
  None = None
  MaxCodes = 2
  MaxRead = 3
INVARIANT RingTypeOK
PROPERTY QueueSpec
