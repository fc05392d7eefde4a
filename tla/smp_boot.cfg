SPECIFICATION Spec
CONSTANTS
  Ids = {0, 1, 2, 3}
  MaxEntries = 3
INVARIANTS
  TypeOK
  AloneNeverAstray
  HeldAtGate
PROPERTIES
  OneOtherStarts
  Settles
CHECK_DEADLOCK FALSE
