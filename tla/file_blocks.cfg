SPECIFICATION Spec
CONSTANTS
  NIno = 2
  Direct = 1
  Blk = 2
  Block <- Blocks4
  Disks <- Disks3
  Value = {1, 2}
  Buffers <- Patterns
  MaxWord = 4
  MaxCount = 3
INVARIANTS
  TypeOK
  BlocksExclusive
  BlocksExact
  ReadBack
CHECK_DEADLOCK FALSE
