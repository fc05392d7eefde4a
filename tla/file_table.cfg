SPECIFICATION Spec
CONSTANTS
  Proc = {p1, p2, p3}
  First = p1
  NFile = 2
  NFd = 2
  Inode = {n1}
  Null = null
  Blk = 2
  MaxOffset = 1
  MaxCount = 3
  MaxRef = 3
INVARIANTS
  TypeOK
  RefcountsExact
PROPERTY FilesSpec
SYMMETRY Alike
CHECK_DEADLOCK FALSE
