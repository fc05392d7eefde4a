SPECIFICATION Spec
CONSTANTS
  NPages = 9
  Tramp = 2
  Hole = 4
  KUsed = 6
  MaxRefs = 2
  Leftover <- MCLeftover
  NoFrame = NoFrame
INVARIANTS
  TypeOK
  FreeListExact
  ReservedNeverIssued
PROPERTY PoolSpec
