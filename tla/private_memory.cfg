SPECIFICATION Spec
CONSTANTS
  Proc = {p1, p2, p3}
  First = p1
  Kernel = kernel
  Frame <- Frames8
  NoFrame = NoFrame
  Huge = {4}
  VPage = {v1}
  Stack = stack
  Outside = {o}
  Common = {k}
  Value = {0, 1}
  Zero = 0
  Candidates <- Lowest
  Batches <- LowestBatch
  KernelStores = "own"
INVARIANTS
  TypeOK
  NoDangling
  NoLeak
PROPERTIES
  PrivateSpec
  FaultsInvisible
SYMMETRY OtherSlots
CHECK_DEADLOCK FALSE
