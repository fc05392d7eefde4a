SPECIFICATION Spec
CONSTANTS
  Proc = {p1, p2, p3}
  First = p1
  Kernel = kernel
  Frame <- Frames10
  NoFrame = NoFrame
  Huge = {4}
  VPage = {v1}
  Stack = stack
  Outside = {}
  Common = {}
  Value = {0}
  Zero = 0
  Candidates <- Lowest
  Batches <- LowestBatch
  KernelStores = "any"
INVARIANTS
  SharedReadOnly
  TablesPrivate
SYMMETRY OtherSlots
CHECK_DEADLOCK FALSE
