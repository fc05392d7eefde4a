SPECIFICATION Spec
CONSTANTS
  Proc = {p1, p2}
  First = p1
  Kernel = kernel
  Frame <- Frames9
  NoFrame = NoFrame
  Huge = {4}
  VPage = {v1}
  Stack = stack
  Outside = {}
  Common = {}
  Value = {0, 1}
  Zero = 0
  Candidates <- Lowest
  Batches <- LowestBatch
  KernelStores = "any"
PROPERTY PrivateSpec
CHECK_DEADLOCK FALSE
