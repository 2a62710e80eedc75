\* What an assert says of mmap.
SPECIFICATION Spec
CONSTANTS
  PageSize = 2
  Pages = 5
  Occupied = {4}
  Kernels <- MCKernels
INVARIANTS
  HintFree
CHECK_DEADLOCK FALSE
