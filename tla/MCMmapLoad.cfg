SPECIFICATION Spec
CONSTANTS
  PageSize = 2
  Pages = 5
  Occupied = {4}
  Kernels <- MCKernels
INVARIANTS
  TypeOK
  Loaded
  ProcessUntouched
  
\* The program has ended.
CHECK_DEADLOCK FALSE
