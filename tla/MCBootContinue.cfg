\* A debugger releases halts, as the comment in EfiHalt suggests.
SPECIFICATION Spec
CONSTANTS
  MaxEvents = 0
  MaxReleases = 2
  Kernels <- MCKernels
  Fonts <- MCFonts
INVARIANTS
  ContinueIsSafe
CHECK_DEADLOCK FALSE
