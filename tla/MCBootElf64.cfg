\* What elf.h says of invalid class bytes.
SPECIFICATION Spec
CONSTANTS
  MaxEvents = 0
  MaxReleases = 0
  Kernels <- MCKernels
  Fonts <- MCFonts
INVARIANTS
  OnlyElf64Runs
CHECK_DEADLOCK FALSE
