\* A developer is attached and may step over any halt.
SPECIFICATION FairSpec
CONSTANTS
  MaxEvents = 1
  MaxReleases = 3
  Kernels <- MCKernels
  Fonts <- MCFonts
INVARIANTS
  TypeOK
  HandoffSound
  NoWildSteps
  QuietExitSucceeds
  IInv
PROPERTIES
  HandsOver
  BootResolves
\* The kernel runs on, the machine is off: real stops.
CHECK_DEADLOCK FALSE
