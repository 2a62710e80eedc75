SPECIFICATION Spec
CONSTANTS
  MemorySize = 12
  PoolRegion <- MCLow
  Files <- MCFiles
  BufferSize = 4
  FontSize = 1
  MapSize = 1
  MaxEvents = 2
INVARIANTS
  TypeOK
  KernelInPlace
  HeadersStay
  MapKeepsKernelData
PROPERTIES
  FirmwareUntouched
\* The kernel runs, or the loader has halted: real stops.
CHECK_DEADLOCK FALSE
