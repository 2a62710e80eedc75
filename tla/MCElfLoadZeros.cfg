SPECIFICATION Spec
CONSTANTS
  MemorySize = 12
  PoolRegion <- MCLow
  Files <- MCFiles
  BufferSize = 4
  FontSize = 1
  MapSize = 1
  MaxEvents = 2
INVARIANTS
  PaddedWithZeros
CHECK_DEADLOCK FALSE
