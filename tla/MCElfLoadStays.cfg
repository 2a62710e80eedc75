SPECIFICATION Spec
CONSTANTS
  MemorySize = 12
  PoolRegion <- MCAll
  Files <- MCFiles
  BufferSize = 4
  FontSize = 1
  MapSize = 1
  MaxEvents = 2
INVARIANTS
  LoadedStays
CHECK_DEADLOCK FALSE
