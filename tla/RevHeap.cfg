CONSTANTS
  heapstart = 3
  maxHeapSize = 6
  StaticSize = 4
  memSize = 40
  ArgSize = 2
  ThreadMemSize = 4
  pageSize = 3
  PAGE_SIZE = 3
  Sizes <- MCSizes
  FixedAddrs <- MCFixedAddrs
  MaxThreads = 3
SPECIFICATION Spec
INVARIANTS
  Partition
  StacksApart
CHECK_DEADLOCK FALSE
