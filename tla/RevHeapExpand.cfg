CONSTANTS
  heapstart = 3
  maxHeapSize = 6
  StaticSize = 4
  memSize = 40
  ArgSize = 2
  ThreadMemSize = 4
  pageSize = 3
  PAGE_SIZE = 3
  Sizes <- MCSizes
  FixedAddrs = {}
  MaxThreads = 3
SPECIFICATION Spec
INVARIANTS
  NewSegmentAtTheEnd
CHECK_DEADLOCK FALSE
