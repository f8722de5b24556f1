CONSTANTS
  NumHarts = 1
  depth = 2
  Targets = {1, 4, 6}
  MaxInst = 4
  CoProcInsts = {4}
  DataAddrs = {4}
  DataRegs = {0, 1}
  StallCycles = 2
  REVPREF_INIT_ADDR = REVPREF_INIT_ADDR
SPECIFICATION FairFetchSpec
INVARIANTS
  NoDangling
  FetchExact
  QueueExact
PROPERTIES
  ThreadsFetch
CHECK_DEADLOCK FALSE
