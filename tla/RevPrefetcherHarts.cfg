CONSTANTS
  NumHarts = 2
  depth = 2
  Targets = {1, 4, 6}
  MaxInst = 4
  CoProcInsts = {4}
  DataAddrs = {}
  DataRegs = {}
  StallCycles = 2
  REVPREF_INIT_ADDR = REVPREF_INIT_ADDR
SPECIFICATION FetchSpec
INVARIANTS
  NoDangling
CHECK_DEADLOCK FALSE
