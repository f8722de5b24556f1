SPECIFICATION Spec
CONSTANTS
  numCores = 2
  Number <- MCNumber
  memSize = 4194304
  PAGE = 256
  STACK = 1048576
  maxHeapSize = 1048576
  Harts = {0, 1}
  MaxCalls <- MCMaxCalls
  Setups <- MCSetups
  CallCodes <- MCCallCodes
INVARIANTS
  LoadExact
  OptionsHonoured
  HostAskedRight
  FDsOwned
PROPERTY
  EcallsEnd
CHECK_DEADLOCK FALSE
