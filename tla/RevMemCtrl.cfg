CONSTANTS
  h1 = h1
  h2 = h2
  Lines <- MCLines
  Requests <- MCRequests
  MaxRqsts = 3
  Limits <- MCLimits
  max_ops = 2
SPECIFICATION FairSpec
INVARIANTS
  OpsAlive
  LoadsMarkedOnce
  CountersExact
  FenceOrders
  ReadsLatest
PROPERTY
  RequestsServed
