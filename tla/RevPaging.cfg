CONSTANTS
  NumVPages = 3
  NumPages = 2
  pageSize = 2
  tlbSize = 2
  Lens <- MCLens
  Values <- MCValues
  Zero = 0
  Regions <- MCRegions
SPECIFICATION Spec
INVARIANTS
  PagesApart
  TLBExact
PROPERTY ImplementsFlatMem
CHECK_DEADLOCK FALSE
