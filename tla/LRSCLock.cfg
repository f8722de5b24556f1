CONSTANTS
  h1 = h1
  h2 = h2
  h3 = h3
  Harts <- MCHarts
  HartID <- MCHartID
  Addrs <- MCAddrs
  Values <- MCValues
  Lens <- MCLens
  Lock <- MCLock
  NoValue = NoValue
SPECIFICATION Spec
INVARIANTS
  TypeOK
  OneReservation
  MutualExclusion
  LoadsExact
PROPERTIES
  StoreEndsFuture
CHECK_DEADLOCK FALSE
