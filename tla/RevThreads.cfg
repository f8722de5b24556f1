SPECIFICATION Spec
CONSTANTS
  NumCores = 2
  NumHarts = 2
  Threads = {main, t1, t2}
  MainThread = main
  NoThread = NoThread
  MaxTID = 3
  MaxInst = 2
  RandomTIDs = FALSE
  AnyJoin = TRUE
SYMMETRY Symmetry
INVARIANTS
  IdleAgrees
  EnabledAgrees
  OnePlace
  LoadsOnHart
PROPERTY ImplementsThreadLife
