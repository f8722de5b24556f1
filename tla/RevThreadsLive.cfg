SPECIFICATION FairSpec
CONSTANTS
  NumCores = 1
  NumHarts = 2
  Threads = {main, t1, t2}
  MainThread = main
  NoThread = NoThread
  MaxTID = 3
  MaxInst = 2
  RandomTIDs = FALSE
  AnyJoin = FALSE
PROPERTIES
  Termination
  BlockedResumes
