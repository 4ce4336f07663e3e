SPECIFICATION FairSpec
CONSTANTS
  Obj = {o1, o2}
  Nil = Nil
  Client = {c1}
  Url = {u1}
  Sizes = {1, 2}
  MemCache = 0
  DiskCache = 0
  UseDisk = TRUE
  DiskFaults = FALSE
  MaxLeaks = 1
  MayQuit = TRUE
INVARIANTS DeadAreRemembered SizesAccounted
PROPERTIES RequestsEnd DeadReclaimed ShutdownEnds
