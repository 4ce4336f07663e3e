SPECIFICATION Spec
CONSTANTS
  Obj = {o1, o2, o3}
  Nil = Nil
  Client = {c1, c2}
  Url = {u1}
  Sizes = {1}
  MemCache = 1
  DiskCache = 1
  UseDisk = TRUE
  DiskFaults = TRUE
  MaxLeaks = 0
  MayQuit = FALSE
SYMMETRY Symmetry
INVARIANTS RefsCounted HeldIsCached SendingHasBody OneLivePerUrl NoNullDereference
PROPERTY CacheIsShared
