SPECIFICATION Spec
CONSTANTS
  Obj = {o1, o2}
  Nil = Nil
  Client = {c1}
  Url = {u1}
  Sizes = {1}
  MemCache = 1
  DiskCache = 1
  UseDisk = TRUE
  DiskFaults = FALSE
  MaxLeaks = 1
  MayQuit = FALSE
SYMMETRY Symmetry
INVARIANT OnlyCachedIsSent
