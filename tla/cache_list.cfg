SPECIFICATION Spec
CONSTANTS
  Obj = {o1, o2, o3, o4}
  Nil = Nil
  Client = {c1}
  Url = {u1, u2}
  Sizes = {1}
  MemCache = 1
  DiskCache = 1
  UseDisk = TRUE
  DiskFaults = FALSE
  MaxLeaks = 0
  MayQuit = FALSE
SYMMETRY Symmetry
INVARIANT ListSound
PROPERTY ListIsLru
