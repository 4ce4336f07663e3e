SPECIFICATION Spec
CONSTANTS
  Thread = {t1, t2}
  Client = {t1, t2}
  Name = {host}
  Url = {host}
  Literal = {}
  Addr = {a1, a2}
  MaxAge = 1
  MaxRequest = 2
  TotalSeconds = 2
  MaxTime = 3
SYMMETRY Symmetry
INVARIANTS UsersAreCounted BurstIsBounded ConnectsToChecked
