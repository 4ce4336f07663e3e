SPECIFICATION Spec
CONSTANTS
  Conn = {k1, k2}
  Ip = {a1, a2}
  Thread = {t1, t2}
  Nil = Nil
  Max = 1
  MaxDeny = 0
  MinFree = 0
  Limits = {1}
  MaxChanges = 0
  CreateFails = FALSE
PROPERTY RefusedAtLimit
