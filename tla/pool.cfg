SPECIFICATION FairSpec
CONSTANTS
  Conn = {k1, k2, k3}
  Ip = {a1, a2}
  Thread = {t1, t2}
  Nil = Nil
  Max = 2
  MaxDeny = 3
  MinFree = 0
  Limits = {0, 1}
  MaxChanges = 1
  CreateFails = TRUE
INVARIANTS TotalIsBusy NoticeKept EveryConnOnce CountCovers
PROPERTIES ConnectionsEnd PoolIsAdmission
