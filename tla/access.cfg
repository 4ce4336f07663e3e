SPECIFICATION FairSpec
CONSTANTS
  Name = {u1}
  Addr = {i1}
  Page = {p1}
  ALLUSER = ALLUSER
  Nil = Nil
  TimeOut = 1
  MaxTime = 2
  MaxPages = 1
  Conn = {c1}
  u1 = u1
  d1 = d1
  Dst = {d1}
  HTTP = HTTP
  SOCKS = SOCKS
  DELAYUSER = DELAYUSER
  ALLIP = ALLIP
  BanTime = 1
  MaxRules = 2
  Rules <- MCRules
  AccessConf <- MCAccessConf
INVARIANTS CheckIsPolicy ListedAreAlive
PROPERTIES UsedLoginsStay DeniedEnd
