SPECIFICATION FairTableSpec
CONSTANTS
  Name = {u1, u2}
  Addr = {i1, i2}
  Page = {p1, p2}
  Conn = {c1}
  ALLUSER = ALLUSER
  Nil = Nil
  TimeOut = 1
  MaxTime = 2
  MaxPages = 2
PROPERTIES SecondLoginUnguarded TakeoverUnguarded IdleEnd
