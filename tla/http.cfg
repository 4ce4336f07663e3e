SPECIFICATION FairSpec
CONSTANTS
  NReq = 2
  HeadLen = 2
  BodyLen = 2
  AnswSize = 4
  Kinds <- MCKinds
INVARIANTS
  KeptIsWhole
  FormForwarded
PROPERTIES
  StoredIsWhole
  GoneIsLeft
