SPECIFICATION FairSpec
CONSTANTS
  Conn = {c1, c2}
  Pair = {p1, p2, p3}
  Guid = {g1, g2}
  UserID = {u1, u2}
  UserAgent = {a1}
  IPAddress = {i1}
  AccessTTL = 1
  RefreshTTL = 1
  JWTLeeWay = 1
INVARIANTS
  TypeOK
  OneUserPerGuid
  OnlyDeletesDeadlock
PROPERTIES
  ImplementsLineage
  TxEnds
