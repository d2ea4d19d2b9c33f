SPECIFICATION Spec
CONSTANTS
  Request = {r1, r2}
  Pair = {p1, p2, p3}
  Guid = {g1}
  UserID = {u1}
  UserAgent = {a1}
  IPAddress = {i1}
  Unknown = Unknown
  WebhookSet = TRUE
  Faulty = FALSE
  AccessTTL = 1
  RefreshTTL = 1
  JWTLeeWay = 1
  MaxTime = 0
SYMMETRY Symmetry
INVARIANTS
  SingleUse
