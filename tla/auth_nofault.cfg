SPECIFICATION Spec
CONSTANTS
  Request = {r1, r2}
  Pair = {p1, p2, p3, p4}
  Guid = {g1, g2}
  UserID = {u1, u2}
  UserAgent = {a1}
  IPAddress = {i1}
  Unknown = Unknown
  WebhookSet = TRUE
  Faulty = FALSE
  AccessTTL = 1
  RefreshTTL = 1
  JWTLeeWay = 1
  MaxTime = 0
SYMMETRY Symmetry
INVARIANTS
  ExchangesBoundedByOverlap
  LogoutIsComplete
