SPECIFICATION FairSpec
CONSTANTS
  Request = {r1}
  Pair = {p1, p2, p3}
  Guid = {g1}
  UserID = {u1}
  UserAgent = {a1}
  IPAddress = {i1, i2}
  Unknown = Unknown
  WebhookSet = TRUE
  Faulty = FALSE
  AccessTTL = 1
  RefreshTTL = 1
  JWTLeeWay = 1
  MaxTime = 0
PROPERTIES
  WebhookReported
