CONSTANTS
  Requests = {r1, r2, r3}
  Sessions = {s1, s2, s3}
  Tokens = {t1, t2, t3, t4}
  Hanging = {}
  MaxParked = 2
  TTL = 1
  NoSession = NoSession
  NoToken = NoToken
SPECIFICATION Spec
SYMMETRY Interchangeable
INVARIANTS
  TypeOK
  OwnedOnce
  LiveIffOwned
  CapRespected
PROPERTY NoEarlyDeparture
