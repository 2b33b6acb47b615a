CONSTANTS
  Requests = {r1, r2}
  Sessions = {s1, s2}
  Tokens = {t1, t2, t3}
  Hanging = {s2}
  MaxParked = 1
  TTL = 1
  NoSession = NoSession
  NoToken = NoToken
SPECIFICATION FairSpec
PROPERTIES
  ImplementsLifecycle
  NoSessionLingers
  TurnsEnd
