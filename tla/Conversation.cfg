CONSTANTS
  Clients = {trimming, faithful}
  Trimmers = {trimming}
  Tokens = {t1, t2, t3}
  NoToken = NoToken
  MaxMessages = 8
SPECIFICATION Spec
SYMMETRY Interchangeable
INVARIANTS
  TypeOK
  ConflictsAreOwed
PROPERTY ResumedByItsOwner
