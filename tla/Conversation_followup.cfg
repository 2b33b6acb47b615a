CONSTANTS
  Clients = {faithful}
  Trimmers = {}
  Tokens = {t1, t2, t3}
  NoToken = NoToken
  MaxMessages = 8
SPECIFICATION Spec
INVARIANT QuestionsAreServed
