CONSTANTS
  Calls = {c1, c2}
  MaxTurns = 3
SPECIFICATION FairSpec
INVARIANTS
  TypeOK
  PromptCallsReachable
  ResolvedOnce
  OwnResult
PROPERTIES
  TurnsEndByThemselves
  ImplementsLifecycle
CHECK_DEADLOCK FALSE
