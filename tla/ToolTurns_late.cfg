CONSTANTS
  Calls = {c1, c2}
  MaxTurns = 2
SPECIFICATION Spec
INVARIANT ResumedAgentNotStranded
CHECK_DEADLOCK FALSE
