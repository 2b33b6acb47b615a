\* A streamed request that its client abandons is counted nowhere.
CONSTANTS
  MaxPieces = 1
  MaxCalls = 1
SPECIFICATION Spec
INVARIANT EveryRequestCounted
CHECK_DEADLOCK FALSE
