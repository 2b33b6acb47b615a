\* Every request of two messages and two parts.
CONSTANTS
  MaxMessages = 2
  MaxParts = 2
SPECIFICATION Spec
INVARIANTS
  RefusedIffUndeliverable
  EveryInlinePartAttached
  ConversationKept
  ContentRoundTrips
CHECK_DEADLOCK FALSE
