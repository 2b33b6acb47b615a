\* All kinds of handlers, with and without deltas.
CONSTANTS
  MaxPieces = 2
  MaxCalls = 2
SPECIFICATION Spec
INVARIANTS
  TypeOK
  AnswerWhole
  OneWriter
  QuietReturn
  EndsInDone
  AnsweredOnce
  FinalIsFinal
  RevealedAreParked
  CountMatchesAnswer
CHECK_DEADLOCK FALSE
