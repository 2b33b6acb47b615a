CONSTANTS
  Conns = {c1, c2}
  Environments <- MCEnvironments
  Shapes <- MCShapes
  NoRequest = NoRequest
  NoConn = NoConn
SPECIFICATION FairSpec
INVARIANTS
  TypeOK
  SettingsUsable
  GaugeExact
  CountedAsAnswered
  KeyDecides
  OrderlyExit
PROPERTIES
  NoAcceptWhileDraining
  ShutdownReachesStop
  QueueMoves
  ProbesUnblocked
\* The process ends.
CHECK_DEADLOCK FALSE
