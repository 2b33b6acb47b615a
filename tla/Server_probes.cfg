CONSTANTS
  Conns = {c1, c2}
  Environments <- MCEnvironments
  Shapes <- MCShapes
  NoRequest = NoRequest
  NoConn = NoConn
SPECIFICATION FairSpec
INVARIANT ProbesSucceed
CHECK_DEADLOCK FALSE
