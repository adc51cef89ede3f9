CONSTANTS
  c1 = c1
  c2 = c2
  p1 = p1
  NoConn = NoConn
  Conns = {c1, c2}
  Players = {p1}
  PlayerOf <- SamePlayer
  SoftLimit = 2
  Shutdown = TRUE
  CmdCap = 1
  ClientKinds = {}
SPECIFICATION FairSpec
PROPERTIES SenderStops SessionStateIsSwept
CHECK_DEADLOCK FALSE
