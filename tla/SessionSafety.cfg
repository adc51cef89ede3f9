CONSTANTS
  c1 = c1
  c2 = c2
  p1 = p1
  NoConn = NoConn
  Conns = {c1, c2}
  Players = {p1}
  PlayerOf <- SamePlayer
  SoftLimit = 2
  Shutdown = FALSE
  CmdCap = 2
  ClientKinds = {"RECONNECT", "DISCONNECT"}
SYMMETRY Symmetry
SPECIFICATION Spec
INVARIANTS RegisteredEntryIsOpen  ClosedPlayerLeavesPool
CHECK_DEADLOCK FALSE
