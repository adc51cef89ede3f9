SPECIFICATION MCSpec
CONSTANTS
  Ids = {e1, e2}
  Points <- MCPoints
  NoPos = NoPos
  CellSize = 2
  Radius = 3
  MaxCopies = 2
  Avatars = {a1, a2}
  Regs = {1, 2}
  NoReg = NoReg
  InboxCap = 1
  EventCap = 1
  QueueCap = 1
  MaxPerTick = 1
  MaxPackets = 2
  MaxEvents = 2
INVARIANTS
  PresentAreFound NoPhantom
  DeliveryOrder
PROPERTIES PacketsAreHandled EventsAreDrained
