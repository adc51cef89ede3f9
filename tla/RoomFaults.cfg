SPECIFICATION Spec
CONSTANTS
  Servers = {s1, s2}
  Zones = {z1}
  Lookups = {l1}
  Watchers = {w1}
  NoServer = NoServer
  MaxZones = 1
  ChanCap = 1
  Environment = {"partition", "db", "crash"}
SYMMETRY Symmetry
CHECK_DEADLOCK FALSE
PROPERTY ImplementsZoneOwnership
