SPECIFICATION Spec
CONSTANTS
  Servers = {s1, s2}
  Zones = {z1}
  Lookups = {l1}
  Watchers = {}
  NoServer = NoServer
  MaxZones = 1
  ChanCap = 1
  Environment = {"partition"}
CHECK_DEADLOCK FALSE
INVARIANT AnsweredServerOwned
