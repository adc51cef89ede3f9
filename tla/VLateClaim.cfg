SPECIFICATION FairSpec
CONSTANTS
  Servers = {s1, s2}
  Zones = {z1}
  Lookups = {l1}
  Watchers = {}
  NoServer = NoServer
  MaxZones = 1
  ChanCap = 1
  Environment = {}
CHECK_DEADLOCK FALSE
PROPERTY DeadOwnerIsReplaced
