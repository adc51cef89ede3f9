SPECIFICATION MCSpec
CONSTANTS
  Servers = {s1, s2}
  Zones = {z1}
  Lookups = {l1}
  Watchers = {}
  NoServer = NoServer
  MaxZones = 1
  ChanCap = 1
  Environment = {}
  CacheZones = {z1, z2}
  Getters = {g1}
  NoEntry = NoEntry
  Idle = Idle
  TTL = 1
  WatchCap = 1
  WireCap = 2
  MaxChanges = 3
  MaxBreaks = 1
  Nodes = {n1, n2}
  RegZones = {z1}
  NoNode = NoNode
  RegMaxZones = 1
  StartOrder <- MCStart
  Targets <- MCTargets
  Deadline = TRUE
  Routes <- MCRoutes
  Origin <- MCOrigin
  WanderRadius = 2
  MaxDelta = 3
  NPCSpecs = {b1, b2}
  Runtimes = {1}
  SnapshotEvery = 2
  MaxRuns = 2
  MaxTicks = 4
  MaxStreams = 2
  PacketIds = {258}
  Payloads <- MCPayloads
  SeqNumbers <- MCSeqs
  CompressMin = 2
  ActionGiven = TRUE
  FrameCap = 2
  MaxFrames = 2
  ga = ga
  gb = gb
  gc = gc
  Sims = {ga, gb, gc}
  Asks <- MCAsks
  PeerIds = {p1, p2}
  Addresses = {a1, a2}
  NoPeer = NoPeer
  MaxDials = 3
  LatestVersion = 2
  MaxOutages = 1
  MaxKills = 2
CHECK_DEADLOCK FALSE
INVARIANTS
  SweptNodeOwnsNothing NothingLeftRunning  ShownIsSent
  ConnectionsAreOwned  SchemaBeforeService 
PROPERTIES
  OrphanIsReleased ChangesApplyInOrder StaleHitsEnd PatrolVisitsAll
   
