SPECIFICATION MCSpec
CONSTANTS
  Servers = {s1, s2}
  Zones = {z1, z2}
  Lookups = {l1, l2}
  Watchers = {}
  NoServer = NoServer
  MaxZones = 1
  ChanCap = 1
  Environment = {}
  Tokens = {t1, t2}
  Finds = {f1, f2}
  NoKey = NoKey
  SessionTTL = 2
  Kids = {k1, k2}
  EdDSA = {k1}
  Refreshers = {r1, r2}
  Never = Never
  KeyTTL = 1
  Timeout = 1
  MaxKeyTime = 3
  p1 = p1
  Conns = {c1, c2}
  Clients = {p1}
  ClientOf <- MCClientOf
  One = 2
  Rate <- MCRate
  Burst <- MCBurst
  NoBucket = NoBucket
  MaxTime = 2
  Hosts = {h1, h2}
  NoHost = NoHost
  Moved = {m1}
  Listeners = {n1}
  RuntimeIds = {i1}
  Provisioners = {v1, v2}
  Readers = {q1, q2}
  NoRuntime = NoRuntime
  MaxCount = 2
  Calls = {d1, d2}
  AskedMethods = {"Register", "LookupServer", "WatchOwnership", "TransferZone", "AssignZone", "Relay", "CreateRuntime"}
SYMMETRY Symmetry
CHECK_DEADLOCK FALSE
INVARIANTS
  UnreleasedAnswerOwned ShutdownOwnerIsBeingSwept
  EndedSessionIsNotFound WithdrawnKeyExpires WindowBound
  ListenersFollow ProvisionAgrees DestroyedIsFinal 
