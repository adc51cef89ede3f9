SPECIFICATION MCSpec
CONSTANTS
  Entities = {e1, n1}
  NPCs = {n1}
  Migrants = {n1}
  Zones = {z1}
  NoZone = NoZone
  NoState = NoState
  NoGhost = NoGhost
  NoPos = NoPos
  Ids <- MCIds
  Points <- MCPoints
  CellSize = 2
  Radius = 3
  MaxCopies = 1
  Things = {e1}
  Spaces = {s1, s2}
  ZoneIds = {z1}
  None = None
  GhostLife = 1
  Copies = 1
INVARIANTS
  LiveIsFound  ToldIsVisible
  StoredGhostIsIndexed QueryLocalIsExact ZoneIsOneSpace
