CONSTANTS
  Entities = {e1}
  NPCs = {}
  Migrants = {}
  Zones = {z1}
  NoZone = NoZone
  NoState = NoState
  NoGhost = NoGhost
  NoPos = NoPos
  Ids <- MCIds
  Points <- MCPoints
  CellSize = 2
  Radius = 3
  MaxCopies = 1
SPECIFICATION Spec
INVARIANT SweptGhostIsGone
