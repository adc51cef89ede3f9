--------------------------- MODULE MCRoomService ---------------------------
EXTENDS RoomService, TLC

Symmetry == Permutations(Servers) \cup Permutations(Lookups)
=============================================================================
