---------------------------- MODULE WorldProofs ----------------------------
(***************************************************************************)
(* Theorems about the simulation, for any number of entities, zones and    *)
(* points, whatever order the tick and the gRPC handlers run in, and about *)
(* the steps of its NPCs.                                                  *)
(***************************************************************************)
EXTENDS World, NPC, AOIGridProofs

\* The tick is in a zone between its two calls for the zone.
VisitsZone == tick.pc = "visible" => tick.zone \in Zones

\* Every index lists its ids in the cells of their positions.
IndexesListed == \A z \in Zones : Listed(grid[z])

\* Every entity is in a zone that holds its object, and the index of the zone has
\* the entity at the position of the object.
LiveIsIndexed ==
  \A e \in Live :
    /\ zoneOf[e] \in zones
    /\ obj[zoneOf[e]][e] # NoPos
    /\ grid[zoneOf[e]].positions[Body(e)] = obj[zoneOf[e]][e]

IInv == TypeOK /\ VisitsZone /\ IndexesListed /\ LiveIsIndexed

\* Entities and their ghosts are different ids of an index.
LEMMA IdFacts ==
  /\ \A e \in Entities : Body(e) \in Ids /\ Ghost(e) \in Ids
  /\ \A e, f \in Entities : Body(e) # Ghost(f) /\ (Body(e) = Body(f) <=> e = f)
                            /\ (Ghost(e) = Ghost(f) <=> e = f)
  /\ \A e \in Entities : Body(e)[1] = e /\ Ghost(e)[1] = e
BY WorldAssumption DEF Body, Ghost

\* Calls for several ids on an index change the entries of these ids only, and
\* each as if it was alone.
LEMMA EachEffect ==
  ASSUME NEW g \in GridType, Listed(g), NEW after,
         \A i \in DOMAIN after : after[i] \in GridType /\ Listed(after[i])
  PROVE  /\ Each(g, after) \in GridType
         /\ Listed(Each(g, after))
         /\ \A i \in Ids : Each(g, after).positions[i] =
              IF i \in DOMAIN after THEN after[i].positions[i] ELSE g.positions[i]
<1> DEFINE h == Each(g, after)
<1>1. \A i \in Ids : h.positions[i] = IF i \in DOMAIN after THEN after[i].positions[i]
                                                             ELSE g.positions[i]
  BY DEF Each
<1>2. \A i \in Ids : h.cells[i] = IF i \in DOMAIN after THEN after[i].cells[i] ELSE g.cells[i]
  BY DEF Each
<1>3. \A i \in Ids : /\ h.cells[i] \in [Keys -> Nat]
                     /\ h.positions[i] \in Points \cup {NoPos}
  BY <1>1, <1>2 DEF GridType
<1>4. h \in GridType
  BY <1>3 DEF Each, GridType
<1>5. ASSUME NEW i \in Present(h) PROVE h.cells[i][CellKeyFor(h.positions[i])] > 0
  <2>1. i \in Ids /\ h.positions[i] # NoPos
    BY <1>5 DEF Present
  <2> HIDE DEF h
  <2>2. CASE i \in DOMAIN after
    BY <1>1, <1>2, <2>1, <2>2 DEF Listed, Present
  <2>3. CASE i \notin DOMAIN after
    BY <1>1, <1>2, <2>1, <2>3 DEF Listed, Present
  <2> QED
    BY <2>2, <2>3
<1> QED
  BY <1>1, <1>4, <1>5 DEF Listed

\* The initial state satisfies the invariant.
LEMMA IInvInit == Init => IInv
<1> SUFFICES ASSUME Init PROVE IInv
  OBVIOUS
<1> USE DEF Init
<1>1. TypeOK
  BY NewType DEF TypeOK, NoObjects
<1>2. VisitsZone /\ LiveIsIndexed
  BY WorldAssumption DEF VisitsZone, LiveIsIndexed, Live
<1>3. IndexesListed
  BY NewListed DEF IndexesListed
<1> QED
  BY <1>1, <1>2, <1>3 DEF IInv

----------------------------------------------------------------------------
(* Every action keeps the invariant                                        *)

\* A handler assigns a zone to the server.
LEMMA AssignZoneStep ==
  ASSUME IInv, NEW z \in Zones, AssignZone(z) PROVE IInv'
<1> USE DEF IInv, AssignZone
<1>1. TypeOK'
  BY DEF TypeOK
<1>2. VisitsZone' /\ IndexesListed'
  BY DEF VisitsZone, IndexesListed
<1>3. LiveIsIndexed'
  BY DEF LiveIsIndexed, Live
<1> QED
  BY <1>1, <1>2, <1>3

\* A handler releases a zone.
LEMMA ReleaseZoneStep ==
  ASSUME IInv, NEW z \in Zones, ReleaseZone(z) PROVE IInv'
<1> USE DEF IInv, ReleaseZone
<1>1. TypeOK'
  BY NewType DEF TypeOK, NoObjects, Unindex
<1>2. VisitsZone'
  BY DEF VisitsZone
<1>3. IndexesListed'
  BY NewListed DEF IndexesListed, TypeOK
<1>4. LiveIsIndexed'
  BY DEF LiveIsIndexed, Live, TypeOK
<1> QED
  BY <1>1, <1>2, <1>3, <1>4

\* An entity is added.
LEMMA AddEntityStep ==
  ASSUME IInv, NEW e \in Entities, NEW z \in Zones, NEW p \in Points, AddEntity(e, z, p)
  PROVE  IInv'
<1> USE DEF IInv, AddEntity
<1> DEFINE h == Enter(grid[z], Body(e), p)
<1>1. Body(e) \in Ids /\ grid[z] \in GridType
  BY IdFacts DEF TypeOK
<1>2. h \in GridType /\ Listed(h)
  BY <1>1, EnterType, EnterListed DEF IndexesListed
<1>3. h.positions[Body(e)] = p /\ \A i \in Ids \ {Body(e)} : h.positions[i] = grid[z].positions[i]
  BY <1>1, EnterEffect
<1>4. grid' = [grid EXCEPT ![z] = h]
  OBVIOUS
<1> HIDE DEF h
<1>5. TypeOK'
  BY <1>2, <1>4 DEF TypeOK
<1>6. VisitsZone' /\ IndexesListed'
  BY <1>2, <1>4 DEF VisitsZone, IndexesListed, TypeOK
<1>7. LiveIsIndexed'
  <2> SUFFICES ASSUME NEW f \in Entities, zoneOf'[f] # NoZone
               PROVE  /\ zoneOf'[f] \in zones' /\ obj'[zoneOf'[f]][f] # NoPos
                      /\ grid'[zoneOf'[f]].positions[Body(f)] = obj'[zoneOf'[f]][f]
    BY DEF LiveIsIndexed, Live
  <2>1. CASE f = e
    BY <1>3, <1>4, <2>1, GridAssumption DEF TypeOK
  <2>2. CASE f # e
    <3>1. /\ zoneOf[f] \in zones /\ obj[zoneOf[f]][f] # NoPos
          /\ grid[zoneOf[f]].positions[Body(f)] = obj[zoneOf[f]][f]
          /\ zoneOf'[f] = zoneOf[f] /\ zoneOf[f] \in Zones
      BY <2>2 DEF LiveIsIndexed, Live, TypeOK
    <3>2. obj'[zoneOf[f]][f] = obj[zoneOf[f]][f]
      BY <2>2, <3>1 DEF TypeOK
    <3>3. grid'[zoneOf[f]].positions[Body(f)] = grid[zoneOf[f]].positions[Body(f)]
      BY <1>3, <1>4, <2>2, <3>1, IdFacts DEF TypeOK
    <3> QED
      BY <3>1, <3>2, <3>3
  <2> QED
    BY <2>1, <2>2
<1> QED
  BY <1>5, <1>6, <1>7

\* An entity is removed.
LEMMA RemoveEntityStep ==
  ASSUME IInv, NEW e \in Entities, RemoveEntity(e) PROVE IInv'
<1> USE DEF IInv, RemoveEntity
<1> DEFINE z == zoneOf[e]
           h == Leave(grid[z], Body(e))
<1>1. z \in Zones /\ Body(e) \in Ids /\ grid[z] \in GridType
  BY IdFacts DEF TypeOK
<1>2. h \in GridType /\ Listed(h)
  BY <1>1, LeaveType, LeaveListed DEF IndexesListed
<1>3. \A i \in Ids \ {Body(e)} : h.positions[i] = grid[z].positions[i]
  BY <1>1, LeaveEffect DEF Leave
<1>4. grid' = [grid EXCEPT ![z] = h] /\ obj' = [obj EXCEPT ![z][e] = NoPos]
  OBVIOUS
<1> HIDE DEF h, z
<1>5. TypeOK'
  BY <1>1, <1>2, <1>4 DEF TypeOK
<1>6. VisitsZone' /\ IndexesListed'
  BY <1>1, <1>2, <1>4 DEF VisitsZone, IndexesListed, TypeOK
<1>7. LiveIsIndexed'
  <2> SUFFICES ASSUME NEW f \in Entities, zoneOf'[f] # NoZone
               PROVE  /\ zoneOf'[f] \in zones' /\ obj'[zoneOf'[f]][f] # NoPos
                      /\ grid'[zoneOf'[f]].positions[Body(f)] = obj'[zoneOf'[f]][f]
    BY DEF LiveIsIndexed, Live
  <2>1. f # e
    BY DEF TypeOK
  <2>2. /\ zoneOf[f] \in zones /\ obj[zoneOf[f]][f] # NoPos
        /\ grid[zoneOf[f]].positions[Body(f)] = obj[zoneOf[f]][f]
        /\ zoneOf'[f] = zoneOf[f] /\ zoneOf[f] \in Zones
    BY <2>1 DEF LiveIsIndexed, Live, TypeOK
  <2>3. obj'[zoneOf[f]][f] = obj[zoneOf[f]][f]
    BY <1>1, <1>4, <2>1, <2>2 DEF TypeOK
  <2>4. grid'[zoneOf[f]].positions[Body(f)] = grid[zoneOf[f]].positions[Body(f)]
    BY <1>1, <1>3, <1>4, <2>1, <2>2, IdFacts DEF TypeOK
  <2> QED
    BY <2>2, <2>3, <2>4
<1> QED
  BY <1>5, <1>6, <1>7

\* A client moves its entity.
LEMMA DispatchStep ==
  ASSUME IInv, NEW e \in Entities, NEW p \in Points, Dispatch(e, p) PROVE IInv'
<1> USE DEF IInv, Dispatch, MoveObject
<1> DEFINE z == zoneOf[e]
           h == Move(grid[z], Body(e), p)
<1>1. z \in Zones /\ Body(e) \in Ids /\ grid[z] \in GridType
  BY IdFacts DEF TypeOK, Live
<1>2. h \in GridType /\ Listed(h) /\ h.positions = [grid[z].positions EXCEPT ![Body(e)] = p]
  BY <1>1, MoveType, MoveListed DEF IndexesListed
<1>3. h.positions[Body(e)] = p /\ \A i \in Ids \ {Body(e)} : h.positions[i] = grid[z].positions[i]
  BY <1>1, <1>2 DEF GridType
<1>4. grid' = [grid EXCEPT ![z] = h] /\ obj' = [obj EXCEPT ![z][e] = p]
  OBVIOUS
<1> HIDE DEF h
<1>5. TypeOK'
  <2>1. grid' \in [Zones -> GridType]
    BY <1>1, <1>2, <1>4 DEF TypeOK
  <2>2. obj' \in [Zones -> [Entities -> Points \cup {NoPos}]]
    BY <1>1, <1>4 DEF TypeOK
  <2>3. tick' \in [pc : {"cmds", "packets", "list", "zones", "visible", "sessions"},
                   todo : SUBSET Zones, zone : Zones \cup {NoZone}]
    BY DEF TypeOK
  <2> QED
    BY <2>1, <2>2, <2>3 DEF TypeOK
<1>6. VisitsZone' /\ IndexesListed'
  BY <1>1, <1>2, <1>4 DEF VisitsZone, IndexesListed, TypeOK
<1>7. LiveIsIndexed'
  <2> SUFFICES ASSUME NEW f \in Entities, zoneOf[f] # NoZone
               PROVE  /\ zoneOf[f] \in zones /\ obj'[zoneOf[f]][f] # NoPos
                      /\ grid'[zoneOf[f]].positions[Body(f)] = obj'[zoneOf[f]][f]
    BY DEF LiveIsIndexed, Live
  <2>1. /\ zoneOf[f] \in zones /\ zoneOf[f] \in Zones /\ obj[zoneOf[f]][f] # NoPos
        /\ grid[zoneOf[f]].positions[Body(f)] = obj[zoneOf[f]][f]
    BY DEF LiveIsIndexed, Live, TypeOK
  <2>2. CASE f = e
    BY <1>1, <1>3, <1>4, <2>1, <2>2, GridAssumption DEF TypeOK
  <2>3. CASE f # e
    <3>1. obj'[zoneOf[f]][f] = obj[zoneOf[f]][f]
      BY <1>1, <1>4, <2>1, <2>3 DEF TypeOK
    <3>2. grid'[zoneOf[f]].positions[Body(f)] = grid[zoneOf[f]].positions[Body(f)]
      BY <1>1, <1>3, <1>4, <2>1, <2>3, IdFacts DEF TypeOK
    <3> QED
      BY <2>1, <3>1, <3>2
  <2> QED
    BY <2>2, <2>3
<1> QED
  BY <1>5, <1>6, <1>7

\* Behaviours move their entities.
LEMMA SimulateStep ==
  ASSUME IInv, Simulate PROVE IInv'
<1> USE DEF IInv
<1> DEFINE movers(z) == {n \in Live \cap NPCs : zoneOf[n] = z}
           after(z, to) == [i \in {Body(e) : e \in movers(z)} |-> Move(grid[z], i, to[i[1]])]
<1>1. PICK to \in [Live \cap NPCs -> Points] :
        /\ obj' = [z \in Zones |-> [e \in Entities |->
                     IF e \in Live \cap NPCs /\ zoneOf[e] = z THEN to[e] ELSE obj[z][e]]]
        /\ grid' = [z \in Zones |-> Each(grid[z], after(z, to))]
  BY DEF Simulate
<1>2. /\ tick' = [tick EXCEPT !.pc = "list"]
      /\ UNCHANGED <<zones, indexed, zoneOf, aoi, ghosts, overdue, told, lost>>
  BY DEF Simulate
<1>3. ASSUME NEW z \in Zones
      PROVE  /\ grid'[z] \in GridType /\ Listed(grid'[z])
             /\ \A e \in Entities : grid'[z].positions[Body(e)] =
                  IF e \in Live \cap NPCs /\ zoneOf[e] = z THEN to[e]
                                                           ELSE grid[z].positions[Body(e)]
  <2>1. grid[z] \in GridType /\ Listed(grid[z])
    BY DEF TypeOK, IndexesListed
  <2>2. ASSUME NEW e \in movers(z)
        PROVE  /\ Move(grid[z], Body(e), to[e]) \in GridType
               /\ Listed(Move(grid[z], Body(e), to[e]))
               /\ Move(grid[z], Body(e), to[e]).positions[Body(e)] = to[e]
    <3>1. Body(e) \in Ids /\ to[e] \in Points
      BY IdFacts DEF Live
    <3>2. /\ Move(grid[z], Body(e), to[e]) \in GridType
          /\ Listed(Move(grid[z], Body(e), to[e]))
          /\ Move(grid[z], Body(e), to[e]).positions =
               [grid[z].positions EXCEPT ![Body(e)] = to[e]]
      BY <2>1, <3>1, MoveType, MoveListed
    <3>3. grid[z].positions \in [Ids -> Points \cup {NoPos}]
      BY <2>1 DEF GridType
    <3> QED
      BY <3>1, <3>2, <3>3
  <2>3. DOMAIN after(z, to) = {Body(e) : e \in movers(z)}
    OBVIOUS
  <2>4. ASSUME NEW e \in movers(z)
        PROVE  after(z, to)[Body(e)] = Move(grid[z], Body(e), to[e])
    <3> DEFINE b == Body(e)
    <3>1. b[1] = e /\ b \in {Body(n) : n \in movers(z)}
      BY IdFacts DEF Live
    <3> HIDE DEF b, movers
    <3>2. after(z, to)[b] = Move(grid[z], b, to[e])
      BY <3>1
    <3> QED
      BY <3>2 DEF b
  <2>5. ASSUME NEW i \in DOMAIN after(z, to)
        PROVE  after(z, to)[i] \in GridType /\ Listed(after(z, to)[i])
    <3>1. PICK e \in movers(z) : i = Body(e)
      BY <2>3
    <3> HIDE DEF after, movers
    <3> QED
      BY <2>2, <2>4, <3>1
  <2>6. grid'[z] = Each(grid[z], after(z, to))
    BY <1>1
  <2>7. \A e \in Entities : Body(e) \in DOMAIN after(z, to) <=> e \in Live \cap NPCs /\ zoneOf[e] = z
    BY <2>3, IdFacts DEF Live
  <2> HIDE DEF after
  <2>8. /\ grid'[z] \in GridType /\ Listed(grid'[z])
        /\ \A i \in Ids : grid'[z].positions[i] =
             IF i \in DOMAIN after(z, to) THEN after(z, to)[i].positions[i] ELSE grid[z].positions[i]
    BY <2>1, <2>5, <2>6, EachEffect
  <2> QED
    BY <2>2, <2>4, <2>7, <2>8, IdFacts
<1>4. TypeOK'
  <2>1. grid' \in [Zones -> GridType]
    BY <1>1, <1>3
  <2>2. obj' \in [Zones -> [Entities -> Points \cup {NoPos}]]
    BY <1>1 DEF TypeOK
  <2> QED
    BY <1>2, <2>1, <2>2 DEF TypeOK
<1>5. VisitsZone' /\ IndexesListed'
  BY <1>2, <1>3 DEF VisitsZone, IndexesListed, TypeOK
<1>6. LiveIsIndexed'
  <2> SUFFICES ASSUME NEW f \in Entities, zoneOf[f] # NoZone
               PROVE  /\ zoneOf[f] \in zones /\ obj'[zoneOf[f]][f] # NoPos
                      /\ grid'[zoneOf[f]].positions[Body(f)] = obj'[zoneOf[f]][f]
    BY <1>2 DEF LiveIsIndexed, Live
  <2>1. /\ zoneOf[f] \in zones /\ zoneOf[f] \in Zones /\ obj[zoneOf[f]][f] # NoPos
        /\ grid[zoneOf[f]].positions[Body(f)] = obj[zoneOf[f]][f]
    BY DEF LiveIsIndexed, Live, TypeOK
  <2>2. obj'[zoneOf[f]][f] = IF f \in Live \cap NPCs THEN to[f] ELSE obj[zoneOf[f]][f]
    BY <1>1, <2>1
  <2> QED
    BY <1>3, <2>1, <2>2, GridAssumption
<1> QED
  BY <1>4, <1>5, <1>6

\* A step that leaves entities and their index entries alone keeps them indexed.
LEMMA KeepsBodies ==
  ASSUME TypeOK, LiveIsIndexed, UNCHANGED <<zones, zoneOf, obj>>,
         \A z \in Zones, e \in Entities : grid'[z].positions[Body(e)] = grid[z].positions[Body(e)]
  PROVE  LiveIsIndexed'
BY DEF LiveIsIndexed, Live, TypeOK

\* Crossings leave ghosts.
LEMMA DetectZoneBoundariesStep ==
  ASSUME IInv, NEW z \in Zones, DetectZoneBoundaries(z) PROVE IInv'
<1> USE DEF IInv
<1> DEFINE after == [i \in {Ghost(e) : e \in Crossed(z)} |-> Enter(grid[z], i, aoi[i[1]].last)]
<1>1. /\ grid' = [grid EXCEPT ![z] = Each(grid[z], after)]
      /\ ghosts' = [e \in Entities |-> IF e \in Crossed(z) THEN z ELSE ghosts[e]]
      /\ tick' = [pc |-> "visible", todo |-> tick.todo \ {z}, zone |-> z]
      /\ UNCHANGED <<zones, indexed, zoneOf, obj, aoi, overdue, told, lost>>
  BY DEF DetectZoneBoundaries
<1>2. grid[z] \in GridType /\ Listed(grid[z])
  BY DEF TypeOK, IndexesListed
<1>3. ASSUME NEW i \in DOMAIN after PROVE after[i] \in GridType /\ Listed(after[i])
  <2>1. PICK e \in Crossed(z) : i = Ghost(e)
    OBVIOUS
  <2>2. e \in Entities /\ aoi[e].last \in Points
    BY DEF Crossed, Members, TypeOK
  <2>3. i \in Ids /\ i[1] = e
    BY <2>1, <2>2, IdFacts
  <2>4. after[i] = Enter(grid[z], i, aoi[e].last)
    BY <2>3
  <2> HIDE DEF after
  <2> QED
    BY <1>2, <2>2, <2>3, <2>4, EnterType, EnterListed
<1>4. \A e \in Entities : Body(e) \notin DOMAIN after
  BY IdFacts DEF Crossed, Members
<1> HIDE DEF after
<1>5. /\ Each(grid[z], after) \in GridType /\ Listed(Each(grid[z], after))
      /\ \A e \in Entities : Each(grid[z], after).positions[Body(e)] = grid[z].positions[Body(e)]
  BY <1>2, <1>3, <1>4, IdFacts, EachEffect
<1>6. TypeOK'
  <2>1. grid' \in [Zones -> GridType]
    BY <1>1, <1>5 DEF TypeOK
  <2>2. ghosts' \in [Entities -> Zones \cup {NoGhost}]
    BY <1>1 DEF TypeOK
  <2> QED
    BY <1>1, <2>1, <2>2 DEF TypeOK
<1>7. VisitsZone' /\ IndexesListed'
  BY <1>1, <1>5 DEF VisitsZone, IndexesListed, TypeOK
<1>8. LiveIsIndexed'
  BY <1>1, <1>5, KeepsBodies DEF TypeOK
<1> QED
  BY <1>6, <1>7, <1>8

\* Visible sets are recomputed.
LEMMA UpdateVisibilityStep ==
  ASSUME IInv, UpdateVisibility PROVE IInv'
<1> USE DEF IInv
<1> DEFINE z == tick.zone
<1>1. /\ tick.pc = "visible"
      /\ aoi' = [e \in Entities |-> IF e \in Members(z)
                   THEN [visible |-> InRange(z, e), last |-> obj[z][e]] ELSE aoi[e]]
      /\ tick' = [tick EXCEPT !.pc = "zones", !.zone = NoZone]
      /\ UNCHANGED <<zones, indexed, zoneOf, obj, grid, ghosts, overdue>>
  BY DEF UpdateVisibility
<1>2. PICK missed \in SUBSET {e \in Members(z) : Spawned(z, e) \cup Despawned(z, e) # {}} :
        /\ lost' = lost \cup missed
        /\ told' = [e \in Entities |->
                      IF e \in lost \cup missed THEN {}
                      ELSE IF e \in Members(z) THEN (told[e] \cup Spawned(z, e)) \ Despawned(z, e)
                      ELSE told[e]]
  BY DEF UpdateVisibility
<1>3. z \in Zones
  BY <1>1 DEF VisitsZone
<1>4. ASSUME NEW e \in Members(z) PROVE InRange(z, e) \subseteq Ids /\ obj[z][e] \in Points
  <2>1. obj \in [Zones -> [Entities -> Points \cup {NoPos}]]
    BY DEF TypeOK
  <2> HIDE DEF IInv
  <2> QED
    BY <1>3, <1>4, <2>1 DEF InRange, EntitiesInRange, Query, Members
<1>5. aoi' \in [Entities -> [visible : SUBSET Ids, last : Points] \cup {NoState}]
  BY <1>1, <1>4 DEF TypeOK
<1>6. ASSUME NEW e \in Entities PROVE Spawned(z, e) \subseteq Entities
  BY DEF Spawned, Live
<1>7. told' \in [Entities -> SUBSET Entities]
  <2>1. told \in [Entities -> SUBSET Entities]
    BY DEF TypeOK
  <2> HIDE DEF z
  <2> QED
    BY <1>2, <1>6, <2>1
<1>8. lost' \subseteq Entities
  BY <1>2 DEF Members, TypeOK
<1>9. TypeOK'
  BY <1>1, <1>5, <1>7, <1>8 DEF TypeOK
<1>10. VisitsZone' /\ IndexesListed' /\ LiveIsIndexed'
  BY <1>1, KeepsBodies DEF VisitsZone, IndexesListed, TypeOK
<1> QED
  BY <1>9, <1>10

\* Ghosts are swept.
LEMMA SweepGhostsStep ==
  ASSUME IInv, NEW expired \in SUBSET {e \in Entities : ghosts[e] # NoGhost}, SweepGhosts(expired)
  PROVE  IInv'
<1> USE DEF IInv
<1> DEFINE after(z) == [i \in {Ghost(e) : e \in {x \in expired : ghosts[x] = z}}
                          |-> Leave(grid[z], i)]
<1>1. /\ grid' = [z \in Zones |-> Each(grid[z], after(z))]
      /\ ghosts' = [e \in Entities |-> IF e \in expired THEN NoGhost ELSE ghosts[e]]
      /\ tick' = [tick EXCEPT !.pc = "sessions"]
      /\ UNCHANGED <<zones, indexed, zoneOf, obj, aoi, overdue, told, lost>>
  BY DEF SweepGhosts, LeaveGhosts
<1>2. ASSUME NEW z \in Zones
      PROVE  /\ grid'[z] \in GridType /\ Listed(grid'[z])
             /\ \A e \in Entities : grid'[z].positions[Body(e)] = grid[z].positions[Body(e)]
  <2>1. grid[z] \in GridType /\ Listed(grid[z])
    BY DEF TypeOK, IndexesListed
  <2>2. ASSUME NEW i \in DOMAIN after(z) PROVE after(z)[i] \in GridType /\ Listed(after(z)[i])
    <3>1. i \in Ids /\ after(z)[i] = Leave(grid[z], i)
      BY IdFacts
    <3> HIDE DEF after
    <3> QED
      BY <2>1, <3>1, LeaveType, LeaveListed
  <2>3. \A e \in Entities : Body(e) \notin DOMAIN after(z)
    BY IdFacts
  <2>4. grid'[z] = Each(grid[z], after(z))
    BY <1>1
  <2> HIDE DEF after
  <2>5. /\ Each(grid[z], after(z)) \in GridType /\ Listed(Each(grid[z], after(z)))
        /\ \A i \in Ids : Each(grid[z], after(z)).positions[i] =
             IF i \in DOMAIN after(z) THEN after(z)[i].positions[i] ELSE grid[z].positions[i]
    BY <2>1, <2>2, EachEffect
  <2>6. \A e \in Entities : Body(e) \in Ids
    BY IdFacts
  <2> QED
    BY <2>3, <2>4, <2>5, <2>6
<1>3. TypeOK'
  <2>1. grid' \in [Zones -> GridType]
    BY <1>1, <1>2
  <2>2. ghosts' \in [Entities -> Zones \cup {NoGhost}]
    BY <1>1 DEF TypeOK
  <2> QED
    BY <1>1, <2>1, <2>2 DEF TypeOK
<1>4. VisitsZone' /\ IndexesListed'
  BY <1>1, <1>2 DEF VisitsZone, IndexesListed, TypeOK
<1>5. LiveIsIndexed'
  BY <1>1, <1>2, KeepsBodies
<1> QED
  BY <1>3, <1>4, <1>5

\* Sessions whose reconnect window has passed are swept.
LEMMA SweepDisconnectedStep ==
  ASSUME IInv, SweepDisconnected PROVE IInv'
<1> USE DEF IInv
<1> DEFINE after(z) ==
             [i \in {Body(e) : e \in {x \in overdue : zoneOf[x] = z /\ z \in indexed}}
                |-> Leave(grid[z], i)]
<1>1. /\ grid' = [z \in Zones |-> Each(grid[z], after(z))]
      /\ zoneOf' = [e \in Entities |-> IF e \in overdue THEN NoZone ELSE zoneOf[e]]
      /\ aoi' = [e \in Entities |-> IF e \in overdue THEN NoState ELSE aoi[e]]
      /\ told' = [e \in Entities |-> IF e \in overdue THEN {} ELSE told[e]]
      /\ lost' = lost \ overdue /\ overdue' = {}
      /\ tick' = [tick EXCEPT !.pc = "cmds"]
      /\ UNCHANGED <<zones, indexed, obj, ghosts>>
  BY DEF SweepDisconnected
<1>2. ASSUME NEW z \in Zones
      PROVE  /\ grid'[z] \in GridType /\ Listed(grid'[z])
             /\ \A e \in Entities \ overdue :
                  grid'[z].positions[Body(e)] = grid[z].positions[Body(e)]
  <2>1. grid[z] \in GridType /\ Listed(grid[z])
    BY DEF TypeOK, IndexesListed
  <2>2. ASSUME NEW i \in DOMAIN after(z) PROVE after(z)[i] \in GridType /\ Listed(after(z)[i])
    <3>1. i \in Ids /\ after(z)[i] = Leave(grid[z], i)
      BY IdFacts DEF TypeOK
    <3> HIDE DEF after
    <3> QED
      BY <2>1, <3>1, LeaveType, LeaveListed
  <2>3. \A e \in Entities \ overdue : Body(e) \notin DOMAIN after(z)
    BY IdFacts DEF TypeOK
  <2>4. grid'[z] = Each(grid[z], after(z))
    BY <1>1
  <2> HIDE DEF after
  <2> QED
    BY <2>1, <2>2, <2>3, <2>4, IdFacts, EachEffect
<1>3. TypeOK'
  <2>1. grid' \in [Zones -> GridType]
    BY <1>1, <1>2
  <2>2. /\ zoneOf' \in [Entities -> Zones \cup {NoZone}]
        /\ aoi' \in [Entities -> [visible : SUBSET Ids, last : Points] \cup {NoState}]
        /\ told' \in [Entities -> SUBSET Entities]
    BY <1>1 DEF TypeOK
  <2> QED
    BY <1>1, <2>1, <2>2 DEF TypeOK
<1>4. VisitsZone' /\ IndexesListed'
  BY <1>1, <1>2 DEF VisitsZone, IndexesListed, TypeOK
<1>5. LiveIsIndexed'
  <2> SUFFICES ASSUME NEW e \in Live'
               PROVE  /\ zoneOf'[e] \in zones' /\ obj'[zoneOf'[e]][e] # NoPos
                      /\ grid'[zoneOf'[e]].positions[Body(e)] = obj'[zoneOf'[e]][e]
    BY DEF LiveIsIndexed
  <2>1. e \in Entities \ overdue /\ zoneOf'[e] = zoneOf[e] /\ e \in Live
    BY <1>1 DEF Live
  <2>2. zoneOf[e] \in Zones
    BY <2>1 DEF Live, TypeOK
  <2> QED
    BY <1>1, <1>2, <2>1, <2>2 DEF LiveIsIndexed
<1> QED
  BY <1>3, <1>4, <1>5

\* Every step keeps the invariant.
LEMMA IInvStep == IInv /\ [Next]_vars => IInv'
<1> SUFFICES ASSUME IInv, [Next]_vars PROVE IInv'
  OBVIOUS
<1>1. ASSUME UNCHANGED worldVars, UNCHANGED <<told, lost>>, overdue' \subseteq Entities,
             tick' \in [pc : {"cmds", "packets", "list", "zones", "visible", "sessions"},
                        todo : SUBSET Zones, zone : Zones \cup {NoZone}],
             VisitsZone'
      PROVE  IInv'
  BY <1>1, KeepsBodies DEF worldVars, IInv, TypeOK, IndexesListed
<1>2. ASSUME NEW e \in Entities, WindowPasses(e) \/ Reconnected(e) PROVE IInv'
  BY <1>1, <1>2 DEF WindowPasses, Reconnected, IInv, TypeOK, VisitsZone
<1>3. CASE ListZones
  BY <1>1, <1>3 DEF ListZones, IInv, TypeOK, VisitsZone
<1>4. CASE UNCHANGED vars
  BY <1>1, <1>4 DEF vars, worldVars, IInv, TypeOK, VisitsZone
<1> QED
  BY <1>2, <1>3, <1>4, AssignZoneStep, ReleaseZoneStep, AddEntityStep, RemoveEntityStep,
     DispatchStep, SimulateStep, DetectZoneBoundariesStep, UpdateVisibilityStep, SweepGhostsStep,
     SweepDisconnectedStep DEF Next

\* The type invariant of the simulation holds, for all parameters.
THEOREM WorldType == Spec => []TypeOK
BY IInvInit, IInvStep, PTL DEF Spec, IInv

\* A range query finds an entity of the server exactly when it is in range, for
\* any zones, entities, points, cell size and radius, whatever calls the handlers
\* make between the phases of the tick.
THEOREM LiveEntitiesAreFound == Spec => []LiveIsFound
<1>1. IInv => LiveIsFound
  <2> SUFFICES ASSUME IInv, NEW e \in Live
               PROVE  /\ zoneOf[e] \in zones
                      /\ obj[zoneOf[e]][e] # NoPos
                      /\ \A p \in Points :
                           Body(e) \in EntitiesInRange(grid[zoneOf[e]], p, Radius)
                             <=> Within(obj[zoneOf[e]][e], p, Radius)
    BY DEF LiveIsFound
  <2> DEFINE z == zoneOf[e]
  <2>1. /\ z \in zones /\ z \in Zones /\ e \in Entities /\ obj[z][e] # NoPos
        /\ grid[z].positions[Body(e)] = obj[z][e]
    BY DEF IInv, LiveIsIndexed, Live, TypeOK
  <2>2. grid[z] \in GridType /\ Listed(grid[z]) /\ Body(e) \in Present(grid[z])
    BY <2>1, IdFacts DEF IInv, TypeOK, IndexesListed, Present
  <2>3. Radius \in 0 .. Radius
    BY GridAssumption
  <2> QED
    BY <2>1, <2>2, <2>3, RangeExact
<1> QED
  BY IInvInit, IInvStep, <1>1, PTL DEF Spec

----------------------------------------------------------------------------
(* What clients are told                                                   *)

\* Every entity has a visible set.
LiveHasState == \A e \in Live : aoi[e] # NoState

TInv == IInv /\ LiveHasState /\ ToldIsVisible

\* Recomputing the visible sets and publishing the differences keeps both in step.
LEMMA UpdateKeepsTold ==
  ASSUME TInv, UpdateVisibility PROVE (LiveHasState /\ ToldIsVisible)'
<1> DEFINE z == tick.zone
<1>1. /\ aoi' = [e \in Entities |-> IF e \in Members(z)
                   THEN [visible |-> InRange(z, e), last |-> obj[z][e]] ELSE aoi[e]]
      /\ UNCHANGED zoneOf
  BY DEF UpdateVisibility
<1>2. PICK missed \in SUBSET {e \in Members(z) : Spawned(z, e) \cup Despawned(z, e) # {}} :
        /\ lost' = lost \cup missed
        /\ told' = [e \in Entities |->
                      IF e \in lost \cup missed THEN {}
                      ELSE IF e \in Members(z) THEN (told[e] \cup Spawned(z, e)) \ Despawned(z, e)
                      ELSE told[e]]
  BY DEF UpdateVisibility
<1>3. Live' = Live /\ Live \subseteq Entities
  BY <1>1 DEF Live
<1>4. ASSUME NEW e \in Live PROVE aoi'[e] # NoState
  <2>1. CASE e \in Members(z)
    <3>1. z \in Zones
      BY DEF TInv, IInv, VisitsZone, UpdateVisibility
    <3>2. InRange(z, e) \subseteq Ids /\ obj[z][e] \in Points
      <4>1. obj \in [Zones -> [Entities -> Points \cup {NoPos}]]
        BY DEF TInv, IInv, TypeOK
      <4> QED
        BY <1>3, <2>1, <3>1, <4>1 DEF InRange, EntitiesInRange, Query, Members
    <3> QED
      BY <1>1, <1>3, <2>1, <3>2, WorldAssumption
  <2>2. CASE e \notin Members(z)
    BY <1>1, <1>3, <2>2 DEF TInv, LiveHasState
  <2> QED
    BY <2>1, <2>2
<1>5. ASSUME NEW e \in Live, e \notin lost', NEW x \in told'[e]
      PROVE  Body(x) \in aoi'[e].visible
  <2>1. e \in Entities /\ e \notin lost \cup missed
    BY <1>2, <1>3, <1>5
  <2>2. aoi[e] # NoState /\ \A y \in told[e] : Body(y) \in aoi[e].visible
    BY <2>1 DEF TInv, LiveHasState, ToldIsVisible
  <2>3. CASE e \in Members(z)
    <3>1. x \in (told[e] \cup Spawned(z, e)) \ Despawned(z, e)
      BY <1>2, <1>5, <2>1, <2>3
    <3>2. aoi'[e].visible = InRange(z, e)
      BY <1>1, <2>1, <2>3
    <3>3. CASE x \in Spawned(z, e)
      BY <3>2, <3>3 DEF Spawned
    <3>4. CASE x \in told[e]
      <4>1. x \in Entities /\ Body(x) \in Seen(e)
        BY <2>1, <2>2, <3>4 DEF Seen, TInv, IInv, TypeOK
      <4> QED
        BY <3>1, <3>2, <4>1 DEF Despawned
    <3> QED
      BY <3>1, <3>3, <3>4
  <2>4. CASE e \notin Members(z)
    BY <1>1, <1>2, <1>5, <2>1, <2>2, <2>4
  <2> QED
    BY <2>3, <2>4
<1> QED
  BY <1>3, <1>4, <1>5 DEF LiveHasState, ToldIsVisible

\* Every step keeps what clients were told inside the visible sets.
LEMMA TInvStep == TInv /\ [Next]_vars => TInv'
<1> SUFFICES ASSUME TInv, [Next]_vars PROVE TInv'
  OBVIOUS
<1>1. IInv /\ IInv'
  BY IInvStep DEF TInv
<1>0. /\ zoneOf \in [Entities -> Zones \cup {NoZone}] /\ overdue \in SUBSET Entities
      /\ DOMAIN aoi = Entities /\ DOMAIN told = Entities
  BY <1>1 DEF IInv, TypeOK
<1> SUFFICES (LiveHasState /\ ToldIsVisible)'
  BY <1>1 DEF TInv
<1>2. ASSUME UNCHANGED <<zoneOf, aoi, told, lost>> PROVE (LiveHasState /\ ToldIsVisible)'
  BY <1>2 DEF TInv, LiveHasState, ToldIsVisible, Live
<1>3. ASSUME NEW S \in SUBSET Entities,
             zoneOf' = [e \in Entities |-> IF e \in S THEN NoZone ELSE zoneOf[e]],
             \A e \in Entities \ S : aoi'[e] = aoi[e] /\ told'[e] = told[e],
             lost' = lost \ S
      PROVE  (LiveHasState /\ ToldIsVisible)'
  BY <1>3 DEF TInv, LiveHasState, ToldIsVisible, Live
<1>4. ASSUME NEW z \in Zones, ReleaseZone(z) PROVE (LiveHasState /\ ToldIsVisible)'
  <2> DEFINE here == {e \in Entities : zoneOf[e] = z}
  <2>1. /\ zoneOf' = [e \in Entities |-> IF e \in here THEN NoZone ELSE zoneOf[e]]
        /\ aoi' = [e \in Entities |-> IF e \in here THEN NoState ELSE aoi[e]]
        /\ told' = [e \in Entities |-> IF e \in here THEN {} ELSE told[e]]
        /\ lost' = lost \ here /\ here \in SUBSET Entities
    BY <1>4 DEF ReleaseZone
  <2> HIDE DEF here
  <2> QED
    BY <1>3, <2>1
<1>5. CASE SweepDisconnected
  <2>1. /\ overdue \in SUBSET Entities
        /\ zoneOf' = [e \in Entities |-> IF e \in overdue THEN NoZone ELSE zoneOf[e]]
        /\ aoi' = [e \in Entities |-> IF e \in overdue THEN NoState ELSE aoi[e]]
        /\ told' = [e \in Entities |-> IF e \in overdue THEN {} ELSE told[e]]
        /\ lost' = lost \ overdue
    BY <1>0, <1>5 DEF SweepDisconnected
  <2> QED
    BY <1>3, <2>1
<1>6. ASSUME NEW e \in Entities, RemoveEntity(e) PROVE (LiveHasState /\ ToldIsVisible)'
  <2>1. /\ zoneOf' = [f \in Entities |-> IF f \in {e} THEN NoZone ELSE zoneOf[f]]
        /\ \A f \in Entities \ {e} : aoi'[f] = aoi[f] /\ told'[f] = told[f]
        /\ lost' = lost \ {e}
    BY <1>0, <1>6 DEF RemoveEntity
  <2> QED
    BY <1>3, <2>1
<1>7. ASSUME NEW e \in Entities, NEW z \in Zones, NEW p \in Points, AddEntity(e, z, p)
      PROVE  (LiveHasState /\ ToldIsVisible)'
  <2>1. /\ \A f \in Entities \ {e} : /\ zoneOf'[f] = zoneOf[f] /\ aoi'[f] = aoi[f]
                                     /\ told'[f] = told[f]
        /\ aoi'[e] = [visible |-> {}, last |-> p] /\ told'[e] = {}
        /\ lost' = lost \ {e}
    BY <1>0, <1>7 DEF AddEntity
  <2>2. aoi'[e] # NoState
    <3>1. [visible |-> {}, last |-> p] # NoState
      BY WorldAssumption
    <3> QED
      BY <2>1, <3>1
  <2> QED
    BY <2>1, <2>2 DEF TInv, LiveHasState, ToldIsVisible, Live
<1>8. CASE UpdateVisibility
  BY <1>8, UpdateKeepsTold
<1>9. ASSUME NEW e \in Entities, NEW p \in Points, Dispatch(e, p) PROVE (LiveHasState /\ ToldIsVisible)'
  BY <1>2, <1>9 DEF Dispatch
<1>10. ASSUME NEW z \in Zones, AssignZone(z) \/ DetectZoneBoundaries(z)
       PROVE  (LiveHasState /\ ToldIsVisible)'
  BY <1>2, <1>10 DEF AssignZone, DetectZoneBoundaries
<1>11. ASSUME NEW e \in Entities, WindowPasses(e) \/ Reconnected(e)
       PROVE  (LiveHasState /\ ToldIsVisible)'
  BY <1>2, <1>11 DEF WindowPasses, Reconnected, worldVars
<1>12. CASE Simulate \/ ListZones \/ UNCHANGED vars
  BY <1>2, <1>12 DEF Simulate, ListZones, worldVars, vars
<1>13. ASSUME NEW expired \in SUBSET {e \in Entities : ghosts[e] # NoGhost}, SweepGhosts(expired)
       PROVE  (LiveHasState /\ ToldIsVisible)'
  BY <1>2, <1>13 DEF SweepGhosts
<1> QED
  BY <1>4, <1>5, <1>6, <1>7, <1>8, <1>9, <1>10, <1>11, <1>12, <1>13 DEF Next

\* A client that lost no event will be told when anything it was told of goes,
\* for any number of players, behaviours, zones and points.
THEOREM ClientsFollow == Spec => []ToldIsVisible
<1>1. Init => TInv
  BY IInvInit DEF TInv, Init, LiveHasState, ToldIsVisible, Live
<1> QED
  BY <1>1, TInvStep, PTL DEF Spec, TInv

----------------------------------------------------------------------------
(* Ghosts of a server with one zone                                        *)

\* What a batch of index operations leaves as the position of one id.
LEMMA EachAt ==
  ASSUME NEW g, NEW after, NEW i \in Ids
  PROVE  Each(g, after).positions[i] = IF i \in DOMAIN after THEN after[i].positions[i]
                                       ELSE g.positions[i]
BY DEF Each

\* An id no call is made for keeps its position.
LEMMA EachKeeps ==
  ASSUME NEW g, NEW after, NEW i \in Ids, i \notin DOMAIN after, NEW h, h = Each(g, after)
  PROVE  h.positions[i] = g.positions[i]
BY EachAt

\* An id a call is made for has the position that call leaves it.
LEMMA EachSets ==
  ASSUME NEW g, NEW after, NEW i \in Ids, i \in DOMAIN after, NEW h, h = Each(g, after)
  PROVE  h.positions[i] = after[i].positions[i]
BY EachAt

\* Removing an entity leaves the ghosts of an index alone.
LEMMA GhostsKept ==
  ASSUME NEW g \in GridType, NEW e \in Entities, NEW f \in Entities
  PROVE  Leave(g, Body(e)).positions[Ghost(f)] = g.positions[Ghost(f)]
<1>1. Body(e) \in Ids /\ Ghost(f) \in Ids /\ Body(e) # Ghost(f)
  BY IdFacts
<1>2. g.positions \in [Ids -> Points \cup {NoPos}]
  BY DEF GridType
<1>3. \/ Leave(g, Body(e)) = g
      \/ Leave(g, Body(e)).positions = [g.positions EXCEPT ![Body(e)] = NoPos]
  BY DEF Leave
<1> QED
  BY <1>1, <1>2, <1>3

\* So does entering or moving one.
LEMMA GhostsApart ==
  ASSUME NEW g \in GridType, NEW e \in Entities, NEW f \in Entities, NEW p \in Points, Listed(g)
  PROVE  /\ Enter(g, Body(e), p).positions[Ghost(f)] = g.positions[Ghost(f)]
         /\ Move(g, Body(e), p).positions[Ghost(f)] = g.positions[Ghost(f)]
<1>1. Body(e) \in Ids /\ Ghost(f) \in Ids /\ Body(e) # Ghost(f)
  BY IdFacts
<1>2. g.positions \in [Ids -> Points \cup {NoPos}]
  BY DEF GridType
<1>3. Enter(g, Body(e), p).positions = [g.positions EXCEPT ![Body(e)] = p]
  BY DEF Enter
<1>4. Move(g, Body(e), p).positions = [g.positions EXCEPT ![Body(e)] = p]
  BY <1>1, MoveListed
<1> QED
  BY <1>1, <1>2, <1>3, <1>4

\* In a server with one zone, every step keeps g.ghosts and the index in step.
LEMMA GhostStep ==
  ASSUME NEW z, Zones = {z}, IInv, GhostIsTracked, [Next]_vars
  PROVE  GhostIsTracked'
<1> DEFINE In(e) == grid[z].positions[Ghost(e)] # NoPos
           InNext(e) == grid'[z].positions[Ghost(e)] # NoPos
<1>0. /\ zoneOf \in [Entities -> Zones \cup {NoZone}] /\ overdue \subseteq Entities
      /\ ghosts \in [Entities -> Zones \cup {NoGhost}] /\ DOMAIN grid = Zones
  BY DEF IInv, TypeOK
<1>1. /\ grid[z] \in GridType /\ Listed(grid[z]) /\ z \in Zones
      /\ \A e \in Entities : In(e) <=> ghosts[e] = z
  BY IdFacts DEF IInv, TypeOK, IndexesListed, GhostIsTracked, Present
<1> SUFFICES ASSUME NEW e \in Entities PROVE InNext(e) <=> ghosts'[e] = z
  BY IdFacts DEF GhostIsTracked, Present
<1>2. ASSUME grid'[z].positions[Ghost(e)] = grid[z].positions[Ghost(e)], ghosts'[e] = ghosts[e]
      PROVE  InNext(e) <=> ghosts'[e] = z
  BY <1>1, <1>2
<1>3. CASE ReleaseZone(z)
  <2>1. grid'[z] = New /\ ghosts'[e] # z
    BY <1>0, <1>1, <1>3, WorldAssumption DEF ReleaseZone
  <2>2. New.positions[Ghost(e)] = NoPos
    BY IdFacts DEF New
  <2> QED
    BY <2>1, <2>2
<1>4. ASSUME NEW f \in Entities, NEW p \in Points, AddEntity(f, z, p) PROVE InNext(e) <=> ghosts'[e] = z
  <2>1. grid'[z] = Enter(grid[z], Body(f), p) /\ ghosts' = ghosts
    BY <1>0, <1>1, <1>4 DEF AddEntity
  <2>2. Enter(grid[z], Body(f), p).positions[Ghost(e)] = grid[z].positions[Ghost(e)]
    BY <1>1, GhostsApart
  <2> QED
    BY <1>2, <2>1, <2>2
<1>5. ASSUME NEW f \in Entities, RemoveEntity(f) PROVE InNext(e) <=> ghosts'[e] = z
  <2>1. zoneOf[f] = z
    BY <1>0, <1>1, <1>5 DEF RemoveEntity
  <2>2. grid'[z] = Leave(grid[z], Body(f)) /\ ghosts' = ghosts
    BY <1>0, <1>1, <1>5, <2>1 DEF RemoveEntity
  <2>3. Leave(grid[z], Body(f)).positions[Ghost(e)] = grid[z].positions[Ghost(e)]
    BY <1>1, GhostsKept
  <2> QED
    BY <1>2, <2>2, <2>3
<1>6. ASSUME NEW f \in Entities, NEW p \in Points, Dispatch(f, p) PROVE InNext(e) <=> ghosts'[e] = z
  <2>1. zoneOf[f] = z
    BY <1>0, <1>1, <1>6 DEF Dispatch, Live
  <2>2. grid'[z] = Move(grid[z], Body(f), p) /\ ghosts' = ghosts
    BY <1>0, <1>1, <1>6, <2>1 DEF Dispatch, MoveObject
  <2>3. Move(grid[z], Body(f), p).positions[Ghost(e)] = grid[z].positions[Ghost(e)]
    BY <1>1, GhostsApart
  <2> QED
    BY <1>2, <2>2, <2>3
<1>7. CASE Simulate
  <2>1. PICK to \in [Live \cap NPCs -> Points] :
          grid' = [y \in Zones |->
                     Each(grid[y], [i \in {Body(n) : n \in {m \in Live \cap NPCs : zoneOf[m] = y}}
                                      |-> Move(grid[y], i, to[i[1]])])]
    BY <1>7 DEF Simulate
  <2>2. Ghost(e) \notin {Body(n) : n \in {m \in Live \cap NPCs : zoneOf[m] = z}} /\ Ghost(e) \in Ids
    BY IdFacts DEF Live
  <2>3. grid'[z].positions[Ghost(e)] = grid[z].positions[Ghost(e)]
    <3> DEFINE after == [i \in {Body(n) : n \in {m \in Live \cap NPCs : zoneOf[m] = z}}
                           |-> Move(grid[z], i, to[i[1]])]
    <3>1. grid'[z] = Each(grid[z], after)
      BY <1>1, <2>1
    <3>2. Ghost(e) \notin DOMAIN after
      BY <2>2
    <3> HIDE DEF after
    <3> QED
      BY <2>2, <3>1, <3>2, EachAt
  <2> QED
    BY <1>2, <1>7, <2>3 DEF Simulate
<1>8. CASE DetectZoneBoundaries(z)
  <2> DEFINE after == [i \in {Ghost(f) : f \in Crossed(z)} |-> Enter(grid[z], i, aoi[i[1]].last)]
  <2>1. grid'[z] = Each(grid[z], after) /\ Ghost(e) \in Ids
    BY <1>0, <1>1, <1>8, IdFacts DEF DetectZoneBoundaries
  <2>2. CASE e \in Crossed(z)
    <3>1. aoi[e].last \in Points
      BY <2>2 DEF Crossed, Members, IInv, TypeOK
    <3>2. Ghost(e) \in DOMAIN after /\ Ghost(e)[1] = e
      BY <2>2, IdFacts
    <3>3. after[Ghost(e)] = Enter(grid[z], Ghost(e), aoi[e].last)
      BY <3>2
    <3>4. after[Ghost(e)].positions[Ghost(e)] = aoi[e].last
      <4>1. Enter(grid[z], Ghost(e), aoi[e].last).positions[Ghost(e)] = aoi[e].last
        <5>1. grid[z] \in GridType
          BY <1>1
        <5>2. Ghost(e) \in Ids
          BY <2>1
        <5> QED
          BY <3>1, <5>1, <5>2, EnterEffect
      <4> QED
        BY <3>3, <4>1
    <3> HIDE DEF after
    <3>5. grid'[z].positions[Ghost(e)] = aoi[e].last
      BY <2>1, <3>2, <3>4, EachSets
    <3>6. ghosts'[e] = z
      BY <1>8, <2>2 DEF DetectZoneBoundaries
    <3> QED
      BY <3>1, <3>5, <3>6, GridAssumption
  <2>3. CASE e \notin Crossed(z)
    <3>1. Ghost(e) \notin DOMAIN after
      BY <2>3, IdFacts DEF Crossed, Members
    <3> HIDE DEF after
    <3>2. grid'[z].positions[Ghost(e)] = grid[z].positions[Ghost(e)]
      <4>1. grid'[z] = Each(grid[z], after)
        BY <2>1
      <4>2. Ghost(e) \in Ids
        BY <2>1
      <4> QED
        BY <3>1, <4>1, <4>2 DEF Each
    <3>3. ghosts'[e] = ghosts[e]
      BY <1>8, <2>3 DEF DetectZoneBoundaries
    <3> QED
      BY <1>2, <3>2, <3>3
  <2> QED
    BY <2>2, <2>3
<1>9. ASSUME NEW expired \in SUBSET {f \in Entities : ghosts[f] # NoGhost}, SweepGhosts(expired)
      PROVE  InNext(e) <=> ghosts'[e] = z
  <2> DEFINE after == [i \in {Ghost(f) : f \in {x \in expired : ghosts[x] = z}} |-> Leave(grid[z], i)]
  <2>1. grid'[z] = Each(grid[z], after) /\ Ghost(e) \in Ids
    BY <1>1, <1>9, IdFacts DEF SweepGhosts, LeaveGhosts
  <2>2. ghosts'[e] = IF e \in expired THEN NoGhost ELSE ghosts[e]
    BY <1>9 DEF SweepGhosts
  <2>3. CASE e \in expired
    <3>1. ghosts[e] = z
      BY <2>3 DEF IInv, TypeOK
    <3>2. Ghost(e) \in DOMAIN after /\ after[Ghost(e)] = Leave(grid[z], Ghost(e))
      BY <2>3, <3>1
    <3>3. Ghost(e) \in Present(grid[z])
      BY <1>1, <2>1, <3>1 DEF Present
    <3>4. Leave(grid[z], Ghost(e)).positions[Ghost(e)] = NoPos
      <4>1. Ghost(e) \notin Present(Leave(grid[z], Ghost(e)))
        <5>1. grid[z] \in GridType
          BY <1>1
        <5> QED
          BY <3>3, <5>1, LeaveEffect
      <4> QED
        BY <2>1, <4>1 DEF Present
    <3> HIDE DEF after
    <3>5. grid'[z].positions[Ghost(e)] = NoPos
      BY <2>1, <3>2, <3>4, EachSets
    <3> QED
      BY <2>2, <2>3, <3>5, <1>1, WorldAssumption
  <2>4. CASE e \notin expired
    <3>1. Ghost(e) \notin DOMAIN after
      BY <2>4, IdFacts
    <3> HIDE DEF after
    <3>2. grid'[z].positions[Ghost(e)] = grid[z].positions[Ghost(e)]
      <4>1. grid'[z] = Each(grid[z], after)
        BY <2>1
      <4>2. Ghost(e) \in Ids
        BY <2>1
      <4> QED
        BY <3>1, <4>1, <4>2 DEF Each
    <3> QED
      BY <1>2, <2>2, <2>4, <3>2
  <2> QED
    BY <2>3, <2>4
<1>10. CASE SweepDisconnected
  <2>1. grid'[z] = Each(grid[z],
                        [i \in {Body(f) : f \in {x \in overdue : zoneOf[x] = z /\ z \in indexed}}
                           |-> Leave(grid[z], i)])
    BY <1>1, <1>10 DEF SweepDisconnected
  <2>2. /\ Ghost(e) \notin {Body(f) : f \in {x \in overdue : zoneOf[x] = z /\ z \in indexed}}
        /\ Ghost(e) \in Ids
    BY <1>0, IdFacts
  <2>3. grid'[z].positions[Ghost(e)] = grid[z].positions[Ghost(e)]
    <3> DEFINE after == [i \in {Body(f) : f \in {x \in overdue : zoneOf[x] = z /\ z \in indexed}}
                           |-> Leave(grid[z], i)]
    <3>1. grid'[z] = Each(grid[z], after) /\ Ghost(e) \notin DOMAIN after
      BY <2>1, <2>2
    <3> HIDE DEF after
    <3> QED
      BY <2>2, <3>1, EachKeeps
  <2> QED
    BY <1>2, <1>10, <2>3 DEF SweepDisconnected
<1>11. ASSUME UNCHANGED <<grid, ghosts>> PROVE InNext(e) <=> ghosts'[e] = z
  BY <1>2, <1>11
<1>12. CASE AssignZone(z) \/ ListZones \/ UpdateVisibility \/ UNCHANGED vars
  BY <1>11, <1>12 DEF AssignZone, ListZones, UpdateVisibility, worldVars, vars
<1>13. ASSUME NEW f \in Entities, WindowPasses(f) \/ Reconnected(f)
       PROVE  InNext(e) <=> ghosts'[e] = z
  BY <1>11, <1>13 DEF WindowPasses, Reconnected, worldVars
<1> HIDE DEF InNext
<1> QED
  BY <1>3, <1>4, <1>5, <1>6, <1>7, <1>8, <1>9, <1>10, <1>12, <1>13 DEF Next

\* On a server with one zone sweepGhosts finds every ghost of the index, for any
\* number of entities and points.
THEOREM GhostsAreTracked ==
  ASSUME NEW z, Zones = {z}
  PROVE  Spec => []GhostIsTracked
<1>1. Init => IInv /\ GhostIsTracked
  <2> SUFFICES ASSUME Init, NEW y \in Zones, NEW e \in Entities
               PROVE  Ghost(e) \notin Present(grid[y]) /\ ghosts[e] # y
    BY IInvInit DEF GhostIsTracked
  <2>1. grid[y] = New /\ ghosts[e] = NoGhost
    BY DEF Init
  <2>2. Ghost(e) \notin Present(New)
    BY IdFacts DEF Present, New
  <2> QED
    BY <2>1, <2>2, WorldAssumption
<1>2. IInv /\ GhostIsTracked /\ [Next]_vars => IInv' /\ GhostIsTracked'
  BY IInvStep, GhostStep
<1> QED
  BY <1>1, <1>2, PTL DEF Spec

-----------------------------------------------------------------------------
(* The NPCs. *)

\* As in NPCTypeOK, with a leg that is one of the route's.
INPC ==
  /\ NPCTypeOK
  /\ route # <<>> => leg < Len(route)

\* moveAxis never leaves an interval its two ends are in.
LEMMA MoveStays ==
  ASSUME NEW lo \in Int, NEW hi \in Int, NEW pos \in lo .. hi, NEW target \in lo .. hi,
         NEW delta \in Nat
  PROVE  moveAxis(pos, target, delta) \in lo .. hi
BY DEF moveAxis

\* moveAxis of integers.
LEMMA MoveInt ==
  ASSUME NEW pos \in Int, NEW target \in Int, NEW delta \in Nat
  PROVE  moveAxis(pos, target, delta) \in Int
BY DEF moveAxis

\* The next leg is one of the route's.
LEMMA LegType ==
  ASSUME NEW l \in Nat, NEW n \in Nat, n > 0
  PROVE  (l + 1) % n \in 0 .. n /\ (l + 1) % n < n
OBVIOUS

\* An element of a sequence.
LEMMA ElementType == ASSUME NEW S, NEW s \in Seq(S), NEW i \in 1 .. Len(s) PROVE s[i] \in S
OBVIOUS

\* The patrol is on its first leg and the wanderer at its origin.
LEMMA INPCInit == NPCInit => INPC
<1> SUFFICES ASSUME NPCInit PROVE INPC
  OBVIOUS
<1>1. /\ Origin.x \in Int /\ Origin.z \in Int /\ WanderRadius \in Nat
      /\ Origin = [x |-> Origin.x, z |-> Origin.z]
      /\ route \in Seq([x : Int, z : Int])
  BY NPCAssumption DEF NPCInit
<1>2. Len(route) \in Nat /\ (route # <<>> => 0 < Len(route))
  BY <1>1
<1>3. wander \in [x : Origin.x - WanderRadius .. Origin.x + WanderRadius,
                  z : Origin.z - WanderRadius .. Origin.z + WanderRadius]
  BY <1>1 DEF NPCInit
<1>4. Zero \in [x : Int, z : Int]
  BY DEF Zero
<1>5. leg \in 0 .. Len(route) /\ (route # <<>> => leg < Len(route))
  BY <1>2 DEF NPCInit
<1> QED
  BY <1>3, <1>4, <1>5 DEF NPCInit, INPC, NPCTypeOK

\* A patrol moves towards its waypoint.
LEMMA INPCPatrol == ASSUME INPC, NEW delta \in 0 .. MaxDelta, PatrolStep(delta) PROVE INPC'
<1> DEFINE wp == route[leg + 1]
<1>1. route # <<>> /\ route \in Seq([x : Int, z : Int]) /\ delta \in Nat
  <2>1. route \in Routes
    BY DEF INPC, NPCTypeOK
  <2>2. route # <<>>
    BY DEF PatrolStep
  <2>3. MaxDelta \in Nat /\ Routes \subseteq Seq([x : Int, z : Int])
    BY NPCAssumption
  <2> QED
    BY <2>1, <2>2, <2>3
<1>2. Len(route) \in Nat /\ leg \in Nat /\ leg < Len(route) /\ leg + 1 \in 1 .. Len(route)
  BY <1>1 DEF INPC, NPCTypeOK
<1>3. wp \in [x : Int, z : Int]
  BY <1>1, <1>2, ElementType
<1>4. wp.x \in Int /\ wp.z \in Int /\ patrol.x \in Int /\ patrol.z \in Int
  BY <1>3 DEF INPC, NPCTypeOK
<1>5. patrol' = [x |-> moveAxis(patrol.x, wp.x, delta), z |-> moveAxis(patrol.z, wp.z, delta)]
      /\ UNCHANGED <<route, wander, goal, pause>>
  BY DEF PatrolStep
<1>6. leg' = leg \/ leg' = (leg + 1) % Len(route)
  BY DEF PatrolStep, NextLeg
<1> HIDE DEF wp
<1>7. patrol' \in [x : Int, z : Int]
  BY <1>1, <1>4, <1>5, MoveInt
<1>8. leg' \in 0 .. Len(route) /\ leg' < Len(route)
  BY <1>2, <1>6, LegType
<1> QED
  BY <1>5, <1>7, <1>8 DEF INPC, NPCTypeOK

\* A wanderer moves one axis at a time, between points of the square.
LEMMA INPCWander ==
  ASSUME INPC, NEW delta \in 0 .. MaxDelta, NEW target \in Goals \cup {Zero},
         WanderStep(target, delta)
  PROVE  INPC'
<1> DEFINE X == Origin.x - WanderRadius .. Origin.x + WanderRadius
           Z == Origin.z - WanderRadius .. Origin.z + WanderRadius
<1>1. target \in Goals /\ delta \in Nat
  BY NPCAssumption DEF WanderStep, INPC, NPCTypeOK
<1>2. target \in [x : X, z : Z] /\ wander \in [x : X, z : Z]
  BY <1>1 DEF Goals, INPC, NPCTypeOK
<1>3. target.x \in X /\ target.z \in Z /\ wander.x \in X /\ wander.z \in Z
  <2> HIDE DEF X, Z
  <2> QED
    BY <1>2
<1>4. moveAxis(wander.x, target.x, delta) \in X /\ moveAxis(wander.z, target.z, delta) \in Z
  <2>1. /\ Origin.x - WanderRadius \in Int /\ Origin.x + WanderRadius \in Int
        /\ Origin.z - WanderRadius \in Int /\ Origin.z + WanderRadius \in Int
    BY NPCAssumption
  <2> QED
    BY <1>1, <1>3, <2>1, MoveStays
<1>5. wander' \in [x : X, z : Z]
  <2> HIDE DEF X, Z
  <2>1. wander' = [wander EXCEPT !.x = moveAxis(wander.x, target.x, delta)]
        \/ wander' = [wander EXCEPT !.z = moveAxis(wander.z, target.z, delta)]
    BY DEF WanderStep
  <2> QED
    BY <1>2, <1>4, <2>1
<1>6. /\ UNCHANGED <<route, leg, patrol>>
      /\ goal' \in Goals \cup {Zero} /\ pause' \in BOOLEAN
  BY <1>1 DEF WanderStep
<1> QED
  BY <1>5, <1>6 DEF INPC, NPCTypeOK

\* The invariant is inductive.
LEMMA INPCNext == INPC /\ [NPCNext]_npcVars => INPC'
<1> SUFFICES ASSUME INPC, [NPCNext]_npcVars PROVE INPC'
  OBVIOUS
<1>1. CASE PauseEnds \/ UNCHANGED npcVars
  BY <1>1 DEF PauseEnds, npcVars, INPC, NPCTypeOK
<1> QED
  BY <1>1, INPCPatrol, INPCWander DEF NPCNext

\* A wanderer keeps to the square around its circle, and a patrol to the legs
\* of its route, whatever the lengths of the ticks.
THEOREM NPCsStayInBounds == NPCSpec => []NPCTypeOK
<1>1. INPC => NPCTypeOK
  BY DEF INPC
<1> QED
  BY <1>1, INPCInit, INPCNext, PTL DEF NPCSpec

\* moveAxis comes nearer to the target or stays there.
LEMMA MoveNears ==
  ASSUME NEW pos \in Int, NEW target \in Int, NEW delta \in Nat, delta > 0
  PROVE  LET new == moveAxis(pos, target, delta)
         IN /\ Gap(pos, target) \in Nat /\ Gap(new, target) \in Nat
            /\ Gap(new, target) <= Gap(pos, target)
            /\ new = target \/ Gap(new, target) < Gap(pos, target)
<1> DEFINE new == moveAxis(pos, target, delta)
<1>1. CASE target - pos \in -delta .. delta
  <2>1. new = target
    BY <1>1 DEF moveAxis
  <2> QED
    BY <2>1 DEF Gap
<1>2. CASE target - pos \notin -delta .. delta /\ target > pos
  <2>1. new = pos + delta /\ pos + delta < target
    BY <1>2 DEF moveAxis
  <2> QED
    BY <1>2, <2>1 DEF Gap
<1>3. CASE target - pos \notin -delta .. delta /\ ~ (target > pos)
  <2>1. new = pos - delta /\ pos - delta > target
    BY <1>3 DEF moveAxis
  <2> QED
    BY <1>3, <2>1 DEF Gap
<1> QED
  BY <1>1, <1>2, <1>3

\* A sum of which one part gets smaller and the other no larger.
LEMMA OneNearer ==
  ASSUME NEW a \in Nat, NEW b \in Nat, NEW c \in Nat, NEW d \in Nat,
         c <= a, d <= b, c < a \/ d < b
  PROVE  c + d < a + b
OBVIOUS

\* Every tick that takes time ends the leg or shortens it, for any route and any
\* lengths of the ticks: the variant that PatrolVisitsAll rests on.
THEOREM PatrolsComeNearer == NPCSpec => PatrolNears
<1> DEFINE Nears == \A delta \in 1 .. MaxDelta : PatrolStep(delta) =>
              \/ patrol' = route[leg + 1] /\ leg' = (leg + 1) % Len(route)
              \/ leg' = leg /\ Left' < Left
<1>1. INPC /\ [NPCNext]_npcVars => INPC' /\ [Nears]_npcVars
  <2> SUFFICES ASSUME INPC, [NPCNext]_npcVars, NEW delta \in 1 .. MaxDelta, PatrolStep(delta),
                      patrol' # route[leg + 1]
               PROVE  leg' = leg /\ Left' < Left
    BY INPCNext DEF PatrolStep, NextLeg
  <2> DEFINE wp == route[leg + 1]
             px == moveAxis(patrol.x, wp.x, delta)
             pz == moveAxis(patrol.z, wp.z, delta)
  <2>1. /\ route # <<>> /\ route \in Seq([x : Int, z : Int])
        /\ delta \in Nat /\ delta > 0
    <3>1. MaxDelta \in Nat /\ route \in Routes
      BY NPCAssumption DEF INPC, NPCTypeOK
    <3>2. delta \in Nat /\ delta > 0
      BY <3>1
    <3> QED
      BY <3>1, <3>2, NPCAssumption DEF PatrolStep
  <2>2. leg + 1 \in 1 .. Len(route)
    BY <2>1 DEF INPC, NPCTypeOK
  <2>3. wp \in [x : Int, z : Int] /\ patrol \in [x : Int, z : Int]
    BY <2>1, <2>2, ElementType DEF INPC, NPCTypeOK
  <2>4. patrol' = [x |-> px, z |-> pz] /\ leg' = leg /\ route' = route
    BY DEF PatrolStep, NextLeg
  <2>5. /\ Gap(patrol.x, wp.x) \in Nat /\ Gap(px, wp.x) \in Nat
        /\ Gap(px, wp.x) <= Gap(patrol.x, wp.x)
        /\ px = wp.x \/ Gap(px, wp.x) < Gap(patrol.x, wp.x)
    BY <2>1, <2>3, MoveNears
  <2>6. /\ Gap(patrol.z, wp.z) \in Nat /\ Gap(pz, wp.z) \in Nat
        /\ Gap(pz, wp.z) <= Gap(patrol.z, wp.z)
        /\ pz = wp.z \/ Gap(pz, wp.z) < Gap(patrol.z, wp.z)
    BY <2>1, <2>3, MoveNears
  <2>7. px # wp.x \/ pz # wp.z
    BY <2>3, <2>4
  <2>8. /\ Left = Gap(patrol.x, wp.x) + Gap(patrol.z, wp.z)
        /\ Left' = Gap(px, wp.x) + Gap(pz, wp.z)
    BY <2>4 DEF Left
  <2> HIDE DEF wp, px, pz
  <2> QED
    <3>1. Gap(px, wp.x) < Gap(patrol.x, wp.x) \/ Gap(pz, wp.z) < Gap(patrol.z, wp.z)
      BY <2>5, <2>6, <2>7
    <3>2. Gap(px, wp.x) + Gap(pz, wp.z) < Gap(patrol.x, wp.x) + Gap(patrol.z, wp.z)
      BY <2>5, <2>6, <3>1, OneNearer
    <3> QED
      BY <2>4, <2>8, <3>2
<1>2. NPCSpec => [][Nears]_npcVars
  BY <1>1, INPCInit, PTL DEF NPCSpec
<1> QED
  BY <1>2 DEF PatrolNears
============================================================================
