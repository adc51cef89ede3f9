----------------------------- MODULE IndexProofs ----------------------------
(***************************************************************************)
(* Theorems about the area-of-interest index and about the zones of a      *)
(* server that use one, for every set of ids, zones and points, every cell *)
(* size and every radius.                                                  *)
(***************************************************************************)
EXTENDS AOI, ZoneState, AOIGridProofs

\* The type invariant of the index.
LEMMA TypeStep == TypeOK /\ [Next]_vars => TypeOK'
<1> SUFFICES ASSUME TypeOK, [Next]_vars PROVE TypeOK'
  OBVIOUS
<1>1. ASSUME NEW id \in Ids, NEW p \in Points, EnterEntity(id, p) PROVE TypeOK'
  BY <1>1, EnterType DEF TypeOK, EnterEntity
<1>2. ASSUME NEW id \in Ids, NEW p \in Points, MoveEntity(id, p) PROVE TypeOK'
  BY <1>2, MoveType DEF TypeOK, MoveEntity
<1>3. ASSUME NEW id \in Ids, LeaveEntity(id) PROVE TypeOK'
  BY <1>3, LeaveType DEF TypeOK, LeaveEntity
<1>4. CASE Transfer
  <2>1. Serialize(grid) \in [Ids -> Points \cup {NoPos}]
    BY DEF TypeOK, GridType, Serialize
  <2> QED
    BY <1>4, <2>1, DeserializeType DEF TypeOK, Transfer
<1>5. CASE TransferEmpty
  BY <1>5, NewType DEF TypeOK, TransferEmpty
<1>6. CASE UNCHANGED vars
  BY <1>6 DEF TypeOK, vars
<1> QED
  BY <1>1, <1>2, <1>3, <1>4, <1>5, <1>6 DEF Next

----------------------------------------------------------------------------
\* However Enter is called, no step takes an id out of the list of its cell.
LEMMA ListedStep == TypeOK /\ Listed(grid) /\ [Next]_vars => Listed(grid)'
<1> SUFFICES ASSUME TypeOK, Listed(grid), [Next]_vars PROVE Listed(grid)'
  OBVIOUS
<1> USE DEF TypeOK
<1>0. TypeOK'
  BY TypeStep
<1>1. ASSUME NEW id \in Ids, NEW p \in Points, EnterEntity(id, p) PROVE Listed(grid)'
  BY <1>1, EnterListed DEF EnterEntity
<1>2. ASSUME NEW id \in Ids, LeaveEntity(id) PROVE Listed(grid)'
  BY <1>2, LeaveListed DEF LeaveEntity
<1>3. ASSUME NEW id \in Ids, NEW p \in Points, MoveEntity(id, p) PROVE Listed(grid)'
  BY <1>3, MoveListed DEF MoveEntity
<1>4. CASE Transfer
  BY <1>0, <1>4, KeyType DEF Transfer, Deserialize, Serialize, Listed, Present, GridType
<1>5. CASE TransferEmpty
  BY <1>5 DEF TransferEmpty, New, Listed, Present
<1>6. CASE UNCHANGED vars
  BY <1>6 DEF Listed, Present, vars
<1> QED
  BY <1>1, <1>2, <1>3, <1>4, <1>5, <1>6 DEF Next

\* The inductive invariant: the type, and every id is in the list of its cell.
LEMMA IndexInvariant == Spec => [](TypeOK /\ Listed(grid))
<1>1. Init => TypeOK /\ Listed(grid)
  BY NewType DEF Init, TypeOK, Listed, Present, New
<1>2. TypeOK /\ Listed(grid) /\ [Next]_vars => TypeOK' /\ Listed(grid)'
  BY TypeStep, ListedStep
<1> QED
  BY <1>1, <1>2, PTL DEF Spec

\* The type invariant of the index holds, for all parameters.
THEOREM IndexType == Spec => []TypeOK
BY IndexInvariant, PTL

\* EntitiesInRange, for radii up to the radius of the index, is exact for the
\* ids the index holds, for every cell size and radius and whether or not
\* Enter is called for ids that are already there.
THEOREM RangeQueriesAreExact == Spec => []PresentAreFound
<1>1. TypeOK /\ Listed(grid) => PresentAreFound
  <2> SUFFICES ASSUME TypeOK, Listed(grid), NEW c \in Points, NEW r \in 0 .. Radius,
                      NEW id \in Present(grid)
               PROVE  id \in EntitiesInRange(grid, c, r) <=> Within(grid.positions[id], c, r)
    BY DEF PresentAreFound
  <2> QED
    BY RangeExact DEF TypeOK
<1> QED
  BY IndexInvariant, <1>1, PTL

----------------------------------------------------------------------------
(* Only repeated Enter calls leave phantoms                                *)

\* Apart from the ids in twice, every id with a position is listed once, in the
\* cell of its position, and no other id is listed anywhere.
ListedOnce(g, twice) ==
  \A id \in Ids \ twice, k \in Keys :
    g.cells[id][k] = IF id \in Present(g) /\ CellKeyFor(g.positions[id]) = k THEN 1 ELSE 0

\* No step lists an id twice, or leaves one listed, other than the ids entered
\* while the index had them.
LEMMA ListedOnceStep ==
  TypeOK /\ Listed(grid) /\ ListedOnce(grid, reentered) /\ [Next]_vars => ListedOnce(grid, reentered)'
<1> SUFFICES ASSUME TypeOK, Listed(grid), ListedOnce(grid, reentered), [Next]_vars PROVE ListedOnce(grid, reentered)'
  OBVIOUS
<1> USE DEF TypeOK
<1>0. ASSUME NEW id \in Ids,
             reentered \subseteq reentered',
             \A j \in Ids \ {id} : /\ grid'.positions[j] = grid.positions[j]
                                   /\ grid'.cells[j] = grid.cells[j]
                                   /\ j \in Present(grid') <=> j \in Present(grid),
             id \in reentered'
               \/ \A k \in Keys : grid'.cells[id][k] =
                    IF id \in Present(grid') /\ CellKeyFor(grid'.positions[id]) = k THEN 1 ELSE 0
      PROVE  ListedOnce(grid, reentered)'
  BY <1>0 DEF ListedOnce
<1>1. ASSUME NEW id \in Ids \ Present(grid), NEW p \in Points, grid' = Enter(grid, id, p),
             UNCHANGED reentered
      PROVE  ListedOnce(grid, reentered)'
  <2>1. id \in reentered \/ \A k \in Keys : grid.cells[id][k] = 0
    BY DEF ListedOnce
  <2>2. /\ grid'.positions[id] = p /\ id \in Present(grid')
        /\ id \in reentered \/ \A k \in Keys : grid'.cells[id][k] = IF k = CellKeyFor(p) THEN 1 ELSE 0
    BY <1>1, <2>1, EnterEffect
  <2>3. \A j \in Ids \ {id} : /\ grid'.positions[j] = grid.positions[j]
                              /\ grid'.cells[j] = grid.cells[j]
                              /\ j \in Present(grid') <=> j \in Present(grid)
    BY <1>1, EnterEffect
  <2> QED
    BY <1>0, <1>1, <2>2, <2>3
<1>2. ASSUME NEW id \in Present(grid), NEW p \in Points, grid' = Enter(grid, id, p),
             reentered' = reentered \cup {id}
      PROVE  ListedOnce(grid, reentered)'
  <2>1. \A j \in Ids \ {id} : /\ grid'.positions[j] = grid.positions[j]
                              /\ grid'.cells[j] = grid.cells[j]
                              /\ j \in Present(grid') <=> j \in Present(grid)
    BY <1>2, EnterEffect DEF Present
  <2> QED
    BY <1>0, <1>2, <2>1 DEF Present
<1>3. ASSUME NEW id \in Present(grid), grid' = Leave(grid, id), UNCHANGED reentered
      PROVE  ListedOnce(grid, reentered)'
  <2>1. id \in reentered \/ \A k \in Keys :
           grid.cells[id][k] = IF CellKeyFor(grid.positions[id]) = k THEN 1 ELSE 0
    BY DEF ListedOnce, Present
  <2>2. id \notin Present(grid') /\ (id \in reentered \/ \A k \in Keys : grid'.cells[id][k] = 0)
    BY <1>3, <2>1, LeaveEffect
  <2>3. \A j \in Ids \ {id} : /\ grid'.positions[j] = grid.positions[j]
                              /\ grid'.cells[j] = grid.cells[j]
                              /\ j \in Present(grid') <=> j \in Present(grid)
    BY <1>3, LeaveEffect
  <2> QED
    BY <1>0, <1>3, <2>2, <2>3 DEF Present
<1>4. ASSUME NEW id \in Present(grid), NEW p \in Points, grid' = Move(grid, id, p),
             UNCHANGED reentered
      PROVE  ListedOnce(grid, reentered)'
  <2> DEFINE old == CellKeyFor(grid.positions[id])
             new == CellKeyFor(p)
  <2>1. id \in reentered \/ \A k \in Keys : grid.cells[id][k] = IF old = k THEN 1 ELSE 0
    BY DEF ListedOnce, Present
  <2>2. /\ grid'.positions[id] = p /\ id \in Present(grid')
        /\ \A k \in Keys : grid'.cells[id][k] =
              CASE old = new -> grid.cells[id][k]
                [] old # new /\ k = new -> grid.cells[id][k] + 1
                [] old # new /\ k = old -> grid.cells[id][k] - 1
                [] OTHER -> grid.cells[id][k]
    BY <1>4, MoveEffect
  <2>3. \A j \in Ids \ {id} : /\ grid'.positions[j] = grid.positions[j]
                              /\ grid'.cells[j] = grid.cells[j]
                              /\ j \in Present(grid') <=> j \in Present(grid)
    BY <1>4, MoveEffect
  <2>4. id \in reentered \/ \A k \in Keys : grid'.cells[id][k] = IF new = k THEN 1 ELSE 0
    <3> HIDE DEF old, new
    <3> QED
      BY <2>1, <2>2
  <2> QED
    BY <1>0, <1>4, <2>2, <2>3, <2>4 DEF Present
<1>5. CASE Transfer
  BY <1>5 DEF Transfer, Deserialize, Serialize, ListedOnce, Present, GridType
<1>6. CASE TransferEmpty
  BY <1>6 DEF TransferEmpty, New, ListedOnce, Present
<1>7. CASE UNCHANGED vars
  BY <1>7 DEF ListedOnce, Present, vars
<1>8. ASSUME NEW id \in Ids, LeaveEntity(id), id \notin Present(grid) PROVE UNCHANGED vars
  BY <1>8 DEF LeaveEntity, Leave, vars
<1>9. ASSUME NEW id \in Ids, NEW p \in Points, MoveEntity(id, p), id \notin Present(grid)
      PROVE  grid' = Enter(grid, id, p) /\ UNCHANGED reentered
  BY <1>9 DEF MoveEntity, Move
<1> QED
  BY <1>1, <1>2, <1>3, <1>4, <1>5, <1>6, <1>7, <1>8, <1>9
  DEF Next, EnterEntity, LeaveEntity, MoveEntity

\* An id that has left the index is in the answer of no query, unless Enter was
\* called for it while it was in the index and no transfer rebuilt the index.
THEOREM NoPhantoms == Spec => []NoPhantom
<1>1. Init => ListedOnce(grid, reentered)
  BY DEF Init, ListedOnce, Present, New
<1>2. TypeOK /\ Listed(grid) /\ ListedOnce(grid, reentered) /\ [Next]_vars => ListedOnce(grid, reentered)'
  BY ListedOnceStep
<1>3. TypeOK /\ ListedOnce(grid, reentered) => NoPhantom
  BY DEF NoPhantom, ListedOnce, EntitiesInRange, Query
<1> QED
  BY IndexInvariant, <1>1, <1>2, <1>3, PTL DEF Spec

----------------------------------------------------------------------------
(* The zones of a server, whose simulations and remote ghosts use indexes  *)

ThingType == [pos : Points, space : Spaces \cup {None}]
StoredType == [pos : Points, left : Nat]
SnapType ==
  [zone : ZoneIds, index : [Ids -> Points \cup {NoPos}], things : [Things -> Points \cup {NoPos}]]

ZoneTypes ==
  /\ zspace \in [ZoneIds -> Spaces \cup {None}]
  /\ simGrid \in [ZoneIds -> GridType \cup {None}]
  /\ refers \in [ZoneIds -> {"none", "sim", "own"}]
  /\ ownGrid \in [ZoneIds -> GridType]
  /\ home \in [Things -> ZoneIds \cup {None}]
  /\ thing \in [ZoneIds -> [Things -> ThingType \cup {None}]]
  /\ store \in [ZoneIds -> [Things -> StoredType \cup {None}]]
  /\ snap \in SnapType \cup {None}
  /\ loading \subseteq Things
  /\ \A e \in loading : snap \in SnapType /\ snap.things[e] \in Points

\* A simulation has an index that lists its ids where they are; a zone without
\* one has no objects, and aoiIndex does not refer to it.
SimsIndexed ==
  \A z \in ZoneIds :
    /\ Simulated(z) => Listed(simGrid[z])
    /\ ~ Simulated(z) => refers[z] # "sim" /\ thing[z] = NoThings

\* The zone of an entity has its object, and its index has the entity there.
HomesIndexed ==
  \A e \in Things : home[e] # None =>
    /\ Simulated(home[e])
    /\ thing[home[e]][e] \in ThingType
    /\ simGrid[home[e]].positions[Thing(e)] = thing[home[e]][e].pos

\* The objects in a zone of a Space are of the Space.
OfOneSpace ==
  \A z \in ZoneIds, e \in Things :
    zspace[z] # None /\ thing[z][e] # None => thing[z][e].space = zspace[z]

IZone == ZoneTypes /\ SimsIndexed /\ HomesIndexed /\ OfOneSpace /\ StoredGhostIsIndexed

\* Entities and remote ghosts are different ids of an index.
LEMMA ThingIds ==
  /\ \A e \in Things : Thing(e) \in Ids /\ RemoteGhost(e) \in Ids
  /\ \A e, f \in Things : /\ Thing(e) # RemoteGhost(f)
                          /\ Thing(e) = Thing(f) <=> e = f
                          /\ RemoteGhost(e) = RemoteGhost(f) <=> e = f
BY ZoneStateAssumption DEF Thing, RemoteGhost

\* What the operations on an index do to positions, whether or not it lists its
\* ids where they are.
LEMMA EnterPositions ==
  ASSUME NEW g \in GridType, NEW id \in Ids, NEW p \in Points
  PROVE  /\ Enter(g, id, p).positions = [g.positions EXCEPT ![id] = p]
         /\ Move(g, id, p).positions = [g.positions EXCEPT ![id] = p]
<1>1. Enter(g, id, p).positions = [g.positions EXCEPT ![id] = p]
  BY DEF Enter
<1> QED
  BY <1>1 DEF Move

\* Leave forgets the position of an id, if it has one.
LEMMA LeavePositions ==
  ASSUME NEW g \in GridType, NEW id \in Ids
  PROVE  Leave(g, id).positions = [g.positions EXCEPT ![id] = NoPos]
<1>1. g.positions \in [Ids -> Points \cup {NoPos}]
  BY DEF GridType
<1>2. CASE id \in Present(g)
  BY <1>2 DEF Leave
<1>3. CASE id \notin Present(g)
  BY <1>1, <1>3 DEF Leave, Present
<1> QED
  BY <1>2, <1>3

\* Indexes that are in use are indexes.
LEMMA IndexTypes ==
  ASSUME IZone, NEW z \in ZoneIds
  PROVE  /\ Simulated(z) => simGrid[z] \in GridType
         /\ refers[z] = "sim" => Simulated(z)
         /\ refers[z] # "none" => Index(z) \in GridType
BY DEF IZone, ZoneTypes, SimsIndexed, Simulated, Index

\* No zone, no entity, no ghost.
LEMMA IZoneInit == ZoneStateInit => IZone
<1> SUFFICES ASSUME ZoneStateInit PROVE IZone
  OBVIOUS
<1> USE DEF ZoneStateInit, NoThings
<1>1. ZoneTypes
  BY NewType DEF ZoneTypes
<1>2. SimsIndexed /\ HomesIndexed /\ OfOneSpace
  BY DEF SimsIndexed, HomesIndexed, OfOneSpace, Simulated
<1>3. StoredGhostIsIndexed
  BY DEF StoredGhostIsIndexed
<1> QED
  BY <1>1, <1>2, <1>3 DEF IZone

\* A zone is assigned: its simulation is new, with an empty index.
LEMMA AssignStep ==
  ASSUME IZone, NEW z \in ZoneIds, NEW s \in Spaces, Assign(z, s) PROVE IZone'
<1> USE DEF Assign, IZone
<1>1. ZoneTypes'
  BY NewType DEF ZoneTypes, NoThings
<1>2. New # None
  BY NewType, ZoneStateAssumption
<1>3. SimsIndexed'
  BY <1>2, NewListed DEF SimsIndexed, Simulated, ZoneTypes
<1>4. HomesIndexed'
  BY <1>2 DEF HomesIndexed, Simulated, ZoneTypes
<1>5. OfOneSpace'
  BY DEF OfOneSpace, SimsIndexed, NoThings, ZoneTypes
<1>6. StoredGhostIsIndexed'
  BY DEF StoredGhostIsIndexed, Index, NoThings, ZoneTypes
<1> QED
  BY <1>1, <1>3, <1>4, <1>5, <1>6

\* A zone is released, with everything in it.
LEMMA ReleaseStep ==
  ASSUME IZone, NEW z \in ZoneIds, Release(z) PROVE IZone'
<1> USE DEF Release, IZone
<1>1. ZoneTypes'
  BY NewType DEF ZoneTypes, NoThings
<1>2. SimsIndexed'
  BY DEF SimsIndexed, Simulated, ZoneTypes
<1>3. HomesIndexed'
  <2> SUFFICES ASSUME NEW e \in Things, home'[e] # None
               PROVE  /\ Simulated(home[e])' /\ thing'[home'[e]][e] \in ThingType
                      /\ simGrid'[home'[e]].positions[Thing(e)] = thing'[home'[e]][e].pos
    BY DEF HomesIndexed
  <2>1. home'[e] = home[e] /\ home[e] # z /\ home[e] \in ZoneIds
    BY DEF ZoneTypes
  <2> QED
    BY <2>1 DEF HomesIndexed, Simulated, ZoneTypes
<1>4. OfOneSpace'
  BY DEF OfOneSpace, NoThings, ZoneTypes
<1>5. StoredGhostIsIndexed'
  BY DEF StoredGhostIsIndexed, Index, NoThings, ZoneTypes
<1> QED
  BY <1>1, <1>2, <1>3, <1>4, <1>5

\* An object of a simulation and its entity's place in the simulation's index
\* change together: the index keeps every other id, ghosts included.
LEMMA ObjectStep ==
  ASSUME IZone, NEW e \in Things, NEW z \in ZoneIds, NEW h \in GridType, Listed(h),
         \A i \in Ids \ {Thing(e)} : Simulated(z) => h.positions[i] = simGrid[z].positions[i],
         NEW t \in ThingType \cup {None}, NEW y \in {z, None},
         y # None => t \in ThingType /\ h.positions[Thing(e)] = t.pos,
         t # None /\ zspace[z] # None => t.space = zspace[z],
         simGrid' = [simGrid EXCEPT ![z] = h],
         thing' = [thing EXCEPT ![z][e] = t],
         home' = [home EXCEPT ![e] = y],
         loading' \subseteq loading,
         UNCHANGED <<zspace, refers, ownGrid, store, snap>>
  PROVE  IZone'
<1>1. ZoneTypes'
  <2>1. simGrid' \in [ZoneIds -> GridType \cup {None}] /\ home' \in [Things -> ZoneIds \cup {None}]
    BY DEF IZone, ZoneTypes
  <2>2. thing' \in [ZoneIds -> [Things -> ThingType \cup {None}]]
    BY DEF IZone, ZoneTypes
  <2>3. /\ loading' \subseteq Things
        /\ \A f \in loading' : snap' \in SnapType /\ snap'.things[f] \in Points
    BY DEF IZone, ZoneTypes
  <2> QED
    BY <2>1, <2>2, <2>3 DEF IZone, ZoneTypes
<1>2. /\ Simulated(z)'
      /\ \A x \in ZoneIds \ {z} : simGrid'[x] = simGrid[x] /\ thing'[x] = thing[x]
      /\ simGrid'[z] = h
      /\ thing'[z][e] = t
      /\ \A f \in Things \ {e} : thing'[z][f] = thing[z][f] /\ home'[f] = home[f]
      /\ home'[e] = y
  BY ZoneStateAssumption DEF Simulated, IZone, ZoneTypes
<1>3. SimsIndexed'
  BY <1>2 DEF IZone, SimsIndexed, Simulated
<1>4. HomesIndexed'
  <2> SUFFICES ASSUME NEW f \in Things, home'[f] # None
               PROVE  /\ Simulated(home[f])' /\ thing'[home'[f]][f] \in ThingType
                      /\ simGrid'[home'[f]].positions[Thing(f)] = thing'[home'[f]][f].pos
    BY DEF HomesIndexed
  <2>1. CASE f = e
    BY <1>2, <2>1
  <2>2. CASE f # e /\ home[f] = z
    <3>1. Simulated(z) /\ Thing(f) \in Ids \ {Thing(e)}
      BY <1>2, <2>2, ThingIds DEF IZone, HomesIndexed
    <3> QED
      BY <1>2, <2>2, <3>1 DEF IZone, HomesIndexed
  <2>3. CASE f # e /\ home[f] # z
    <3>1. home[f] \in ZoneIds \ {z} /\ home'[f] = home[f]
      BY <1>2, <2>3 DEF IZone, ZoneTypes
    <3> QED
      BY <1>2, <2>3, <3>1 DEF IZone, HomesIndexed, Simulated
  <2> QED
    BY <2>1, <2>2, <2>3
<1>5. OfOneSpace'
  <2> SUFFICES ASSUME NEW x \in ZoneIds, NEW f \in Things, zspace[x] # None, thing'[x][f] # None
               PROVE  thing'[x][f].space = zspace[x]
    BY DEF OfOneSpace
  <2> QED
    BY <1>2 DEF IZone, OfOneSpace
<1>6. StoredGhostIsIndexed'
  <2> SUFFICES ASSUME NEW x \in ZoneIds, NEW f \in Things, refers[x] # "none", store[x][f] # None
               PROVE  Index(x)'.positions[RemoteGhost(f)] = store[x][f].pos
    BY DEF StoredGhostIsIndexed
  <2>1. Index(x).positions[RemoteGhost(f)] = store[x][f].pos
    BY DEF IZone, StoredGhostIsIndexed
  <2>2. CASE x = z /\ refers[x] = "sim"
    <3>1. Simulated(z) /\ RemoteGhost(f) \in Ids \ {Thing(e)}
      BY <2>2, ThingIds, IndexTypes
    <3> QED
      BY <1>2, <2>1, <2>2, <3>1 DEF Index
  <2>3. CASE ~ (x = z /\ refers[x] = "sim")
    BY <1>2, <2>1, <2>3 DEF Index
  <2> QED
    BY <2>2, <2>3
<1> QED
  BY <1>1, <1>3, <1>4, <1>5, <1>6 DEF IZone

\* An entity is put into a zone, whose Space it gets.
LEMMA PutStep ==
  ASSUME IZone, NEW e \in Things, NEW z \in ZoneIds, NEW p \in Points,
         NEW s \in Spaces \cup {None}, Put(e, z, p, s), loading' \subseteq loading
  PROVE  IZone'
<1> DEFINE g == IF Simulated(z) THEN simGrid[z] ELSE New
           h == Enter(g, Thing(e), p)
           t == [pos |-> p, space |-> SpaceIn(z, s)]
<1>1. g \in GridType /\ Listed(g)
  BY NewType, NewListed, IndexTypes DEF IZone, SimsIndexed
<1>2. Thing(e) \in Ids
  BY ThingIds
<1>3. h \in GridType /\ Listed(h) /\ h.positions = [g.positions EXCEPT ![Thing(e)] = p]
  BY <1>1, <1>2, EnterType, EnterListed, EnterPositions
<1>4. g.positions \in [Ids -> Points \cup {NoPos}]
  BY <1>1 DEF GridType
<1>5. /\ \A i \in Ids \ {Thing(e)} : h.positions[i] = g.positions[i]
      /\ h.positions[Thing(e)] = p
  BY <1>2, <1>3, <1>4
<1>6. SpaceIn(z, s) \in Spaces \cup {None} /\ (zspace[z] # None => SpaceIn(z, s) = zspace[z])
  BY DEF SpaceIn, IZone, ZoneTypes
<1>7. t \in ThingType /\ t.pos = p /\ (zspace[z] # None => t.space = zspace[z])
  BY <1>6 DEF ThingType
<1>8. /\ simGrid' = [simGrid EXCEPT ![z] = h]
      /\ thing' = [thing EXCEPT ![z][e] = t]
      /\ home' = [home EXCEPT ![e] = z]
      /\ UNCHANGED <<zspace, refers, ownGrid, store, snap>>
  BY DEF Put
<1>9. \A i \in Ids \ {Thing(e)} : Simulated(z) => h.positions[i] = simGrid[z].positions[i]
  BY <1>5
<1> HIDE DEF h, t
<1> QED
  BY <1>3, <1>5, <1>7, <1>8, <1>9, ObjectStep

\* An entity is removed from the server.
LEMMA RemoveStep ==
  ASSUME IZone, NEW e \in Things, Remove(e) PROVE IZone'
<1> DEFINE z == home[e]
           g == simGrid[z]
           h == Leave(g, Thing(e))
<1>1. z \in ZoneIds /\ Simulated(z)
  BY DEF Remove, IZone, ZoneTypes, HomesIndexed
<1>2. g \in GridType /\ Listed(g) /\ Thing(e) \in Ids
  BY <1>1, IndexTypes, ThingIds DEF IZone, SimsIndexed
<1>3. h \in GridType /\ Listed(h) /\ h.positions = [g.positions EXCEPT ![Thing(e)] = NoPos]
  BY <1>2, LeaveType, LeaveListed, LeavePositions
<1>4. g.positions \in [Ids -> Points \cup {NoPos}]
  BY <1>2 DEF GridType
<1>5. \A i \in Ids \ {Thing(e)} : h.positions[i] = g.positions[i]
  BY <1>2, <1>3, <1>4
<1>6. /\ simGrid' = [simGrid EXCEPT ![z] = h]
      /\ thing' = [thing EXCEPT ![z][e] = None]
      /\ home' = [home EXCEPT ![e] = None]
      /\ loading' \subseteq loading
      /\ UNCHANGED <<zspace, refers, ownGrid, store, snap>>
  BY <1>1 DEF Remove, IZone, ZoneTypes
<1> HIDE DEF h, z, g
<1> QED
  BY <1>1, <1>3, <1>5, <1>6, ObjectStep DEF g

\* An entity moves, in its zone's index as well.
LEMMA DisplaceStep ==
  ASSUME IZone, NEW e \in Things, NEW p \in Points, Displace(e, p) PROVE IZone'
<1> DEFINE z == home[e]
           g == simGrid[z]
           h == Move(g, Thing(e), p)
           t == [thing[z][e] EXCEPT !.pos = p]
<1>1. z \in ZoneIds /\ z # None /\ Simulated(z) /\ thing[z][e] \in ThingType
  BY DEF Displace, IZone, ZoneTypes, HomesIndexed
<1>2. g \in GridType /\ Listed(g) /\ Thing(e) \in Ids
  BY <1>1, IndexTypes, ThingIds DEF IZone, SimsIndexed
<1>3. h \in GridType /\ Listed(h) /\ h.positions = [g.positions EXCEPT ![Thing(e)] = p]
  BY <1>2, MoveType, MoveListed
<1>4. g.positions \in [Ids -> Points \cup {NoPos}]
  BY <1>2 DEF GridType
<1>5. /\ \A i \in Ids \ {Thing(e)} : h.positions[i] = g.positions[i]
      /\ h.positions[Thing(e)] = p
  BY <1>2, <1>3, <1>4
<1>6. t \in ThingType /\ t.pos = p /\ t.space = thing[z][e].space
  BY <1>1 DEF ThingType
<1>7. zspace[z] # None => t.space = zspace[z]
  BY <1>1, <1>6, ZoneStateAssumption DEF IZone, OfOneSpace, ThingType
<1>8. /\ simGrid' = [simGrid EXCEPT ![z] = h]
      /\ thing' = [thing EXCEPT ![z][e] = t]
      /\ home' = [home EXCEPT ![e] = z]
      /\ loading' \subseteq loading
      /\ UNCHANGED <<zspace, refers, ownGrid, store, snap>>
  BY <1>1 DEF Displace, IZone, ZoneTypes
<1> HIDE DEF h, z, g, t
<1> QED
  BY <1>1, <1>3, <1>5, <1>6, <1>7, <1>8, ObjectStep DEF g

\* A zone's index and its store of ghosts change together: the index keeps the
\* entities' positions and has every stored ghost where it was stored.
LEMMA StoreStep ==
  ASSUME IZone, NEW z \in ZoneIds, refers[z] # "none", NEW h \in GridType,
         Listed(Index(z)) => Listed(h),
         \A f \in Things : h.positions[Thing(f)] = Index(z).positions[Thing(f)],
         NEW S \in [Things -> StoredType \cup {None}],
         \A f \in Things : S[f] # None => h.positions[RemoteGhost(f)] = S[f].pos,
         SetIndex(z, h),
         store' = [store EXCEPT ![z] = S],
         UNCHANGED <<zspace, refers, home, thing, snap, loading>>
  PROVE  IZone'
<1>1. /\ simGrid' \in [ZoneIds -> GridType \cup {None}]
      /\ ownGrid' \in [ZoneIds -> GridType]
      /\ Index(z)' = h
      /\ \A x \in ZoneIds \ {z} : Index(x)' = Index(x)
      /\ \A x \in ZoneIds : simGrid'[x] = IF x = z /\ refers[z] = "sim" THEN h ELSE simGrid[x]
  BY DEF SetIndex, Index, IZone, ZoneTypes
<1>2. ZoneTypes'
  BY <1>1 DEF IZone, ZoneTypes
<1>3. \A x \in ZoneIds : Simulated(x)' <=> Simulated(x)
  BY <1>1, IndexTypes, ZoneStateAssumption DEF Simulated
<1>4. SimsIndexed'
  BY <1>1, <1>3, IndexTypes DEF IZone, SimsIndexed, Index
<1>5. HomesIndexed'
  <2> SUFFICES ASSUME NEW f \in Things, home[f] # None
               PROVE  simGrid'[home[f]].positions[Thing(f)] = thing[home[f]][f].pos
    BY <1>3 DEF IZone, HomesIndexed, ZoneTypes
  <2>1. /\ home[f] \in ZoneIds
        /\ simGrid[home[f]].positions[Thing(f)] = thing[home[f]][f].pos
    BY DEF IZone, HomesIndexed, ZoneTypes
  <2> QED
    BY <1>1, <2>1 DEF Index
<1>6. OfOneSpace'
  BY DEF IZone, OfOneSpace
<1>7. StoredGhostIsIndexed'
  BY <1>1 DEF IZone, ZoneTypes, StoredGhostIsIndexed
<1> QED
  BY <1>2, <1>4, <1>5, <1>6, <1>7 DEF IZone

\* A ghost is stored and put into the index at the same place.
LEMMA GhostStored ==
  ASSUME IZone, NEW z \in ZoneIds, NEW e \in Things, NEW p \in Points, refers[z] # "none",
         NEW h \in GridType, Listed(Index(z)) => Listed(h),
         h.positions = [Index(z).positions EXCEPT ![RemoteGhost(e)] = p],
         SetIndex(z, h),
         store' = [store EXCEPT ![z][e] = Stored(p)],
         UNCHANGED <<zspace, refers, home, thing, snap, loading>>
  PROVE  IZone'
<1> DEFINE S == [store[z] EXCEPT ![e] = Stored(p)]
<1>1. Index(z).positions \in [Ids -> Points \cup {NoPos}]
  BY IndexTypes DEF GridType
<1>2. /\ store[z] \in [Things -> StoredType \cup {None}]
      /\ Stored(p) \in StoredType /\ Stored(p).pos = p
  BY ZoneStateAssumption DEF IZone, ZoneTypes, Stored, StoredType
<1>3. S \in [Things -> StoredType \cup {None}] /\ store' = [store EXCEPT ![z] = S]
  BY <1>2 DEF IZone, ZoneTypes
<1>4. \A f \in Things : h.positions[Thing(f)] = Index(z).positions[Thing(f)]
  BY <1>1, ThingIds
<1>5. ASSUME NEW f \in Things, S[f] # None
      PROVE  h.positions[RemoteGhost(f)] = S[f].pos
  <2>1. CASE f = e
    BY <1>1, <1>2, <2>1, ThingIds
  <2>2. CASE f # e
    BY <1>1, <1>2, <1>5, <2>2, ThingIds DEF IZone, StoredGhostIsIndexed
  <2> QED
    BY <2>1, <2>2
<1> HIDE DEF S
<1> QED
  BY <1>3, <1>4, <1>5, StoreStep

\* A ghost of another server's entity is announced.
LEMMA EntityEnterStep ==
  ASSUME IZone, NEW z \in ZoneIds, NEW e \in Things, NEW p \in Points, ApplyEntityEnter(z, e, p)
  PROVE  IZone'
<1> DEFINE h == Enter(Index(z), RemoteGhost(e), p)
<1>1. refers[z] # "none" /\ Index(z) \in GridType /\ RemoteGhost(e) \in Ids
  BY IndexTypes, ThingIds DEF ApplyEntityEnter
<1>2. /\ h \in GridType /\ (Listed(Index(z)) => Listed(h))
      /\ h.positions = [Index(z).positions EXCEPT ![RemoteGhost(e)] = p]
  BY <1>1, EnterType, EnterListed, EnterPositions
<1>3. SetIndex(z, h)
  BY DEF ApplyEntityEnter
<1> HIDE DEF h
<1> QED
  BY <1>1, <1>2, <1>3, GhostStored DEF ApplyEntityEnter

\* A ghost is told to have moved.
LEMMA EntityUpdateStep ==
  ASSUME IZone, NEW e \in Things, NEW p \in Points, SendEntityUpdate(e, p)
  PROVE  IZone'
<1> DEFINE z == home[e]
           h == Move(Index(z), RemoteGhost(e), p)
<1>1. z \in ZoneIds /\ refers[z] # "none"
  BY DEF SendEntityUpdate, IZone, ZoneTypes
<1>2. Index(z) \in GridType /\ RemoteGhost(e) \in Ids
  BY <1>1, IndexTypes, ThingIds
<1>3. /\ h \in GridType /\ (Listed(Index(z)) => Listed(h))
      /\ h.positions = [Index(z).positions EXCEPT ![RemoteGhost(e)] = p]
  BY <1>2, MoveType, MoveListed, EnterPositions
<1>4. /\ SetIndex(z, h)
      /\ store' = [store EXCEPT ![z][e] = Stored(p)]
      /\ UNCHANGED <<zspace, refers, home, thing, snap, loading>>
  BY DEF SendEntityUpdate, MoveGhost
<1> HIDE DEF h, z
<1> QED
  BY <1>1, <1>3, <1>4, GhostStored

\* A ghost is told to have left.
LEMMA EntityLeaveStep ==
  ASSUME IZone, NEW z \in ZoneIds, NEW e \in Things, ApplyEntityLeave(z, e) PROVE IZone'
<1> DEFINE h == Leave(Index(z), RemoteGhost(e))
           S == [store[z] EXCEPT ![e] = None]
<1>1. refers[z] # "none" /\ Index(z) \in GridType /\ RemoteGhost(e) \in Ids
  BY IndexTypes, ThingIds DEF ApplyEntityLeave
<1>2. /\ h \in GridType /\ (Listed(Index(z)) => Listed(h))
      /\ h.positions = [Index(z).positions EXCEPT ![RemoteGhost(e)] = NoPos]
  BY <1>1, LeaveType, LeaveListed, LeavePositions
<1>3. Index(z).positions \in [Ids -> Points \cup {NoPos}]
  BY <1>1 DEF GridType
<1>4. store[z] \in [Things -> StoredType \cup {None}]
  BY DEF IZone, ZoneTypes
<1>5. S \in [Things -> StoredType \cup {None}] /\ store' = [store EXCEPT ![z] = S]
  BY <1>4 DEF IZone, ZoneTypes, ApplyEntityLeave
<1>6. \A f \in Things : h.positions[Thing(f)] = Index(z).positions[Thing(f)]
  BY <1>2, <1>3, ThingIds
<1>7. \A f \in Things : S[f] # None => h.positions[RemoteGhost(f)] = S[f].pos
  BY <1>1, <1>2, <1>3, <1>4, ThingIds DEF IZone, StoredGhostIsIndexed
<1>8. SetIndex(z, h) /\ UNCHANGED <<zspace, refers, home, thing, snap, loading>>
  BY DEF ApplyEntityLeave
<1> HIDE DEF h, S
<1> QED
  BY <1>1, <1>2, <1>5, <1>6, <1>7, <1>8, StoreStep

\* The ghosts of a neighbour are reconciled: those it reported are moved or
\* entered, expired ones it did not report leave, the others stay.
LEMMA ReconcileStep ==
  ASSUME IZone, NEW z \in ZoneIds, NEW known \in SUBSET Things, NEW at \in [known -> Points],
         Reconcile(z, at)
  PROVE  IZone'
<1> DEFINE old == Index(z)
           gone == {e \in Things \ DOMAIN at : store[z][e] # None /\ store[z][e].left = 0}
           new(e) == IF e \in DOMAIN at THEN Reconciled(z, old, e, at[e])
                     ELSE IF e \in gone THEN Leave(old, RemoteGhost(e)) ELSE old
           ghost(i) == i \in Things \X {"ghost"}
           h == [cells |-> [i \in Ids |-> IF ghost(i) THEN new(i[1]).cells[i] ELSE old.cells[i]],
                 positions |-> [i \in Ids |-> IF ghost(i) THEN new(i[1]).positions[i]
                                              ELSE old.positions[i]]]
           S == [e \in Things |-> IF e \in DOMAIN at THEN Stored(at[e])
                                  ELSE IF e \in gone THEN None ELSE store[z][e]]
<1>1. refers[z] # "none" /\ old \in GridType
  BY IndexTypes DEF Reconcile
<1>2. old.cells \in [Ids -> [Keys -> Nat]] /\ old.positions \in [Ids -> Points \cup {NoPos}]
  BY <1>1 DEF GridType
<1>3. ASSUME NEW e \in Things
      PROVE  /\ new(e) \in GridType
             /\ Listed(old) => Listed(new(e))
             /\ new(e).positions[RemoteGhost(e)] =
                  IF e \in DOMAIN at THEN at[e]
                  ELSE IF e \in gone THEN NoPos ELSE old.positions[RemoteGhost(e)]
  <2>1. RemoteGhost(e) \in Ids
    BY ThingIds
  <2>2. CASE e \in DOMAIN at
    <3>1. at[e] \in Points
      BY <2>2
    <3> HIDE DEF old
    <3>2. /\ Enter(old, RemoteGhost(e), at[e]) \in GridType
          /\ Listed(old) => Listed(Enter(old, RemoteGhost(e), at[e]))
      BY <1>1, <2>1, <3>1, EnterType, EnterListed
    <3>3. /\ Move(old, RemoteGhost(e), at[e]) \in GridType
          /\ Listed(old) => Listed(Move(old, RemoteGhost(e), at[e]))
      BY <1>1, <2>1, <3>1, MoveType, MoveListed
    <3>4. /\ Enter(old, RemoteGhost(e), at[e]).positions =
               [old.positions EXCEPT ![RemoteGhost(e)] = at[e]]
          /\ Move(old, RemoteGhost(e), at[e]).positions =
               [old.positions EXCEPT ![RemoteGhost(e)] = at[e]]
      BY <1>1, <2>1, <3>1, EnterPositions
    <3>5. [old.positions EXCEPT ![RemoteGhost(e)] = at[e]][RemoteGhost(e)] = at[e]
      BY <1>2, <2>1
    <3> QED
      BY <2>2, <3>2, <3>3, <3>4, <3>5 DEF Reconciled
  <2>3. CASE e \in gone
    <3> HIDE DEF old
    <3>1. /\ Leave(old, RemoteGhost(e)) \in GridType
          /\ Listed(old) => Listed(Leave(old, RemoteGhost(e)))
      BY <1>1, <2>1, LeaveType, LeaveListed
    <3>2. Leave(old, RemoteGhost(e)).positions = [old.positions EXCEPT ![RemoteGhost(e)] = NoPos]
      BY <1>1, <2>1, LeavePositions
    <3>3. [old.positions EXCEPT ![RemoteGhost(e)] = NoPos][RemoteGhost(e)] = NoPos
      BY <1>2, <2>1
    <3> QED
      BY <2>3, <3>1, <3>2, <3>3
  <2>4. CASE e \notin DOMAIN at /\ e \notin gone
    BY <1>1, <2>4
  <2> QED
    BY <2>2, <2>3, <2>4
<1>4. store[z] \in [Things -> StoredType \cup {None}]
  BY DEF IZone, ZoneTypes
<1>5. \A p \in Points : Stored(p) \in StoredType /\ Stored(p).pos = p
  BY ZoneStateAssumption DEF Stored, StoredType
<1>6. S \in [Things -> StoredType \cup {None}]
  BY <1>4, <1>5
<1>7. SetIndex(z, h) /\ UNCHANGED <<zspace, refers, home, thing, snap, loading>>
  BY DEF Reconcile
<1>8. store' = [store EXCEPT ![z] = S]
  BY DEF Reconcile, IZone, ZoneTypes
<1> HIDE DEF new, gone
<1>9. h \in GridType
  <2>1. ASSUME NEW e \in Things
        PROVE  /\ new(e).cells \in [Ids -> [Keys -> Nat]]
               /\ new(e).positions \in [Ids -> Points \cup {NoPos}]
    BY <1>3, <2>1 DEF GridType
  <2> HIDE DEF old
  <2>2. h.cells \in [Ids -> [Keys -> Nat]]
    BY <1>2, <2>1
  <2>3. h.positions \in [Ids -> Points \cup {NoPos}]
    BY <1>2, <2>1
  <2> QED
    BY <2>2, <2>3 DEF GridType
<1>10. ASSUME NEW i \in Ids
       PROVE  \/ h.positions[i] = old.positions[i] /\ h.cells[i] = old.cells[i]
              \/ \E e \in Things : /\ h.positions[i] = new(e).positions[i]
                                   /\ h.cells[i] = new(e).cells[i]
  BY <1>10
<1>11. ASSUME Listed(old) PROVE Listed(h)
  <2> SUFFICES ASSUME NEW i \in Ids, h.positions[i] # NoPos
               PROVE  h.cells[i][CellKeyFor(h.positions[i])] > 0
    BY DEF Listed, Present
  <2> HIDE DEF h
  <2> QED
    BY <1>3, <1>10, <1>11 DEF Listed, Present
<1>12. \A f \in Things : h.positions[Thing(f)] = old.positions[Thing(f)]
  BY ThingIds DEF Thing
<1>13. ASSUME NEW f \in Things PROVE h.positions[RemoteGhost(f)] = new(f).positions[RemoteGhost(f)]
  BY ThingIds DEF RemoteGhost
<1>14. ASSUME NEW f \in Things, S[f] # None PROVE h.positions[RemoteGhost(f)] = S[f].pos
  <2>1. CASE f \in DOMAIN at
    BY <1>3, <1>5, <1>13, <2>1
  <2>2. CASE f \notin DOMAIN at
    BY <1>1, <1>3, <1>13, <1>14, <2>2 DEF IZone, StoredGhostIsIndexed
  <2> QED
    BY <2>1, <2>2
<1> HIDE DEF h, S
<1> QED
  BY <1>1, <1>6, <1>7, <1>8, <1>9, <1>11, <1>12, <1>14, StoreStep

\* Stored ghosts get closer to their expiry, where they are.
LEMMA AgeStep == ASSUME IZone, GhostsAge PROVE IZone'
<1>1. ASSUME NEW z \in ZoneIds, NEW e \in Things
      PROVE  /\ store'[z][e] \in StoredType \cup {None}
             /\ store'[z][e] # None => store[z][e] # None /\ store'[z][e].pos = store[z][e].pos
  <2>1. store[z][e] \in StoredType \cup {None}
    BY DEF IZone, ZoneTypes
  <2>2. store'[z][e] = IF store[z][e] = None \/ store[z][e].left = 0 THEN store[z][e]
                       ELSE [store[z][e] EXCEPT !.left = @ - 1]
    BY DEF GhostsAge
  <2> QED
    BY <2>1, <2>2 DEF StoredType
<1>2. store' \in [ZoneIds -> [Things -> StoredType \cup {None}]]
  <2>1. store' = [z \in ZoneIds |-> [e \in Things |-> store'[z][e]]]
    BY DEF GhostsAge
  <2> QED
    BY <1>1, <2>1
<1>3. UNCHANGED <<zspace, simGrid, refers, ownGrid, home, thing, snap, loading>>
  BY DEF GhostsAge
<1>4. ZoneTypes'
  BY <1>2, <1>3 DEF IZone, ZoneTypes
<1>5. SimsIndexed' /\ HomesIndexed' /\ OfOneSpace'
  BY <1>3 DEF IZone, SimsIndexed, HomesIndexed, OfOneSpace, Simulated
<1>6. StoredGhostIsIndexed'
  <2>1. \A z \in ZoneIds : Index(z)' = Index(z)
    BY <1>3 DEF Index
  <2> QED
    BY <1>1, <1>3, <2>1 DEF IZone, StoredGhostIsIndexed
<1> QED
  BY <1>4, <1>5, <1>6 DEF IZone

\* A snapshot is taken: it has the positions of the index and of the entities.
LEMMA SnapshotStep ==
  ASSUME IZone, NEW z \in ZoneIds, SnapshotZone(z) PROVE IZone'
<1>1. \A e \in Things : home[e] = z => thing[z][e].pos \in Points
  BY ZoneStateAssumption DEF IZone, HomesIndexed, ThingType
<1>2. Serialize(Index(z)) \in [Ids -> Points \cup {NoPos}]
  BY IndexTypes DEF Serialize, GridType, SnapshotZone
<1>3. snap' \in SnapType
  BY <1>1, <1>2 DEF SnapshotZone, SnapType
<1>4. UNCHANGED <<zspace, simGrid, refers, ownGrid, home, thing, store, loading>> /\ loading = {}
  BY DEF SnapshotZone
<1>5. ZoneTypes'
  BY <1>3, <1>4 DEF IZone, ZoneTypes
<1> QED
  BY <1>4, <1>5 DEF IZone, SimsIndexed, HomesIndexed, OfOneSpace, StoredGhostIsIndexed,
                    Simulated, Index

\* A snapshot arrives: where aoiIndex has none, its index is the zone's.
LEMMA LoadIndexStep == ASSUME IZone, LoadIndex PROVE IZone'
<1>1. snap \in SnapType /\ snap' = snap
  BY DEF LoadIndex, IZone, ZoneTypes
<1>2. snap.zone \in ZoneIds /\ Deserialize(snap.index) \in GridType
  BY <1>1, DeserializeType DEF SnapType
<1>3. /\ refers' \in [ZoneIds -> {"none", "sim", "own"}]
      /\ ownGrid' \in [ZoneIds -> GridType]
      /\ store' \in [ZoneIds -> [Things -> StoredType \cup {None}]]
      /\ \A z \in ZoneIds : \/ /\ refers'[z] = refers[z] /\ ownGrid'[z] = ownGrid[z]
                               /\ store'[z] = store[z]
                            \/ refers'[z] = "own" /\ store'[z] = NoThings
  <2>1. /\ refers \in [ZoneIds -> {"none", "sim", "own"}]
        /\ ownGrid \in [ZoneIds -> GridType]
        /\ store \in [ZoneIds -> [Things -> StoredType \cup {None}]]
    BY DEF IZone, ZoneTypes
  <2>2. CASE refers[snap.zone] # "none"
    <3>1. refers' = refers /\ ownGrid' = ownGrid /\ store' = store
      BY <2>2 DEF LoadIndex
    <3> QED
      BY <2>1, <3>1
  <2>3. CASE refers[snap.zone] = "none"
    <3>1. /\ refers' = [refers EXCEPT ![snap.zone] = "own"]
          /\ ownGrid' = [ownGrid EXCEPT ![snap.zone] = Deserialize(snap.index)]
          /\ store' = [store EXCEPT ![snap.zone] = NoThings]
      BY <2>3 DEF LoadIndex
    <3>2. NoThings \in [Things -> StoredType \cup {None}]
      BY DEF NoThings
    <3>3. refers' \in [ZoneIds -> {"none", "sim", "own"}]
      BY <1>2, <2>1, <3>1
    <3>4. ownGrid' \in [ZoneIds -> GridType]
      BY <1>2, <2>1, <3>1
    <3>5. store' \in [ZoneIds -> [Things -> StoredType \cup {None}]]
      BY <1>2, <2>1, <3>1, <3>2
    <3>6. ASSUME NEW z \in ZoneIds
          PROVE  \/ /\ refers'[z] = refers[z] /\ ownGrid'[z] = ownGrid[z]
                    /\ store'[z] = store[z]
                 \/ refers'[z] = "own" /\ store'[z] = NoThings
      BY <1>2, <2>1, <3>1
    <3> QED
      BY <3>3, <3>4, <3>5, <3>6
  <2> QED
    BY <2>2, <2>3
<1>4. loading' \subseteq Things /\ \A e \in loading' : snap.things[e] \in Points
  BY <1>1 DEF LoadIndex, SnapType
<1>5. UNCHANGED <<zspace, simGrid, home, thing>>
  BY DEF LoadIndex
<1>6. ZoneTypes'
  BY <1>1, <1>3, <1>4, <1>5 DEF IZone, ZoneTypes
<1>7. SimsIndexed' /\ HomesIndexed' /\ OfOneSpace'
  BY <1>3, <1>5 DEF IZone, SimsIndexed, HomesIndexed, OfOneSpace, Simulated
<1>8. StoredGhostIsIndexed'
  <2> SUFFICES ASSUME NEW z \in ZoneIds, NEW e \in Things, refers'[z] # "none", store'[z][e] # None
               PROVE  Index(z)'.positions[RemoteGhost(e)] = store'[z][e].pos
    BY DEF StoredGhostIsIndexed
  <2>1. refers'[z] = refers[z] /\ ownGrid'[z] = ownGrid[z] /\ store'[z] = store[z]
    BY <1>3 DEF NoThings
  <2> QED
    BY <1>5, <2>1 DEF IZone, StoredGhostIsIndexed, Index
<1> QED
  BY <1>6, <1>7, <1>8 DEF IZone

\* The next entity of a snapshot is put into the zone, with no Space of its own.
LEMMA LoadEntityStep ==
  ASSUME IZone, NEW e \in Things, LoadEntity(e) PROVE IZone'
<1>1. snap.zone \in ZoneIds /\ snap.things[e] \in Points
  BY DEF LoadEntity, IZone, ZoneTypes, SnapType
<1>2. Put(e, snap.zone, snap.things[e], None) /\ loading' \subseteq loading
  BY DEF LoadEntity
<1> QED
  BY <1>1, <1>2, PutStep

\* Every step keeps the invariant.
LEMMA IZoneStep == IZone /\ [ZoneStateNext]_stateVars => IZone'
<1> SUFFICES ASSUME IZone, [ZoneStateNext]_stateVars PROVE IZone'
  OBVIOUS
<1>1. CASE UNCHANGED stateVars
  BY <1>1 DEF stateVars, IZone, ZoneTypes, SimsIndexed, HomesIndexed, OfOneSpace,
              StoredGhostIsIndexed, Simulated, Index
<1>2. ASSUME NEW z \in ZoneIds, Release(z) \/ SnapshotZone(z) \/ \E s \in Spaces : Assign(z, s)
      PROVE  IZone'
  BY <1>2, ReleaseStep, SnapshotStep, AssignStep
<1>3. ASSUME NEW e \in Things, Remove(e) \/ LoadEntity(e) PROVE IZone'
  BY <1>3, RemoveStep, LoadEntityStep
<1>4. ASSUME NEW e \in Things, NEW p \in Points, Displace(e, p) \/ SendEntityUpdate(e, p)
      PROVE  IZone'
  BY <1>4, DisplaceStep, EntityUpdateStep
<1>5. ASSUME NEW e \in Things, NEW p \in Points, NEW z \in ZoneIds,
             ApplyEntityEnter(z, e, p) \/ \E s \in Spaces \cup {None} : Add(e, z, p, s)
      PROVE  IZone'
  <2>1. CASE ApplyEntityEnter(z, e, p)
    BY <2>1, EntityEnterStep
  <2>2. ASSUME NEW s \in Spaces \cup {None}, Add(e, z, p, s) PROVE IZone'
    BY <2>2, PutStep DEF Add
  <2> QED
    BY <1>5, <2>1, <2>2
<1>6. ASSUME NEW e \in Things, NEW z \in ZoneIds, ApplyEntityLeave(z, e) PROVE IZone'
  BY <1>6, EntityLeaveStep
<1>7. ASSUME NEW z \in ZoneIds, NEW known \in SUBSET Things, NEW at \in [known -> Points],
             Reconcile(z, at)
      PROVE  IZone'
  BY <1>7, ReconcileStep
<1> QED
  BY <1>1, <1>2, <1>3, <1>4, <1>5, <1>6, <1>7, AgeStep, LoadIndexStep DEF ZoneStateNext

\* A ghost the server stores is where it is stored in the zone's index, for any
\* numbers of zones, entities and points.
THEOREM StoredGhostsAreIndexed == ZoneStateSpec => []StoredGhostIsIndexed
<1>1. IZone => StoredGhostIsIndexed
  BY DEF IZone
<1> QED
  BY <1>1, IZoneInit, IZoneStep, PTL DEF ZoneStateSpec

\* A zone of a Space has objects of the Space only, and a query for a Space
\* reports no others, for any numbers of zones and Spaces.
THEOREM ZonesAreOneSpace == ZoneStateSpec => []ZoneIsOneSpace
<1>1. IZone => ZoneIsOneSpace
  BY ZoneStateAssumption DEF IZone, OfOneSpace, ZoneIsOneSpace, NearGrid
<1> QED
  BY <1>1, IZoneInit, IZoneStep, PTL DEF ZoneStateSpec

\* On a server of one zone QueryEntities reports exactly the zone's entities
\* within range, for any number of entities and any points.
THEOREM LocalQueriesAreExact ==
  ASSUME NEW z, ZoneIds = {z}
  PROVE  ZoneStateSpec => []QueryLocalIsExact
<1>1. IZone => QueryLocalIsExact
  <2> SUFFICES ASSUME IZone, NEW c \in Points, refers[z] = "sim", NEW e \in Things
               PROVE  /\ home[e] # None <=> home[e] = z
                      /\ home[e] = z => (Thing(e) \in EntitiesInRange(Index(z), c, Radius)
                                           <=> Within(thing[z][e].pos, c, Radius))
    BY DEF QueryLocalIsExact, QueryLocal
  <2>1. home[e] \in {z, None} /\ z # None
    BY ZoneStateAssumption DEF IZone, ZoneTypes
  <2>2. Index(z) \in GridType /\ Listed(Index(z))
    BY IndexTypes DEF IZone, SimsIndexed, Index
  <2>3. CASE home[e] = z
    <3>1. thing[z][e].pos \in Points /\ Index(z).positions[Thing(e)] = thing[z][e].pos
      BY <2>1, <2>3 DEF IZone, HomesIndexed, ThingType, Index
    <3>2. Thing(e) \in Present(Index(z))
      BY <3>1, ThingIds, GridAssumption DEF Present
    <3>3. Radius \in 0 .. Radius
      BY GridAssumption
    <3> QED
      BY <2>1, <2>2, <2>3, <3>1, <3>2, <3>3, RangeExact
  <2> QED
    BY <2>1, <2>3
<1> QED
  BY <1>1, IZoneInit, IZoneStep, PTL DEF ZoneStateSpec
============================================================================
