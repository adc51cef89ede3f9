------------------------------- MODULE World -------------------------------
(***************************************************************************)
(* The simulation of one game server: its zones, the entities in them, the *)
(* index of each zone, the ghosts that crossings leave behind, what every  *)
(* entity sees, and what its client has been told.                         *)
(*                                                                         *)
(* g.mu protects everything, but a tick takes and releases it in each of   *)
(* its phases, so gRPC handlers run in between.  One action is one locked  *)
(* section.                                                                *)
(*                                                                         *)
(* sim.entities and g.Entities hold pointers.  An entity that is added     *)
(* again becomes a new object; the old one stays in its zone.  obj[z][e]   *)
(* is the position of the object zone z has for e, and g.Entities[e] is    *)
(* the object of the zone zoneOf[e].                                       *)
(*                                                                         *)
(* Left out: the ghosts that other servers announce (g.ghostStore), and    *)
(* Move and State events, which change nothing of the above.               *)
(***************************************************************************)
EXTENDS AOIGrid

CONSTANTS
  Entities,     \* entity ids
  NPCs,         \* the entities with a behaviour and no client
  Migrants,     \* the entities gRPC handlers add, at any time
  Zones,
  NoZone,       \* no entry in entityZone, and none in g.Entities
  NoState,      \* no entry in entityAOI
  NoGhost,      \* no entry in g.ghosts
  MaxCopies     \* bound on the occurrences of an id in one cell's list

\* The ids of an index: entities, and the ghosts named after them.
Body(e) == <<e, "entity">>
Ghost(e) == <<e, "ghost">>

ASSUME WorldAssumption ==
  /\ Ids = Entities \X {"entity", "ghost"}
  /\ NPCs \subseteq Entities /\ Migrants \subseteq Entities
  /\ NoZone \notin Zones
  /\ NoState \notin [visible : SUBSET Ids, last : Points]
  /\ NoGhost \notin Zones
  /\ MaxCopies \in Nat

VARIABLES
  zones,      \* g.Zones: the zones the server simulates
  indexed,    \* g.aoiIndex: the zones whose index other code can reach
  zoneOf,     \* g.entityZone and g.Entities
  obj,        \* sim.entities: position of a zone's object for an entity
  grid,       \* sim.aoi
  aoi,        \* g.entityAOI
  ghosts,     \* g.ghosts: the origin zone of the ghost of an entity
  overdue,    \* entities of g.sessionStates whose reconnect window has passed
  tick,       \* where the tick is, and the zones it has still to visit
  told,       \* per player, the entities its client has been told of
  lost        \* players whose client has missed an event: Events was full

worldVars == <<zones, indexed, zoneOf, obj, grid, aoi, ghosts>>
vars == <<zones, indexed, zoneOf, obj, grid, aoi, ghosts, overdue, tick, told, lost>>

Live == {e \in Entities : zoneOf[e] # NoZone}

\* The entities whose object zone z holds.
Members(z) == {e \in Entities : obj[z][e] # NoPos}

NoObjects == [e \in Entities |-> NoPos]

TypeOK ==
  /\ zones \subseteq Zones
  /\ indexed \subseteq zones
  /\ zoneOf \in [Entities -> Zones \cup {NoZone}]
  /\ obj \in [Zones -> [Entities -> Points \cup {NoPos}]]
  /\ grid \in [Zones -> GridType]
  /\ aoi \in [Entities -> [visible : SUBSET Ids, last : Points] \cup {NoState}]
  /\ ghosts \in [Entities -> Zones \cup {NoGhost}]
  /\ overdue \subseteq Entities
  /\ tick \in [pc : {"cmds", "packets", "list", "zones", "visible", "sessions"},
               todo : SUBSET Zones, zone : Zones \cup {NoZone}]
  /\ told \in [Entities -> SUBSET Entities]
  /\ lost \subseteq Entities

Init ==
  /\ zones = {} /\ indexed = {}
  /\ zoneOf = [e \in Entities |-> NoZone]
  /\ obj = [z \in Zones |-> NoObjects]
  /\ grid = [z \in Zones |-> New]
  /\ aoi = [e \in Entities |-> NoState]
  /\ ghosts = [e \in Entities |-> NoGhost]
  /\ overdue = {}
  /\ tick = [pc |-> "cmds", todo |-> {}, zone |-> NoZone]
  /\ told = [e \in Entities |-> {}]
  /\ lost = {}

----------------------------------------------------------------------------
(* Zones                                                                   *)

AssignZone(z) ==
  /\ z \notin zones
  /\ zones' = zones \cup {z}
  /\ indexed' = indexed \cup {z}
  /\ UNCHANGED <<zoneOf, obj, grid, aoi, ghosts, overdue, tick, told, lost>>

Unindex(z) == indexed \ {z}

\* Only the entities entityZone has in the zone are forgotten; objects the zone
\* holds for entities of another zone go with the zone.
ReleaseZone(z) ==
  LET here == {e \in Entities : zoneOf[e] = z} IN
  /\ z \in zones
  /\ zoneOf' = [e \in Entities |-> IF e \in here THEN NoZone ELSE zoneOf[e]]
  /\ aoi' = [e \in Entities |-> IF e \in here THEN NoState ELSE aoi[e]]
  /\ ghosts' = [e \in Entities |-> IF ghosts[e] = z THEN NoGhost ELSE ghosts[e]]
  /\ zones' = zones \ {z}
  /\ indexed' = Unindex(z)
  /\ obj' = [obj EXCEPT ![z] = NoObjects]
  /\ grid' = [grid EXCEPT ![z] = New]
  /\ told' = [e \in Entities |-> IF e \in here THEN {} ELSE told[e]]
  /\ lost' = lost \ here
  /\ UNCHANGED <<overdue, tick>>

----------------------------------------------------------------------------
(* Entities                                                                *)

\* The bound on the lists: there is room for id i in the cell of p.
Room(z, i, p) == grid[z].cells[i][CellKeyFor(p)] < MaxCopies

\* addEntity: a command of the relay, which the tick applies, or a migration or a
\* snapshot, which a gRPC handler applies at once.  A zone that is missing is
\* made, without an entry in aoiIndex.  The entity is not taken out of the zone
\* it was in.  Its client starts with an empty picture.
AddEntity(e, z, p) ==
  /\ tick.pc = "cmds" \/ e \in Migrants
  /\ Room(z, Body(e), p)
  /\ zones' = zones \cup {z}
  /\ zoneOf' = [zoneOf EXCEPT ![e] = z]
  /\ obj' = [obj EXCEPT ![z][e] = p]
  /\ grid' = [grid EXCEPT ![z] = Enter(@, Body(e), p)]
  /\ aoi' = [aoi EXCEPT ![e] = [visible |-> {}, last |-> p]]
  /\ told' = [told EXCEPT ![e] = {}]
  /\ lost' = lost \ {e}
  /\ UNCHANGED <<indexed, ghosts, overdue, tick>>

\* removeEntity, a command the tick applies.
RemoveEntity(e) ==
  LET z == zoneOf[e] IN
  /\ tick.pc = "cmds"
  /\ z # NoZone
  /\ obj' = [obj EXCEPT ![z][e] = NoPos]
  /\ grid' = [grid EXCEPT ![z] = Leave(@, Body(e))]
  /\ zoneOf' = [zoneOf EXCEPT ![e] = NoZone]
  /\ aoi' = [aoi EXCEPT ![e] = NoState]
  /\ told' = [told EXCEPT ![e] = {}]
  /\ lost' = lost \ {e}
  /\ UNCHANGED <<zones, indexed, ghosts, overdue, tick>>

\* The reconnect window of a player passes: MarkDisconnected, then time.
WindowPasses(e) ==
  /\ e \in Live \ NPCs
  /\ overdue' = overdue \cup {e}
  /\ UNCHANGED <<worldVars, tick, told, lost>>

\* MarkReconnected
Reconnected(e) ==
  /\ e \in overdue
  /\ overdue' = overdue \ {e}
  /\ UNCHANGED <<worldVars, tick, told, lost>>

----------------------------------------------------------------------------
(* The tick                                                                *)

\* One call on index g for each id of a set, where after[i] is g after the call
\* for i alone.  A call touches the entries of its own id only, so the order in
\* which the code ranges over a map does not matter.
Each(g, after) ==
  [cells     |-> [i \in Ids |-> IF i \in DOMAIN after THEN after[i].cells[i] ELSE g.cells[i]],
   positions |-> [i \in Ids |-> IF i \in DOMAIN after THEN after[i].positions[i]
                                                      ELSE g.positions[i]]]

\* The bound on the lists, for a move.
RoomToMove(e, p) ==
  LET z == zoneOf[e]
  IN CellKeyFor(p) = CellKeyFor(obj[z][e]) \/ Room(z, Body(e), p)

\* Mutant: the index is not told.
MoveObject_Unindexed(e, p, z) ==
  /\ obj' = [obj EXCEPT ![z][e] = p]
  /\ grid' = grid

\* The object of entity e moves, and its entry in the zone's index with it.
MoveObject(e, p, z) ==
  /\ obj' = [obj EXCEPT ![z][e] = p]
  /\ grid' = [grid EXCEPT ![z] = Move(@, Body(e), p)]

\* dispatch of a position update: a client moves its own entity.
Dispatch(e, p) ==
  /\ tick.pc \in {"cmds", "packets"}
  /\ e \in Live \ NPCs
  /\ RoomToMove(e, p)
  /\ MoveObject(e, p, zoneOf[e])
  /\ tick' = [tick EXCEPT !.pc = "packets"]
  /\ UNCHANGED <<zones, indexed, zoneOf, aoi, ghosts, overdue, told, lost>>

\* simulate: behaviours move their entities.
Simulate ==
  /\ tick.pc \in {"cmds", "packets"}
  /\ \E to \in [Live \cap NPCs -> Points] :
       /\ \A e \in Live \cap NPCs : RoomToMove(e, to[e])
       /\ obj' = [z \in Zones |-> [e \in Entities |->
                    IF e \in Live \cap NPCs /\ zoneOf[e] = z THEN to[e] ELSE obj[z][e]]]
       /\ grid' = [z \in Zones |->
                     Each(grid[z], [i \in {Body(e) : e \in {n \in Live \cap NPCs : zoneOf[n] = z}}
                                      |-> Move(grid[z], i, to[i[1]])])]
  /\ tick' = [tick EXCEPT !.pc = "list"]
  /\ UNCHANGED <<zones, indexed, zoneOf, aoi, ghosts, overdue, told, lost>>

\* zoneIDs: the zones the tick will visit, in any order.
ListZones ==
  /\ tick.pc = "list"
  /\ tick' = [pc |-> "zones", todo |-> zones, zone |-> NoZone]
  /\ UNCHANGED <<worldVars, overdue, told, lost>>

\* The members of a zone that have left the cell they were last seen in.
Crossed(z) ==
  {e \in Members(z) : aoi[e] # NoState /\ CellKeyFor(aoi[e].last) # CellKeyFor(obj[z][e])}

\* detectZoneBoundaries: a crossing leaves a ghost in the old cell.  A zone that
\* has been released meanwhile is skipped: it has no members.
DetectZoneBoundaries(z) ==
  /\ tick.pc = "zones" /\ z \in tick.todo
  /\ \A e \in Crossed(z) : Room(z, Ghost(e), aoi[e].last)
  /\ ghosts' = [e \in Entities |-> IF e \in Crossed(z) THEN z ELSE ghosts[e]]
  /\ grid' = [grid EXCEPT ![z] = Each(@, [i \in {Ghost(e) : e \in Crossed(z)}
                                             |-> Enter(grid[z], i, aoi[i[1]].last)])]
  /\ tick' = [pc |-> "visible", todo |-> tick.todo \ {z}, zone |-> z]
  /\ UNCHANGED <<zones, indexed, zoneOf, obj, aoi, overdue, told, lost>>

\* Nobody receives the events for a behaviour's entity, so what it sees is left
\* out.
InRange(z, e) == IF e \in NPCs THEN {} ELSE EntitiesInRange(grid[z], obj[z][e], Radius)

Seen(e) == IF aoi[e] = NoState THEN {} ELSE aoi[e].visible

\* Spawn events: what has come into range and is an entity of this server.
Spawned(z, e) ==
  {x \in Live \ {e} : Body(x) \in InRange(z, e) \ Seen(e)}

\* Mutant: only what still is an entity of this server.
Despawned_LiveOnly(z, e) == {x \in Live : Body(x) \in Seen(e) \ InRange(z, e)}

\* Despawn events: whatever is out of range now.  Those for ghosts tell a client
\* nothing, as it was never told of a ghost.
Despawned(z, e) == {x \in Entities : Body(x) \in Seen(e) \ InRange(z, e)}

\* updateVisibility.  publish drops an event when Events is full; the clients in
\* missed lose one or more of theirs, and what they know is no longer tracked.
UpdateVisibility ==
  LET z == tick.zone IN
  /\ tick.pc = "visible"
  /\ aoi' = [e \in Entities |->
               IF e \in Members(z) THEN [visible |-> InRange(z, e), last |-> obj[z][e]] ELSE aoi[e]]
  /\ \E missed \in SUBSET {e \in Members(z) : Spawned(z, e) \cup Despawned(z, e) # {}} :
       /\ lost' = lost \cup missed
       /\ told' = [e \in Entities |->
                     IF e \in lost \cup missed THEN {}
                     ELSE IF e \in Members(z) THEN (told[e] \cup Spawned(z, e)) \ Despawned(z, e)
                     ELSE told[e]]
  /\ tick' = [tick EXCEPT !.pc = "zones", !.zone = NoZone]
  /\ UNCHANGED <<zones, indexed, zoneOf, obj, grid, ghosts, overdue>>

\* Mutant: only g.ghosts forgets them.
LeaveGhosts_Kept(z, expired) == grid[z]

LeaveGhosts(z, expired) ==
  Each(grid[z], [i \in {Ghost(e) : e \in {x \in expired : ghosts[x] = z}} |-> Leave(grid[z], i)])

\* sweepGhosts: any of the ghosts may have reached the end of their lifetime.
SweepGhosts(expired) ==
  /\ tick.pc = "zones" /\ tick.todo = {}
  /\ grid' = [z \in Zones |-> LeaveGhosts(z, expired)]
  /\ ghosts' = [e \in Entities |-> IF e \in expired THEN NoGhost ELSE ghosts[e]]
  /\ tick' = [tick EXCEPT !.pc = "sessions"]
  /\ UNCHANGED <<zones, indexed, zoneOf, obj, aoi, overdue, told, lost>>

\* The entity leaves the index only if its zone is in aoiIndex, and its object
\* stays in the zone.
SweepDisconnected ==
  /\ tick.pc = "sessions"
  /\ grid' = [z \in Zones |->
                Each(grid[z], [i \in {Body(e) : e \in {x \in overdue : zoneOf[x] = z /\ z \in indexed}}
                                 |-> Leave(grid[z], i)])]
  /\ zoneOf' = [e \in Entities |-> IF e \in overdue THEN NoZone ELSE zoneOf[e]]
  /\ aoi' = [e \in Entities |-> IF e \in overdue THEN NoState ELSE aoi[e]]
  /\ told' = [e \in Entities |-> IF e \in overdue THEN {} ELSE told[e]]
  /\ lost' = lost \ overdue
  /\ overdue' = {}
  /\ tick' = [tick EXCEPT !.pc = "cmds"]
  /\ UNCHANGED <<zones, indexed, obj, ghosts>>

Next ==
  \/ \E z \in Zones : AssignZone(z) \/ ReleaseZone(z) \/ DetectZoneBoundaries(z)
  \/ \E e \in Entities, p \in Points : Dispatch(e, p) \/ \E z \in Zones : AddEntity(e, z, p)
  \/ \E e \in Entities : RemoveEntity(e) \/ WindowPasses(e) \/ Reconnected(e)
  \/ Simulate \/ ListZones \/ UpdateVisibility \/ SweepDisconnected
  \/ \E expired \in SUBSET {e \in Entities : ghosts[e] # NoGhost} : SweepGhosts(expired)

Spec == Init /\ [][Next]_vars

----------------------------------------------------------------------------
\* Every entity of the server is in a zone the server simulates, the zone holds
\* its object, and a query of the zone's index around any point finds the entity
\* exactly when the object is within the radius of the point.
LiveIsFound ==
  \A e \in Live :
    LET z == zoneOf[e] IN
    /\ z \in zones
    /\ obj[z][e] # NoPos
    /\ \A p \in Points :
         Body(e) \in EntitiesInRange(grid[z], p, Radius) <=> Within(obj[z][e], p, Radius)

\* On a server with one zone, the index has the ghost of an entity exactly as
\* long as g.ghosts has it, so that sweepGhosts takes out every ghost it should
\* and forgets none.
GhostIsTracked ==
  \A z \in Zones, e \in Entities : Ghost(e) \in Present(grid[z]) <=> ghosts[e] = z

\* Unless an event was dropped, whatever a client has been told of is in the
\* visible set of its entity, so that the client will be told when it goes.
ToldIsVisible ==
  \A e \in Live \ lost : \A x \in told[e] : Body(x) \in aoi[e].visible

\* A ghost that has been swept is in nobody's range any more.
SweptGhostIsGone ==
  \A z \in zones, e \in Entities :
    ghosts[e] = NoGhost => \A p \in Points : Ghost(e) \notin EntitiesInRange(grid[z], p, Radius)
============================================================================
