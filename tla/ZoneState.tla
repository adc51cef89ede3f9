----------------------------- MODULE ZoneState -----------------------------
(***************************************************************************)
(* What other servers and the control plane do to the zones of a game      *)
(* server: zones assigned and released, entities that migrate in and out,  *)
(* ghosts that neighbours announce (g.ghostStore), QueryEntities, zone     *)
(* snapshots that are streamed and loaded, and the Space of an entity.     *)
(* RPCs may come in any order, late, or again.  One action is one section  *)
(* under g.mu.  A zone has its simulation's index, and aoiIndex refers to  *)
(* the same index or to one of its own.                                    *)
(***************************************************************************)
EXTENDS AOIGrid

CONSTANTS
  Things,       \* entity ids
  Spaces,       \* runtime ids
  ZoneIds,
  None,         \* no zone, no space, no simulation, no ghost, no snapshot
  GhostLife,    \* 6 * ghostTTL, in clock steps
  Copies        \* bound on the occurrences of an id in one cell's list

Thing(e) == <<e, "entity">>
RemoteGhost(e) == <<e, "ghost">>

ASSUME ZoneStateAssumption ==
  /\ Things \X {"entity", "ghost"} \subseteq Ids
  /\ None \notin ZoneIds \cup Spaces
  /\ None \notin GridType /\ None \notin [pos : Points, space : Spaces \cup {None}]
  /\ GhostLife \in Nat /\ Copies \in Nat

VARIABLES
  zspace,       \* zone -> RuntimeID of its sim.zone; None without zone or id
  simGrid,      \* zone -> sim.aoi, or None when g.Zones lacks the zone
  refers,       \* aoiIndex and ghostStore: "none", "sim", or "own" index
  ownGrid,      \* zone -> the index of its own
  home,         \* g.entityZone and g.Entities: entity -> zone
  thing,        \* zone -> entity -> [pos, space] of its object in sim.entities
  store,        \* ghostStore: zone -> entity -> [pos, left]
  snap,         \* a ZoneSnapshot on its way, or None
  loading       \* LoadZoneSnapshot: the entities it has still to add

stateVars == <<zspace, simGrid, refers, ownGrid, home, thing, store, snap, loading>>

NoThings == [e \in Things |-> None]

ZoneStateInit ==
  /\ zspace = [z \in ZoneIds |-> None]
  /\ simGrid = [z \in ZoneIds |-> None]
  /\ refers = [z \in ZoneIds |-> "none"]
  /\ ownGrid = [z \in ZoneIds |-> New]
  /\ home = NoThings
  /\ thing = [z \in ZoneIds |-> NoThings]
  /\ store = [z \in ZoneIds |-> NoThings]
  /\ snap = None /\ loading = {}

Simulated(z) == simGrid[z] # None
Index(z) == IF refers[z] = "sim" THEN simGrid[z] ELSE ownGrid[z]

\* aoiIndex[z] becomes g.
SetIndex(z, g) ==
  IF refers[z] = "sim" THEN simGrid' = [simGrid EXCEPT ![z] = g] /\ UNCHANGED ownGrid
  ELSE ownGrid' = [ownGrid EXCEPT ![z] = g] /\ UNCHANGED simGrid

Fits(g, i, p) == g.cells[i][CellKeyFor(p)] < Copies

-----------------------------------------------------------------------------
(* Zones and entities                                                      *)

Assign(z, s) ==
  /\ ~ Simulated(z)
  /\ zspace' = [zspace EXCEPT ![z] = s]
  /\ simGrid' = [simGrid EXCEPT ![z] = New]
  /\ refers' = [refers EXCEPT ![z] = "sim"]
  /\ store' = [store EXCEPT ![z] = NoThings]
  /\ UNCHANGED <<ownGrid, home, thing, snap, loading>>

Release(z) ==
  /\ Simulated(z)
  /\ home' = [e \in Things |-> IF home[e] = z THEN None ELSE home[e]]
  /\ zspace' = [zspace EXCEPT ![z] = None]
  /\ simGrid' = [simGrid EXCEPT ![z] = None]
  /\ refers' = [refers EXCEPT ![z] = "none"]
  /\ ownGrid' = [ownGrid EXCEPT ![z] = New]
  /\ thing' = [thing EXCEPT ![z] = NoThings]
  /\ store' = [store EXCEPT ![z] = NoThings]
  /\ UNCHANGED <<snap, loading>>

\* Mutant: the caller's Space is kept.
SpaceIn_Caller(z, s) == s

\* The Space an entity of caller-supplied Space s gets in zone z.
SpaceIn(z, s) == IF zspace[z] # None THEN zspace[z] ELSE s

Put(e, z, p, s) ==
  LET g == IF Simulated(z) THEN simGrid[z] ELSE New
  IN /\ Fits(g, Thing(e), p)
     /\ simGrid' = [simGrid EXCEPT ![z] = Enter(g, Thing(e), p)]
     /\ home' = [home EXCEPT ![e] = z]
     /\ thing' = [thing EXCEPT ![z][e] = [pos |-> p, space |-> SpaceIn(z, s)]]
     /\ UNCHANGED <<zspace, refers, ownGrid, store, snap>>

\* addEntity of an avatar, with the Space its client asked for, or
\* MigrateEntity, with none.
Add(e, z, p, s) == Put(e, z, p, s) /\ UNCHANGED loading

\* removeEntity, MigrateEntityOut.
Remove(e) ==
  LET z == home[e]
  IN /\ z # None
     /\ simGrid' = [simGrid EXCEPT ![z] = Leave(@, Thing(e))]
     /\ thing' = [thing EXCEPT ![z][e] = None]
     /\ home' = [home EXCEPT ![e] = None]
     /\ UNCHANGED <<zspace, refers, ownGrid, store, snap, loading>>

\* dispatch or simulate moves the entity: the simulation's index follows.
Displace(e, p) ==
  LET z == home[e]
  IN /\ z # None /\ Fits(simGrid[z], Thing(e), p)
     /\ simGrid' = [simGrid EXCEPT ![z] = Move(@, Thing(e), p)]
     /\ thing' = [thing EXCEPT ![z][e].pos = p]
     /\ UNCHANGED <<zspace, refers, ownGrid, home, store, snap, loading>>

-----------------------------------------------------------------------------
(* Ghosts of other servers                                                 *)

Stored(p) == [pos |-> p, left |-> GhostLife]

\* NotifyEntityEnter: enters the index even if the ghost is there.
ApplyEntityEnter(z, e, p) ==
  /\ refers[z] # "none" /\ Fits(Index(z), RemoteGhost(e), p)
  /\ SetIndex(z, Enter(Index(z), RemoteGhost(e), p))
  /\ store' = [store EXCEPT ![z][e] = Stored(p)]
  /\ UNCHANGED <<zspace, refers, home, thing, snap, loading>>

\* NotifyEntityLeave.
ApplyEntityLeave(z, e) ==
  /\ refers[z] # "none"
  /\ SetIndex(z, Leave(Index(z), RemoteGhost(e)))
  /\ store' = [store EXCEPT ![z][e] = None]
  /\ UNCHANGED <<zspace, refers, home, thing, snap, loading>>

\* Mutant: only the stored position changes.
MoveGhost_StoreOnly(z, e, p) == UNCHANGED <<simGrid, ownGrid>>

MoveGhost(z, e, p) == SetIndex(z, Move(Index(z), RemoteGhost(e), p))

\* SendEntityUpdate: the zone is the one this server has the entity itself in.
SendEntityUpdate(e, p) ==
  LET z == home[e]
  IN /\ z # None /\ refers[z] # "none" /\ store[z][e] # None
     /\ Fits(Index(z), RemoteGhost(e), p)
     /\ MoveGhost(z, e, p)
     /\ store' = [store EXCEPT ![z][e] = Stored(p)]
     /\ UNCHANGED <<zspace, refers, home, thing, snap, loading>>

\* The index after a neighbour reported e at p.
Reconciled(z, g, e, p) ==
  IF store[z][e] = None THEN Enter(g, RemoteGhost(e), p) ELSE Move(g, RemoteGhost(e), p)

\* ReconcileNeighborGhosts: the neighbour has these entities within range.
\* Expired ghosts it did not report are dropped.  A zone never assigned has no
\* state, and the call returns.  Each change touches the entries of one id, so
\* they are taken id by id.
Reconcile(z, at) ==
  LET old == Index(z)
      gone == {e \in Things \ DOMAIN at : store[z][e] # None /\ store[z][e].left = 0}
      new(e) == IF e \in DOMAIN at THEN Reconciled(z, old, e, at[e])
                ELSE IF e \in gone THEN Leave(old, RemoteGhost(e)) ELSE old
      ghost(i) == i \in Things \X {"ghost"}
  IN /\ refers[z] = "sim"
     /\ \A e \in DOMAIN at : Fits(old, RemoteGhost(e), at[e])
     /\ SetIndex(z, [cells |-> [i \in Ids |-> IF ghost(i) THEN new(i[1]).cells[i] ELSE old.cells[i]],
                     positions |-> [i \in Ids |-> IF ghost(i) THEN new(i[1]).positions[i]
                                                  ELSE old.positions[i]]])
     /\ store' = [store EXCEPT ![z] = [e \in Things |->
                    IF e \in DOMAIN at THEN Stored(at[e]) ELSE IF e \in gone THEN None ELSE @[e]]]
     /\ UNCHANGED <<zspace, refers, home, thing, snap, loading>>

GhostsAge ==
  /\ store' = [z \in ZoneIds |-> [e \in Things |->
       IF store[z][e] = None \/ store[z][e].left = 0 THEN store[z][e]
       ELSE [store[z][e] EXCEPT !.left = @ - 1]]]
  /\ store' # store
  /\ UNCHANGED <<zspace, simGrid, refers, ownGrid, home, thing, snap, loading>>

-----------------------------------------------------------------------------
(* Snapshots of a zone                                                     *)

\* SnapshotZone, for StreamZoneState: what the entities are and the index.
SnapshotZone(z) ==
  /\ refers[z] # "none" /\ loading = {}
  /\ snap' = [zone |-> z, index |-> Serialize(Index(z)),
              things |-> [e \in Things |-> IF home[e] = z THEN thing[z][e].pos ELSE NoPos]]
  /\ UNCHANGED <<zspace, simGrid, refers, ownGrid, home, thing, store, loading>>

\* ZoneStateSync receives it: LoadZoneSnapshot makes an index of its own when
\* aoiIndex has none, also when the simulation has one ...
LoadIndex ==
  /\ snap # None /\ loading = {}
  /\ loading' = {e \in Things : snap.things[e] # NoPos}
  /\ IF refers[snap.zone] # "none" THEN UNCHANGED <<refers, ownGrid, store>>
     ELSE /\ refers' = [refers EXCEPT ![snap.zone] = "own"]
          /\ ownGrid' = [ownGrid EXCEPT ![snap.zone] = Deserialize(snap.index)]
          /\ store' = [store EXCEPT ![snap.zone] = NoThings]
  /\ UNCHANGED <<zspace, simGrid, home, thing, snap>>

\* ... and adds the entities one by one, each under the lock anew.
LoadEntity(e) ==
  /\ e \in loading
  /\ Put(e, snap.zone, snap.things[e], None)
  /\ loading' = loading \ {e}

-----------------------------------------------------------------------------
ZoneStateNext ==
  \/ \E z \in ZoneIds : Release(z) \/ SnapshotZone(z) \/ \E s \in Spaces : Assign(z, s)
  \/ \E e \in Things : Remove(e) \/ LoadEntity(e)
  \/ \E e \in Things, p \in Points : Displace(e, p) \/ SendEntityUpdate(e, p)
  \/ \E e \in Things, p \in Points, z \in ZoneIds :
       \/ ApplyEntityEnter(z, e, p)
       \/ \E s \in Spaces \cup {None} : Add(e, z, p, s)
  \/ \E e \in Things, z \in ZoneIds : ApplyEntityLeave(z, e)
  \/ \E z \in ZoneIds, known \in SUBSET Things : \E at \in [known -> Points] : Reconcile(z, at)
  \/ GhostsAge
  \/ LoadIndex

ZoneStateSpec == ZoneStateInit /\ [][ZoneStateNext]_stateVars

\* Mutant: ids that are no entities of the server are reported as well.
QueryLocal_All(z, c) == {e \in Things : Thing(e) \in EntitiesInRange(Index(z), c, Radius)}

\* The entities queryLocal reports around c.
QueryLocal(z, c) ==
  {e \in Things : home[e] # None /\ Thing(e) \in EntitiesInRange(Index(z), c, Radius)}

\* EntitiesNearGrid: objects of a zone of the Space.
NearGrid(z, s, c) ==
  {e \in Things : zspace[z] = s /\ thing[z][e] # None /\ Within(thing[z][e].pos, c, Radius)}

\* A ghost the server has stored is in the index other servers' and its own
\* queries use, at the stored position, whatever order announcements, updates,
\* reconciliations and snapshots come in.
StoredGhostIsIndexed ==
  \A z \in ZoneIds, e \in Things :
    refers[z] # "none" /\ store[z][e] # None => Index(z).positions[RemoteGhost(e)] = store[z][e].pos

\* On a server with one zone that was assigned before anything was put in it,
\* QueryEntities reports exactly the zone's entities within range, though
\* ghosts share the index and re-added entities are listed in it twice.
QueryLocalIsExact ==
  \A z \in ZoneIds, c \in Points : refers[z] = "sim" =>
    QueryLocal(z, c) = {e \in Things : home[e] = z /\ Within(thing[z][e].pos, c, Radius)}

\* In a zone of a Space there are only entities of the Space, whoever added them
\* and whatever Space they were said to have, and a query for a Space reports
\* none of another.
ZoneIsOneSpace ==
  \A z \in ZoneIds, e \in Things :
    /\ zspace[z] # None /\ thing[z][e] # None => thing[z][e].space = zspace[z]
    /\ \A s \in Spaces, c \in Points : e \in NearGrid(z, s, c) => thing[z][e].space = s
============================================================================
