-------------------------------- MODULE AOI --------------------------------
(***************************************************************************)
(* One area-of-interest index and the calls the simulation makes on it.    *)
(* addEntity, detectZoneBoundaries and ApplyEntityEnter call Enter without *)
(* looking whether the id is already in the index, and an id entered twice *)
(* is listed twice from then on.                                           *)
(***************************************************************************)
EXTENDS AOIGrid

CONSTANT MaxCopies   \* bound on the occurrences of an id in one cell's list

ASSUME CopiesAssumption == MaxCopies \in Nat

VARIABLES
  grid,
  reentered   \* history: ids entered while the index had them

vars == <<grid, reentered>>

TypeOK == grid \in GridType /\ reentered \subseteq Ids

Init == grid = New /\ reentered = {}

Bounded(id, p) == grid.cells[id][CellKeyFor(p)] < MaxCopies

EnterEntity(id, p) ==
  /\ Bounded(id, p)
  /\ grid' = Enter(grid, id, p)
  /\ reentered' = IF id \in Present(grid) THEN reentered \cup {id} ELSE reentered

LeaveEntity(id) == grid' = Leave(grid, id) /\ UNCHANGED reentered

MoveEntity(id, p) ==
  /\ Bounded(id, p)
  /\ grid' = Move(grid, id, p)
  /\ UNCHANGED reentered

\* The index travels to another server: SnapshotZone, then LoadZoneSnapshot.
\* Only positions travel, so no id is listed twice any more.
Transfer == grid' = Deserialize(Serialize(grid)) /\ reentered' = {}

\* A snapshot without index state: Deserialize falls back to New.
TransferEmpty == grid' = New /\ reentered' = {}

Next ==
  \/ \E id \in Ids, p \in Points : EnterEntity(id, p) \/ MoveEntity(id, p)
  \/ \E id \in Ids : LeaveEntity(id)
  \/ Transfer
  \/ TransferEmpty

Spec == Init /\ [][Next]_vars

----------------------------------------------------------------------------
\* For every center and every radius up to the index's own, a query returns
\* exactly the entities of the index that are within the radius: no cell of
\* the circle is left out, and stale entries of other cells do no harm.
PresentAreFound ==
  \A c \in Points, r \in 0 .. Radius :
    EntitiesInRange(grid, c, r) \cap Present(grid) =
      {id \in Present(grid) : Within(grid.positions[id], c, r)}

\* A query returns no id that has left the index, unless the id was entered a
\* second time while the index had it and the index has not been rebuilt since.
NoPhantom ==
  \A c \in Points, r \in 0 .. Radius :
    EntitiesInRange(grid, c, r) \subseteq Present(grid) \cup reentered
============================================================================
