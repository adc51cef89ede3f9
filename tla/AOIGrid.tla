------------------------------ MODULE AOIGrid ------------------------------
(***************************************************************************)
(* The area-of-interest index of package aoi, as operators on index values.*)
(* A value is a record with the index's two maps:                          *)
(*   cells     - how many times an id occurs in the list of a cell.  Every *)
(*               reader of a list sorts or scans it for one id, so the     *)
(*               order inside a list is left out;                          *)
(*   positions - the last position of an id, NoPos when it has none.       *)
(* Coordinates are integers; Y takes no part in the index.                 *)
(***************************************************************************)
EXTENDS Integers

CONSTANTS
  Ids,        \* entity and ghost ids
  Points,     \* positions entities take
  NoPos,      \* no entry in positions
  CellSize,
  Radius

ASSUME GridAssumption ==
  /\ Points \subseteq [x : Int, z : Int]
  /\ NoPos \notin Points
  /\ CellSize \in Nat \ {0}
  /\ Radius \in Nat

\* Mutant: the quotient is rounded down.
CellRange_Floor == Radius \div CellSize

\* ceil(Radius / CellSize)
CellRange == (Radius + CellSize - 1) \div CellSize

CellKeyFor(p) == <<p.x \div CellSize, p.z \div CellSize>>

Keys == {CellKeyFor(p) : p \in Points}

New == [cells |-> [id \in Ids |-> [k \in Keys |-> 0]], positions |-> [id \in Ids |-> NoPos]]

GridType == [cells : [Ids -> [Keys -> Nat]], positions : [Ids -> Points \cup {NoPos}]]

\* append(list, id), and the removal of the first occurrence of id.
Insert(counts, k) == [counts EXCEPT ![k] = @ + 1]
Delete(counts, k) == [counts EXCEPT ![k] = IF @ > 0 THEN @ - 1 ELSE 0]

Present(g) == {id \in Ids : g.positions[id] # NoPos}

Enter(g, id, p) ==
  [cells     |-> [g.cells EXCEPT ![id] = Insert(@, CellKeyFor(p))],
   positions |-> [g.positions EXCEPT ![id] = p]]

\* Mutant: the position is deleted before the id is looked for in its cell.
Leave_PositionOnly(g, id) ==
  [cells |-> g.cells, positions |-> [g.positions EXCEPT ![id] = NoPos]]

Leave(g, id) ==
  IF id \notin Present(g) THEN g
  ELSE [cells     |-> [g.cells EXCEPT ![id] = Delete(@, CellKeyFor(g.positions[id]))],
        positions |-> [g.positions EXCEPT ![id] = NoPos]]

Move(g, id, p) ==
  IF id \notin Present(g) THEN Enter(g, id, p)
  ELSE LET old == CellKeyFor(g.positions[id])
           new == CellKeyFor(p)
       IN [cells     |-> IF old = new THEN g.cells
                         ELSE [g.cells EXCEPT ![id] = Insert(Delete(@, old), new)],
           positions |-> [g.positions EXCEPT ![id] = p]]

\* The ids listed in the square of cells around p.
Query(g, p) ==
  LET center == CellKeyFor(p)
  IN {id \in Ids : \E k \in Keys :
        /\ g.cells[id][k] > 0
        /\ k[1] - center[1] \in -CellRange .. CellRange
        /\ k[2] - center[2] \in -CellRange .. CellRange}

\* Reading a missing position yields the zero vector.
PositionOf(g, id) ==
  IF id \in Present(g) THEN g.positions[id] ELSE [x |-> 0, z |-> 0]

Within(p, center, r) ==
  (p.x - center.x) * (p.x - center.x) + (p.z - center.z) * (p.z - center.z) <= r * r

EntitiesInRange(g, center, r) ==
  {id \in Query(g, center) : Within(PositionOf(g, id), center, r)}

Serialize(g) == g.positions

\* The serialized positions are entered one by one into an empty index.
Deserialize(positions) ==
  [cells     |-> [id \in Ids |-> [k \in Keys |->
                    IF positions[id] # NoPos /\ CellKeyFor(positions[id]) = k THEN 1 ELSE 0]],
   positions |-> positions]
============================================================================
