--------------------------- MODULE AOIGridProofs ---------------------------
(***************************************************************************)
(* Lemmas about the operators of the area-of-interest index, for every set *)
(* of ids and points, every cell size and every radius.                    *)
(***************************************************************************)
EXTENDS AOIGrid, TLAPS

(* Geometry                                                                *)

\* Cell boundaries: v lies in cell v \div CellSize.
LEMMA CellBounds ==
  ASSUME NEW v \in Int
  PROVE  /\ v \div CellSize \in Int
         /\ CellSize * (v \div CellSize) <= v
         /\ v < CellSize * (v \div CellSize) + CellSize
BY GridAssumption, Z3

\* CellRange cells cover at least the radius.
LEMMA CellRangeCovers ==
  /\ CellRange \in Nat
  /\ Radius <= CellSize * CellRange
<1>1. Radius + CellSize - 1 \in Int
  BY GridAssumption
<1>2. /\ CellRange \in Int
      /\ Radius + CellSize - 1 < CellSize * CellRange + CellSize
  BY <1>1, CellBounds DEF CellRange
<1> QED
  BY <1>2, GridAssumption, Z3

\* Two coordinates at most the radius apart are at most CellRange cells apart.
LEMMA CellsApart ==
  ASSUME NEW v \in Int, NEW w \in Int, v - w <= Radius
  PROVE  v \div CellSize - w \div CellSize <= CellRange
<1> DEFINE cv == v \div CellSize
           cw == w \div CellSize
<1>1. /\ cv \in Int /\ cw \in Int
      /\ CellSize * cv <= v
      /\ w < CellSize * cw + CellSize
  BY CellBounds
<1>2. CellRange \in Nat /\ Radius <= CellSize * CellRange
  BY CellRangeCovers
<1> HIDE DEF cv, cw
<1>3. CellSize * cv < CellSize * cw + CellSize + CellSize * CellRange
  BY <1>1, <1>2, GridAssumption
<1>4. CellSize * cv < CellSize * (cw + 1 + CellRange)
  BY <1>1, <1>2, <1>3, GridAssumption, Z3
<1>5. cv < cw + 1 + CellRange
  BY <1>1, <1>2, <1>4, GridAssumption, Z3
<1>6. cv - cw <= CellRange
  BY <1>1, <1>2, <1>5
<1> QED
  BY <1>6 DEF cv, cw

\* A point within r of another differs from it by at most r on each axis.
LEMMA AxisDistance ==
  ASSUME NEW d \in Int, NEW f \in Int, NEW r \in Nat, d * d + f * f <= r * r
  PROVE  d <= r /\ -d <= r
<1>1. f * f >= 0
  BY Z3
<1>2. d * d \in Int /\ f * f \in Int /\ r * r \in Int
  OBVIOUS
<1>3. d * d <= r * r
  BY <1>1, <1>2
<1> QED
  BY <1>3, Z3

----------------------------------------------------------------------------
(* The operations keep the type                                            *)

\* The cell of a point is a key of the index, and its coordinates are integers.
LEMMA KeyType ==
  ASSUME NEW p \in Points
  PROVE  /\ CellKeyFor(p) \in Keys
         /\ CellKeyFor(p)[1] = p.x \div CellSize
         /\ CellKeyFor(p)[2] = p.z \div CellSize
         /\ p.x \in Int /\ p.z \in Int
BY GridAssumption DEF CellKeyFor, Keys

\* Insert and Delete map counters to counters.
LEMMA CountsType ==
  ASSUME NEW counts \in [Keys -> Nat], NEW k \in Keys
  PROVE  Insert(counts, k) \in [Keys -> Nat] /\ Delete(counts, k) \in [Keys -> Nat]
BY DEF Insert, Delete

\* The empty index is an index.
LEMMA NewType == New \in GridType
BY DEF New, GridType

\* Enter returns an index.
LEMMA EnterType ==
  ASSUME NEW g \in GridType, NEW id \in Ids, NEW p \in Points
  PROVE  Enter(g, id, p) \in GridType
<1>1. g.cells \in [Ids -> [Keys -> Nat]] /\ g.positions \in [Ids -> Points \cup {NoPos}]
  BY DEF GridType
<1>2. Insert(g.cells[id], CellKeyFor(p)) \in [Keys -> Nat]
  BY <1>1, KeyType, CountsType
<1> QED
  BY <1>1, <1>2 DEF Enter, GridType

\* Leave returns an index.
LEMMA LeaveType ==
  ASSUME NEW g \in GridType, NEW id \in Ids
  PROVE  Leave(g, id) \in GridType
<1>1. g.cells \in [Ids -> [Keys -> Nat]] /\ g.positions \in [Ids -> Points \cup {NoPos}]
  BY DEF GridType
<1>2. CASE id \notin Present(g)
  BY <1>2 DEF Leave
<1>3. CASE id \in Present(g)
  <2>1. g.positions[id] \in Points
    BY <1>1, <1>3 DEF Present
  <2>2. Delete(g.cells[id], CellKeyFor(g.positions[id])) \in [Keys -> Nat]
    BY <1>1, <2>1, KeyType, CountsType
  <2> QED
    BY <1>1, <1>3, <2>2 DEF Leave, GridType
<1> QED
  BY <1>2, <1>3

\* Move returns an index.
LEMMA MoveType ==
  ASSUME NEW g \in GridType, NEW id \in Ids, NEW p \in Points
  PROVE  Move(g, id, p) \in GridType
<1>1. g.cells \in [Ids -> [Keys -> Nat]] /\ g.positions \in [Ids -> Points \cup {NoPos}]
  BY DEF GridType
<1>2. CASE id \notin Present(g)
  BY <1>2, EnterType DEF Move
<1>3. CASE id \in Present(g)
  <2> DEFINE old == CellKeyFor(g.positions[id])
             new == CellKeyFor(p)
             cs  == IF old = new THEN g.cells
                    ELSE [g.cells EXCEPT ![id] = Insert(Delete(@, old), new)]
  <2>1. g.positions[id] \in Points
    BY <1>1, <1>3 DEF Present
  <2>2. old \in Keys /\ new \in Keys
    BY <2>1, KeyType
  <2>3. Insert(Delete(g.cells[id], old), new) \in [Keys -> Nat]
    <3> HIDE DEF old, new
    <3> QED
      BY <1>1, <2>2, CountsType
  <2>4. cs \in [Ids -> [Keys -> Nat]]
    <3> HIDE DEF old, new
    <3> QED
      BY <1>1, <2>3
  <2>5. Move(g, id, p) = [cells |-> cs, positions |-> [g.positions EXCEPT ![id] = p]]
    BY <1>3 DEF Move
  <2> HIDE DEF cs
  <2> QED
    BY <1>1, <2>4, <2>5 DEF GridType
<1> QED
  BY <1>2, <1>3

\* Deserialize returns an index.
LEMMA DeserializeType ==
  ASSUME NEW positions \in [Ids -> Points \cup {NoPos}]
  PROVE  Deserialize(positions) \in GridType
BY DEF Deserialize, GridType

----------------------------------------------------------------------------
(* What the lists hold                                                     *)

\* Every id with a position is listed in the cell of its position.
Listed(g) == \A id \in Present(g) : g.cells[id][CellKeyFor(g.positions[id])] > 0


\* Enter adds one occurrence of the id to the cell of its new position, and
\* touches no other id.
LEMMA EnterEffect ==
  ASSUME NEW g \in GridType, NEW id \in Ids, NEW p \in Points, NEW h, h = Enter(g, id, p)
  PROVE  /\ h.positions[id] = p /\ id \in Present(h)
         /\ \A k \in Keys : h.cells[id][k] = IF k = CellKeyFor(p) THEN g.cells[id][k] + 1
                                                                  ELSE g.cells[id][k]
         /\ \A j \in Ids \ {id} : h.positions[j] = g.positions[j] /\ h.cells[j] = g.cells[j]
         /\ \A j \in Ids \ {id} : j \in Present(h) <=> j \in Present(g)
<1>1. g.cells \in [Ids -> [Keys -> Nat]] /\ g.positions \in [Ids -> Points \cup {NoPos}]
  BY DEF GridType
<1>2. /\ h.cells = [g.cells EXCEPT ![id] = Insert(@, CellKeyFor(p))]
      /\ h.positions = [g.positions EXCEPT ![id] = p]
  BY DEF Enter
<1>3. p # NoPos
  BY GridAssumption
<1> QED
  BY <1>1, <1>2, <1>3, KeyType DEF Insert, Present

\* Leave takes one occurrence of the id out of its cell and its position, and
\* touches no other id.
LEMMA LeaveEffect ==
  ASSUME NEW g \in GridType, NEW id \in Present(g), NEW h, h = Leave(g, id)
  PROVE  /\ id \notin Present(h)
         /\ \A k \in Keys : h.cells[id][k] = IF k = CellKeyFor(g.positions[id]) /\ g.cells[id][k] > 0
                                             THEN g.cells[id][k] - 1 ELSE g.cells[id][k]
         /\ \A j \in Ids \ {id} : h.positions[j] = g.positions[j] /\ h.cells[j] = g.cells[j]
         /\ \A j \in Ids \ {id} : j \in Present(h) <=> j \in Present(g)
<1>1. g.cells \in [Ids -> [Keys -> Nat]] /\ g.positions \in [Ids -> Points \cup {NoPos}]
  BY DEF GridType
<1>2. /\ h.cells = [g.cells EXCEPT ![id] = Delete(@, CellKeyFor(g.positions[id]))]
      /\ h.positions = [g.positions EXCEPT ![id] = NoPos]
  BY DEF Leave
<1>3. g.positions[id] \in Points /\ id \in Ids
  BY <1>1 DEF Present
<1> QED
  BY <1>1, <1>2, <1>3, KeyType DEF Delete, Present

\* Move takes one occurrence of a listed id from its old cell to its new one, and
\* touches no other id.
LEMMA MoveEffect ==
  ASSUME NEW g \in GridType, NEW id \in Present(g), NEW p \in Points, NEW h, h = Move(g, id, p),
         Listed(g)
  PROVE  /\ h.positions[id] = p /\ id \in Present(h)
         /\ \A k \in Keys : h.cells[id][k] =
              CASE CellKeyFor(g.positions[id]) = CellKeyFor(p) -> g.cells[id][k]
                [] CellKeyFor(g.positions[id]) # CellKeyFor(p) /\ k = CellKeyFor(p)
                     -> g.cells[id][k] + 1
                [] CellKeyFor(g.positions[id]) # CellKeyFor(p) /\ k = CellKeyFor(g.positions[id])
                     -> g.cells[id][k] - 1
                [] OTHER -> g.cells[id][k]
         /\ \A j \in Ids \ {id} : h.positions[j] = g.positions[j] /\ h.cells[j] = g.cells[j]
         /\ \A j \in Ids \ {id} : j \in Present(h) <=> j \in Present(g)
<1> DEFINE old == CellKeyFor(g.positions[id])
           new == CellKeyFor(p)
<1>1. g.cells \in [Ids -> [Keys -> Nat]] /\ g.positions \in [Ids -> Points \cup {NoPos}]
  BY DEF GridType
<1>2. /\ h.cells = IF old = new THEN g.cells
                   ELSE [g.cells EXCEPT ![id] = Insert(Delete(@, old), new)]
      /\ h.positions = [g.positions EXCEPT ![id] = p]
  BY DEF Move
<1>3. g.positions[id] \in Points /\ id \in Ids /\ p # NoPos
  BY <1>1, GridAssumption DEF Present
<1>4. old \in Keys /\ new \in Keys
  BY <1>3, KeyType
<1>5. g.cells[id][old] > 0
  BY DEF Listed
<1> HIDE DEF old, new
<1>6. ASSUME old # new
      PROVE  h.cells[id] = [[g.cells[id] EXCEPT ![old] = @ - 1] EXCEPT ![new] = @ + 1]
  BY <1>1, <1>2, <1>3, <1>4, <1>5, <1>6 DEF Insert, Delete
<1>7. \A k \in Keys : h.cells[id][k] =
         CASE old = new -> g.cells[id][k]
           [] old # new /\ k = new -> g.cells[id][k] + 1
           [] old # new /\ k = old -> g.cells[id][k] - 1
           [] OTHER -> g.cells[id][k]
  <2>1. CASE old = new
    BY <1>2, <2>1
  <2>2. CASE old # new
    BY <1>1, <1>3, <1>4, <1>6, <2>2
  <2> QED
    BY <2>1, <2>2
<1>8. \A j \in Ids \ {id} : h.positions[j] = g.positions[j] /\ h.cells[j] = g.cells[j]
  BY <1>1, <1>2
<1>9. h.positions[id] = p /\ id \in Present(h)
  BY <1>1, <1>2, <1>3 DEF Present
<1> QED
  BY <1>7, <1>8, <1>9 DEF Present, old, new

\* A listed id within the radius of a query is in the square of cells it scans.
LEMMA QueryCovers ==
  ASSUME NEW g \in GridType, Listed(g), NEW id \in Present(g), NEW c \in Points,
         NEW r \in 0 .. Radius, Within(g.positions[id], c, r)
  PROVE  id \in Query(g, c)
<1> DEFINE p == g.positions[id]
           k == CellKeyFor(p)
           m == CellKeyFor(c)
<1>1. p \in Points /\ id \in Ids
  BY DEF Present, GridType
<1>2. /\ k \in Keys /\ k[1] = p.x \div CellSize /\ k[2] = p.z \div CellSize
      /\ m[1] = c.x \div CellSize /\ m[2] = c.z \div CellSize
      /\ p.x \in Int /\ p.z \in Int /\ c.x \in Int /\ c.z \in Int
  BY <1>1, KeyType
<1>3. g.cells[id][k] > 0
  BY DEF Listed
<1>4. /\ r \in Nat /\ r <= Radius /\ Radius \in Nat
      /\ (p.x - c.x) * (p.x - c.x) + (p.z - c.z) * (p.z - c.z) <= r * r
  BY GridAssumption DEF Within
<1> HIDE DEF p, k, m
<1>5. p.x - c.x <= r /\ -(p.x - c.x) <= r /\ p.z - c.z <= r /\ -(p.z - c.z) <= r
  <2>1. /\ p.x - c.x \in Int /\ p.z - c.z \in Int
        /\ (p.x - c.x) * (p.x - c.x) \in Int /\ (p.z - c.z) * (p.z - c.z) \in Int
        /\ r * r \in Int
    BY <1>2, <1>4
  <2>2. (p.z - c.z) * (p.z - c.z) + (p.x - c.x) * (p.x - c.x) <= r * r
    BY <1>4, <2>1
  <2> QED
    BY <1>4, <2>1, <2>2, AxisDistance
<1>6. p.x - c.x <= Radius /\ c.x - p.x <= Radius /\ p.z - c.z <= Radius /\ c.z - p.z <= Radius
  BY <1>2, <1>4, <1>5
<1>7. /\ k[1] - m[1] <= CellRange /\ m[1] - k[1] <= CellRange
      /\ k[2] - m[2] <= CellRange /\ m[2] - k[2] <= CellRange
  BY <1>2, <1>6, CellsApart
<1>8. CellRange \in Nat /\ k[1] \in Int /\ k[2] \in Int /\ m[1] \in Int /\ m[2] \in Int
  BY <1>2, CellRangeCovers, CellBounds
<1>9. k[1] - m[1] \in -CellRange .. CellRange /\ k[2] - m[2] \in -CellRange .. CellRange
  BY <1>7, <1>8
<1> QED
  BY <1>1, <1>2, <1>3, <1>9 DEF Query, m

\* EntitiesInRange is exact for the ids an index holds, when each is listed in
\* the cell of its position.
LEMMA RangeExact ==
  ASSUME NEW g \in GridType, Listed(g), NEW id \in Present(g), NEW c \in Points,
         NEW r \in 0 .. Radius
  PROVE  id \in EntitiesInRange(g, c, r) <=> Within(g.positions[id], c, r)
<1>1. PositionOf(g, id) = g.positions[id]
  BY DEF PositionOf
<1> QED
  BY <1>1, QueryCovers DEF EntitiesInRange

----------------------------------------------------------------------------
(* Every operation keeps ids listed in the cell of their position          *)

\* The empty index has no ids to list.
LEMMA NewListed == Listed(New)
BY DEF Listed, Present, New

\* Enter lists the id it enters.
LEMMA EnterListed ==
  ASSUME NEW g \in GridType, Listed(g), NEW id \in Ids, NEW p \in Points
  PROVE  Listed(Enter(g, id, p))
<1> DEFINE h == Enter(g, id, p)
<1>1. g.cells[id][CellKeyFor(p)] \in Nat /\ CellKeyFor(p) \in Keys
  BY KeyType DEF GridType
<1>2. /\ h.positions[id] = p
      /\ h.cells[id][CellKeyFor(p)] > 0
      /\ \A j \in Ids \ {id} : /\ h.positions[j] = g.positions[j] /\ h.cells[j] = g.cells[j]
                               /\ j \in Present(h) <=> j \in Present(g)
  BY <1>1, EnterEffect
<1> HIDE DEF h
<1>3. Listed(h)
  BY <1>2 DEF Listed, Present
<1> QED
  BY <1>3 DEF h

\* Leave takes out the occurrence of the id that leaves.
LEMMA LeaveListed ==
  ASSUME NEW g \in GridType, Listed(g), NEW id \in Ids
  PROVE  Listed(Leave(g, id))
<1>1. CASE id \notin Present(g)
  BY <1>1 DEF Leave
<1>2. CASE id \in Present(g)
  <2> DEFINE h == Leave(g, id)
  <2>1. /\ id \notin Present(h)
        /\ \A j \in Ids \ {id} : /\ h.positions[j] = g.positions[j] /\ h.cells[j] = g.cells[j]
                                 /\ j \in Present(h) <=> j \in Present(g)
    BY <1>2, LeaveEffect
  <2> HIDE DEF h
  <2>2. Listed(h)
    BY <2>1 DEF Listed, Present
  <2> QED
    BY <2>2 DEF h
<1> QED
  BY <1>1, <1>2

\* Move lists the id in the cell of its new position.
LEMMA MoveListed ==
  ASSUME NEW g \in GridType, Listed(g), NEW id \in Ids, NEW p \in Points
  PROVE  Listed(Move(g, id, p)) /\ Move(g, id, p).positions = [g.positions EXCEPT ![id] = p]
<1>1. CASE id \notin Present(g)
  BY <1>1, EnterListed DEF Move, Enter
<1>2. CASE id \in Present(g)
  <2> DEFINE h == Move(g, id, p)
  <2>1. g.positions[id] \in Points
    BY <1>2 DEF Present, GridType
  <2>2. CellKeyFor(p) \in Keys /\ CellKeyFor(g.positions[id]) \in Keys
    BY <2>1, KeyType
  <2>3. g.cells[id][CellKeyFor(p)] \in Nat
    BY <2>2 DEF GridType
  <2>4. g.cells[id][CellKeyFor(g.positions[id])] > 0
    BY <1>2 DEF Listed
  <2>5. h.cells[id][CellKeyFor(p)] > 0 /\ h.positions[id] = p
    BY <1>2, <2>2, <2>3, <2>4, MoveEffect
  <2>6. \A j \in Ids \ {id} : /\ h.positions[j] = g.positions[j] /\ h.cells[j] = g.cells[j]
                              /\ j \in Present(h) <=> j \in Present(g)
    BY <1>2, MoveEffect
  <2>7. h.positions = [g.positions EXCEPT ![id] = p]
    BY <1>2 DEF Move
  <2> HIDE DEF h
  <2>8. Listed(h)
    BY <2>5, <2>6 DEF Listed, Present
  <2> QED
    BY <2>7, <2>8 DEF h
<1> QED
  BY <1>1, <1>2
============================================================================
