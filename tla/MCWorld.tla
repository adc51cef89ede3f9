------------------------------ MODULE MCWorld ------------------------------
EXTENDS World

MCIds == Entities \X {"entity", "ghost"}

\* Two points in cells of their own, out of each other's range.
MCPoints == {[x |-> a, z |-> 0] : a \in {0, 4}}
============================================================================
