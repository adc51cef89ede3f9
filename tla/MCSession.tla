----------------------------- MODULE MCSession -----------------------------
EXTENDS Session, TLC

CONSTANTS c1, c2, p1

\* Every connection belongs to one player.
SamePlayer == [c \in Conns |-> p1]

Symmetry == Permutations({c1, c2})
============================================================================
