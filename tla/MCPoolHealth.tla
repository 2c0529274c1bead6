--------------------------- MODULE MCPoolHealth ---------------------------
EXTENDS PoolHealth, TLC

CONSTANTS c1, c2, k1

\* One inner pool of two nodes.
GroupFlat == c1 :> 1 @@ c2 :> 1
\* Two nodes of different priorities.
GroupTwo == c1 :> 1 @@ c2 :> 2

\* The nodes of the flat pool are interchangeable (safety runs only).
ClientSymmetry == Permutations({c1, c2})
===========================================================================
