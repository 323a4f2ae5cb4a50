--------------------------- MODULE MCTerrainBatch ---------------------------
(* A small instance of TerrainBatch with three query objects and batches of *)
(* up to three coordinates.                                                 *)
EXTENDS TerrainBatch

CONSTANTS q1, q2, q3

Owner(r, c, d, a, f) ==
    [requests |-> r, coords |-> c, destroy |-> d, reask |-> a, fail |-> f]
SomeOwners == {Owner(4, 2, FALSE, TRUE, FALSE), Owner(3, 3, TRUE, FALSE, TRUE)}
=============================================================================
