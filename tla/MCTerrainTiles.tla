--------------------------- MODULE MCTerrainTiles ---------------------------
(* A small instance of TerrainTiles: a path of two segments, and one whose *)
(* only segment crosses from one tile into another.                        *)
EXTENDS TerrainTiles

CONSTANTS c1, c2, c3, t1, t2, t3

SomePaths == {<<<<t1>>, <<t2>>>>, <<<<t2, t1>>>>}
=============================================================================
