--------------------------- MODULE MCTileDatabase ---------------------------
(* A small instance of TileDatabase: one tile and three user-made sets that *)
(* share it, so that set ids are given out again, or two tiles and one set, *)
(* so that tile ids are.                                                    *)
EXTENDS TileDatabase, TLC

CONSTANTS h1, h2

\* Hashes differ by nothing but their name
HashSymmetry == Permutations(Hash)

Limit(ts, ss, hs) == [tiles |-> ts, sets |-> ss, hashes |-> hs]
SomeLimits == {Limit(1, 4, {h}) : h \in Hash} \cup {Limit(2, 2, Hash)}
OneLimit == {Limit(2, 3, Hash)}
=============================================================================
