-------------------------- MODULE MCTileSetManager --------------------------
(* A small instance of TileSetManager: changes of the list, an export      *)
(* against them, and an export that is imported into another database.     *)
EXTENDS TileSetManager, TLC
CONSTANTS h1, h2

Nothing == [what \in {"loads", "creates", "deletes", "renames", "exports", "imports",
                      "resets", "saves"} |-> 0]
SomeBudgets ==
    {[Nothing EXCEPT !.loads = 2, !.creates = 1, !.deletes = 2, !.renames = 1],
     [Nothing EXCEPT !.loads = 1, !.creates = 1, !.exports = 1, !.deletes = 1, !.renames = 1],
     [Nothing EXCEPT !.loads = 1, !.creates = 1, !.exports = 1, !.imports = 1, !.saves = 2],
     [Nothing EXCEPT !.loads = 1, !.deletes = 1, !.exports = 1, !.imports = 1, !.resets = 1, !.saves = 1]}
SomeNames == {<<"A">>}
HashSymmetry == Permutations(Hash)
=============================================================================
