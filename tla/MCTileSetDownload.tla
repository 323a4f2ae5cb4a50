------------------------- MODULE MCTileSetDownload -------------------------
(* A small instance of TileSetDownload. *)
EXTENDS TileSetDownload
=============================================================================
