--------------------------- MODULE MCTileObjects ---------------------------
(***************************************************************************)
(* One unit and one tile: enough for a tile that lacks two models.         *)
(***************************************************************************)
EXTENDS TileObjects

CONSTANTS u1, s1
=============================================================================
