------------------------------- MODULE MCPQueue -------------------------------
(* Five tiles make a heap of three levels in which a node with one child, a
   node with two and the last place all occur.  Tiles are interchangeable. *)
EXTENDS PQueue, TLC

CONSTANTS t1, t2, t3, t4, t5
FiveTiles == {t1, t2, t3, t4, t5}
MCCosts == 0..2
TileSymmetry == Permutations(Tiles)
===============================================================================
