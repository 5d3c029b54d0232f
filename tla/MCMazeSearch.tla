----------------------------- MODULE MCMazeSearch -----------------------------
(* All assignments of four kinds of edges to the seven edges of a 3 x 2 grid:
   reused, cheap, dear and barred. *)
EXTENDS MazeSearch

MCPrices == {2, 5}
MCStarts == {<<0, 0>>}
MCTargets == {<<1, 1>>, <<2, 0>>}
===============================================================================
