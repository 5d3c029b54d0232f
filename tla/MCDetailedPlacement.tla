------------------------ MODULE MCDetailedPlacement ------------------------
(* Five cells on 10 of the 15 sites of three rows. *)
EXTENDS DetailedPlacement, TLC

CONSTANTS c1, c2, c3, c4, c5

MCCells     == {c1, c2, c3, c4, c5}
MCCellOrder == <<c1, c2, c3, c4, c5>>
MCSitesNum  == (c1 :> 1) @@ (c2 :> 1) @@ (c3 :> 2) @@ (c4 :> 2) @@ (c5 :> 4)
MCNets      == {"n1", "n2", "n3", "n4"}
MCNetCells  == [n1 |-> {c1, c3}, n2 |-> {c2, c4, c5}, n3 |-> {c3, c4}, n4 |-> {c1, c5}]
MCNetPads   == [n1 |-> {}, n2 |-> {[x |-> 10, y |-> 5]}, n3 |-> {[x |-> 0, y |-> 4]}, n4 |-> {}]

Spots ==
    (c1 :> {[x |-> 0, y |-> 0], [x |-> 7, y |-> 2]}) @@
    (c2 :> {[x |-> 1, y |-> 0], [x |-> 6, y |-> 1], [x |-> 5, y |-> 3]}) @@
    (c3 :> {[x |-> 1, y |-> 0], [x |-> 6, y |-> 1], [x |-> 5, y |-> 3]}) @@
    (c4 :> {[x |-> 2, y |-> 1], [x |-> 5, y |-> 4]}) @@
    (c5 :> {[x |-> 6, y |-> 0], [x |-> 4, y |-> 5]})
MCGlobalPlacements == {p \in [MCCells -> UNION {Spots[s] : s \in MCCells}] :
                        \A s \in MCCells : p[s] \in Spots[s]}
=============================================================================
