-------------------------- MODULE MCTopologicalOrder --------------------------
(* All netlists of three gates with at most two inputs each, one input of the
   design, and an end point behind a gate or without a driver. *)
EXTENDS TopologicalOrder

CONSTANT po

ThreeGates == 1..3
OneStart == <<4>>
OneEnd == {po}

MCSources == 0..4
Fanins == {f \in SUBSET MCSources : Cardinality(f) <= 2}
MCNetlists == [fanin: [ThreeGates -> Fanins], net: [OneEnd -> {0, 2}]]

(* Two gates are enough for a loop, and for a loop behind a gate. *)
LoopNetlists == [fanin: [1..2 -> {{1}, {2}, {4}, {1, 4}}], net: [OneEnd -> {2}]]
TwoGates == 1..2
===============================================================================
