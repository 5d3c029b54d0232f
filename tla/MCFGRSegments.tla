---------------------------- MODULE MCFGRSegments ----------------------------
(* A two-net instance: net 1 has two subnets, so that an edge can be shared
   within a net, net 2 has one; edge 3 is a via. *)
EXTENDS FGRSegments

MCNets == 1..2
MCSubNets == {"a1", "a2", "b1"}
MCNetOf == [s \in MCSubNets |-> IF s = "b1" THEN 2 ELSE 1]
MCEdges == 1..4
MCViaEdges == {3}
MCCapacity == [e \in MCEdges |-> IF e = 2 THEN 0 ELSE 1]
==============================================================================
