----------------------- MODULE MCGlobalPlacementLoop -----------------------
(* One cell with four positions, and a repeater that the estimate of buffering *)
(* may remove; the trial legalization makes some placements better, some       *)
(* worse, and leaves some alone.                                               *)
EXTENDS GlobalPlacementLoop

MCPosition == 1..4
MCNetlist == {"unbuffered", "buffered"}
MCCellCount == [n \in MCNetlist |-> IF n = "unbuffered" THEN 1 ELSE 2]

MCCost ==
    [d \in Design |-> <<20, 21, 23, 0>>[d.at[1]]
                        + (IF d.netlist = "buffered" /\ d.at[2] = 1 THEN 2 ELSE 0)]
MCAbacus == [d \in Design |-> [d EXCEPT !.at[1] = <<2, 2, 1, 3>>[d.at[1]]]]
=============================================================================
