---------------------------- MODULE MCMacroLoop ----------------------------
(* One cell, with a repeater in either of two nets or without, and three       *)
(* positions each: two netlists with as many cells and other measures.         *)
EXTENDS MacroLoop

MCPosition == 1..3
MCNetlist == {"unbuffered", "first", "second"}
MCCellCount == [n \in MCNetlist |-> IF n = "unbuffered" THEN 1 ELSE 2]

MCRepeaterCost(d) ==
    CASE d.netlist = "unbuffered" -> 0
      [] d.netlist = "first"      -> d.at[2] - 1
      [] d.netlist = "second"     -> 3 - d.at[2]

MCCost == [d \in Design |-> <<2, 1, 0>>[d.at[1]] + MCRepeaterCost(d)]
MCAbacus == [d \in Design |-> [d EXCEPT !.at[1] = <<1, 3, 2>>[d.at[1]]]]
=============================================================================
