--------------------------- MODULE TopologicalOrder ---------------------------
(***************************************************************************)
(* FindTopologicalOrder (TopologicalOrder.cpp:219-278) puts the timing     *)
(* points of a netlist in the order in which delays propagate.  Waves go   *)
(* out from the start points: the nets of a wave give up their sinks, the  *)
(* cells all of whose inputs were reached give up their outputs.  When a   *)
(* wave dies out with cells still waiting, cells to go on from are chosen  *)
(* by a search for what is reachable from which (PathFinder.cpp:173-194).  *)
(*                                                                         *)
(* A net is named by its source, a start point or a gate.  The points are  *)
(* <<n, 0>>, the source of net n, and <<n, g>>, the input of gate g on n.  *)
(* Gates are combinational cells with one output; a flip-flop is a start   *)
(* point and an end point.                                                 *)
(***************************************************************************)
EXTENDS Integers, SequencesExt

CONSTANTS Gates,     \* IDs of the combinational cells
          Starts,    \* start points, in the order they are added
          Ends,      \* the end points
          Netlists   \* [fanin: the nets at each gate, net: the net at each end]

Undriven == 0  \* names a net without a source
Sources == Gates \cup ToSet(Starts)

ASSUME NetlistAssumption ==
  /\ Gates \subseteq Nat \ {Undriven} /\ IsFiniteSet(Gates)
  /\ Starts \in Seq(Nat \ (Gates \cup {Undriven}))
  /\ Netlists \subseteq [fanin: [Gates -> SUBSET (Sources \cup {Undriven})],
                         net: [Ends -> Sources \cup {Undriven}]]

VARIABLES
  netlist,
  phase,     \* where the call is, or how it ended
  arrival,   \* the points linked behind tp_arrival so far
  required,  \* the end points linked behind tp_required so far
  active,    \* nActivePinsForCell
  nets,      \* nextWaveNets
  ready,     \* ready_cells
  stopped    \* the cells that were made ready by force

vars == <<netlist, phase, arrival, required, active, nets, ready, stopped>>

Returned == {"done", "asserted", "exited"}
Phases == {"loop", "nets", "cells", "check", "searching"} \cup Returned

SourceOf(n) == <<n, 0>>
Input(n, g) == <<n, g>>
InputPoints == {Input(n, g) : n \in Sources, g \in Gates}
SourcePoints == {SourceOf(n) : n \in Sources}

(* A start point is added once; an end point is no other pin. *)
ASSUME PointsAssumption ==
  /\ IsInjective(Starts)
  /\ IsFiniteSet(Ends) /\ Ends \cap (SourcePoints \cup InputPoints) = {}

TypeOK ==
  /\ netlist \in Netlists
  /\ phase \in Phases
  /\ arrival \in Seq(SourcePoints \cup InputPoints \cup Ends)
  /\ required \in Seq(Ends)
  /\ active \in [Gates -> Nat]
  /\ nets \in Seq(Sources)
  /\ ready \in Seq(Gates)
  /\ stopped \subseteq Gates

(* The order in which the code walks over cells: that of their IDs. *)
ById(gs) == CHOOSE s \in [1..Cardinality(gs) -> gs] :
              \A i, j \in DOMAIN s : i < j => s[i] < s[j]

SinkGates(n) == {g \in Gates : n \in netlist.fanin[g]}
SinkEnds(n) == {e \in Ends : netlist.net[e] = n}

(* GetnActivePinsForCell, AddTSPFromPI and AddTSPFromFF *)
Init ==
  /\ netlist \in Netlists
  /\ phase = "loop"
  /\ active = [g \in Gates |-> Cardinality(netlist.fanin[g])]
  /\ ready = ById({g \in Gates : netlist.fanin[g] = {}})
  /\ arrival = [i \in DOMAIN Starts |-> SourceOf(Starts[i])]
  /\ nets = Starts
  /\ required = <<>>
  /\ stopped = {}

-----------------------------------------------------------------------------
(* The condition of the main cycle. *)
WaveIsLeft == nets # <<>> \/ ready # <<>>

MainCycle ==
  /\ phase = "loop" /\ WaveIsLeft
  /\ phase' = "nets"
  /\ UNCHANGED <<netlist, arrival, required, active, nets, ready, stopped>>

(* Behind the cycle: the assertion, then the end points go to the end. *)
Return ==
  /\ phase = "loop" /\ ~WaveIsLeft
  /\ \/ /\ \A g \in Gates : active[g] <= 0
        /\ phase' = "done"
        /\ arrival' = arrival \o required
     \/ /\ \E g \in Gates : active[g] > 0
        /\ phase' = "asserted"
        /\ UNCHANGED arrival
  /\ UNCHANGED <<netlist, required, active, nets, ready, stopped>>

(* A slip: a gate is ready as soon as one of its inputs is reached. *)
FirstInputReady(gs) == {g \in gs : active[g] >= 1}

(* The gates of gs that wait for nothing else. *)
BecomeReady(gs) == {g \in gs : active[g] = 1}

(* GetSinkCellsFromPreparedNets takes the next net. *)
TakeNet ==
  /\ phase = "nets" /\ nets # <<>>
  /\ LET n == Head(nets)
         gs == SinkGates(n)
     IN /\ required' = required \o SetToSeq(SinkEnds(n))
        /\ arrival' = arrival \o [i \in DOMAIN ById(gs) |-> Input(n, ById(gs)[i])]
        /\ active' = [g \in Gates |-> IF g \in gs THEN active[g] - 1 ELSE active[g]]
        /\ ready' = ready \o ById(BecomeReady(gs))
  /\ nets' = Tail(nets)
  /\ UNCHANGED <<netlist, phase, stopped>>

NetsTaken ==
  /\ phase = "nets" /\ nets = <<>>
  /\ phase' = "cells"
  /\ UNCHANGED <<netlist, arrival, required, active, nets, ready, stopped>>

(* A slip: only the point of the output is added, its net is forgotten. *)
NetForgotten(g) == nets

NetAdded(g) == Append(nets, g)

(* AddSinkPinsAndPrepareNewNets takes the next cell. *)
TakeCell ==
  /\ phase = "cells" /\ ready # <<>>
  /\ arrival' = Append(arrival, SourceOf(Head(ready)))
  /\ nets' = NetAdded(Head(ready))
  /\ ready' = Tail(ready)
  /\ UNCHANGED <<netlist, phase, required, active, stopped>>

CellsTaken ==
  /\ phase = "cells" /\ ready = <<>>
  /\ phase' = "check"
  /\ UNCHANGED <<netlist, arrival, required, active, nets, ready, stopped>>

-----------------------------------------------------------------------------
(* GetReachable: the gates behind g, along nets, without g unless a loop
   leads back to it. *)
Reachable(g) ==
  LET within[n \in Nat] ==
        IF n = 0 THEN SinkGates(g)
        ELSE UNION {{h} \cup SinkGates(h) : h \in within[n - 1]}
  IN within[Cardinality(Gates)]

OnLoop(g) == g \in Reachable(g)

(* What becomes of the search from g.  IsDeadPath ends the program with
   "Cycle found!" when a path comes back to where it began; a loop beside
   that place makes the paths longer for ever. *)
SearchResult(g) == IF OnLoop(g) THEN "exited"
                   ELSE IF \E h \in Reachable(g) : OnLoop(h) THEN "searching"
                   ELSE "loop"

Waiting == {g \in Gates : active[g] > 0}

(* A slip: all waiting cells are stopped. *)
StopAllThatWait == [phase |-> "loop", left |-> Waiting]

(* A slip: none is. *)
StopNone == [phase |-> "loop", left |-> {}]

(* DetermineStoppingGroup goes through the waiting cells in order of ID and
   takes out those behind each.  Those that are behind no other are left,
   unless a search fails: the first to fail is that of the least ID, because
   a search that takes that cell out would have met the same loop. *)
StoppingGroup ==
  LET failing == {g \in Waiting : SearchResult(g) # "loop"}
  IN [phase |-> IF failing = {} THEN "loop" ELSE SearchResult(Min(failing)),
      left |-> {g \in Waiting : \A h \in Waiting : g \notin Reachable(h)}]

(* CheckForCyclesAndBreakOneIfExist *)
Check ==
  /\ phase = "check"
  /\ IF nets # <<>>
     THEN phase' = "loop" /\ UNCHANGED <<active, ready, stopped>>
     ELSE LET group == StoppingGroup
              stoppers == IF group.phase = "loop" THEN group.left ELSE {}
          IN /\ phase' = group.phase
             /\ active' = [g \in Gates |-> IF g \in stoppers THEN 0 ELSE active[g]]
             /\ ready' = ready \o ById(stoppers)
             /\ stopped' = stopped \cup stoppers
  /\ UNCHANGED <<netlist, arrival, required, nets>>

Next == MainCycle \/ Return \/ TakeNet \/ NetsTaken \/ TakeCell \/ CellsTaken \/ Check

Spec == Init /\ [][Next]_vars /\ WF_vars(Next)

-----------------------------------------------------------------------------
Before(p, q) == \E i, j \in DOMAIN arrival : i < j /\ arrival[i] = p /\ arrival[j] = q

(***************************************************************************)
(* Whatever is in the list comes after what it waits for: an input after   *)
(* the source of its net, an output after the inputs of its gate - but for *)
(* the inputs without driver that a stopped gate has.  No point is in the  *)
(* list twice, or the links would close to a ring that leaves points out.  *)
(***************************************************************************)
ArrivalsInOrder ==
  /\ IsInjective(arrival)
  /\ \A i \in DOMAIN arrival :
       LET p == arrival[i] IN
       /\ p \in InputPoints => Before(SourceOf(p[1]), p)
       /\ p \in SourcePoints /\ p[1] \in Gates =>
            \A n \in netlist.fanin[p[1]] :
              Before(Input(n, p[1]), p) \/ (p[1] \in stopped /\ n = Undriven)

(***************************************************************************)
(* When the call has returned every point of a net with a source is in the *)
(* list, the end points last: a point that is left out is never computed,  *)
(* and VerifyTimingCalculationOrder looks for the end points at the end.   *)
(***************************************************************************)
AllPointsPlaced ==
  phase = "done" =>
    /\ ToSet(arrival) = SourcePoints \cup {e \in Ends : netlist.net[e] # Undriven}
         \cup UNION {{Input(n, g) : n \in netlist.fanin[g] \ {Undriven}} : g \in Gates}
    /\ \A i, j \in DOMAIN arrival : i < j /\ arrival[i] \in Ends => arrival[j] \in Ends

(***************************************************************************)
(* A gate is only stopped when one of its nets has no source; the others   *)
(* that wait come free by themselves ("All input pins will have dummy      *)
(* values", TopologicalOrder.cpp:187, is said of as few as can be).        *)
(***************************************************************************)
OnlyUndrivenStopped == \A g \in stopped : Undriven \in netlist.fanin[g]

(***************************************************************************)
(* For a netlist without loops the call returns, past its assertion that   *)
(* no active pins are left (TopologicalOrder.cpp:251-252).                 *)
(***************************************************************************)
Finishes == (\A g \in Gates : ~OnLoop(g)) => <>(phase = "done")

(***************************************************************************)
(* "CheckForCyclesAndBreakOneIfExist" (TopologicalOrder.cpp:173): a loop   *)
(* of gates is broken and the call goes on.                                *)
(***************************************************************************)
LoopsAreBroken == phase \notin {"exited", "searching"}
===============================================================================
