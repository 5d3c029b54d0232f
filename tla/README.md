# itlPlace, specified

itlPlace is a physical design framework for integrated circuits: it reads a netlist,
places its cells, legalizes and improves the placement, analyses the timing, inserts
repeaters into long nets and routes the nets. The program is one process and one
thread, so nothing below is about threads. What makes it hard is of another kind:
large data structures that several algorithms change in place and keep redundant
counters and indices about, heuristics that try a change, measure it and take it
back, and loops that end for one of several reasons and must leave the design in a
state that fits the reason.

The paths `src/...` below are those of the repository; short file names are those of
`src/itlPlace/src` and `src/itlPlace/include`.

## 1. The system

| Part | State it keeps | Operations | Talks to |
|---|---|---|---|
| Design flow (`VLSIFlow.cpp`) | iteration of the macro loop, the quality table | `RunFlow`, `DoSTAIfCan`, `UpdateNetWeightsIfRequired` | calls every other part, in an order the configuration decides |
| Global placement (`GlobalPlacement/`) | positions of cells, outer iteration, weights of the objective | `Solve`, `IsTimeToExit`, `UpdateWeights` | TAO (external solver), quality analysis, buffering |
| Placement quality analysis (`PlacementQualityAnalyzer.cpp`, `PlacementStorage.cpp`) | list of experiments, best metrics, best placement, count of iterations without gain | `AnalyzeQuality`, `RestoreBestAchievedPlacement`, `GetConvergeIterationsNumber` | legalization (on trial), timing analysis |
| Legalization (`Legalization/`) | clusters of cells per row; reads and writes the grid | `AbacusLegalization`, `CheckGridBoundary`, `CheckGridConsistency`, `CheckOverlaps` | called by the flow, by detailed placement and, on trial, by the quality analysis |
| Detailed placement (`DetailedPlacement/`) | sites of rows and the cells on them (`HDPGrid`), coordinates, cached lengths of nets | `GlobalSwap`, `VerticalSearch`, `HorizontalSearch`, sliding windows | tries changes on grid and design and takes most of them back; legalization repairs |
| Timing (`Timing/`) | ring of timing points with its boundaries, arrival and required times with their ancestors | `FindTopologicalOrder`, `InsertNextPoint`, `DeletePointInList`, `STA`, `FindCriticalPaths` | buffering edits the ring, placement and weights read slacks and paths |
| Buffering (`Buffering/`) | nets split by repeaters | Van Ginneken, `InsertRepeater`, `RestoreBufferedNet` | netlist, ring of timing points |
| FGR global router (`Routing/FGR/`) | grid of edges with usage, subnets with routes, totals | `initialRouting`, `doRRR`, `redoTree`, `greedyImprovement`, `routeMaze`, `addSegment`, `ripUpSegment` | pins and grid from `HDPGrid`; routes are written to a file |
| Configuration, logging | contexts of settings; log | read by every part | |
| Regression harness (`src/TestingFramework`) | experiments, reference logs | starts the program, compares logs | the program's output only |

The flow: `RunFlow` (`VLSIFlow.cpp:335-475`) runs a *macro loop* - placement stages,
buffering, timing analysis, a test whether timing is met, judgement of the iteration,
new net weights -, restores the best placement, runs the stages once more, routes
and exports. `FGRRouting` (`router.cpp`) runs the router's phases in a line.

Where the parts meet:

* the router's phases only change routes through `addSegment` and `ripUpSegment`,
  which keep all counters; the phases decide by these counters;
* `routeMaze` calls the priority queue, and updates the cost of tiles in it;
* `FindTopologicalOrder` builds the ring of timing points once; buffering inserts and
  deletes points in place, and the timing analysis relies on its order;
* the two passes of the timing analysis follow the ring as buffering left it; weights and
  buffering follow the critical paths the analysis left;
* the quality analyzer legalizes the placement *in place*, measures, and moves the
  cells back; the loops above it believe its counters;
* the passes of detailed placement change the grid, the coordinates and the cached lengths
  apart from each other, and legalization runs whenever the checks find fault.

### What is hard, and what makes each part correct

* **Router bookkeeping.** The subnets of a net share edges; usage, overflow, overfull
  edges, segments, vias and length are changed by differences and never recomputed.
  Correct: every counter is what a recount over the routes would give.
* **Router control.** Re-routing can fail; trees are exchanged and put back; loops
  end by success, by limit or by timeout. Correct: no connection is lost, a legal
  solution is not given up, the call ends.
* **Maze router and queue.** Heap, positions in the heap and a board that makes
  `clear` cheap are three views of one set; the search's estimate changes when edges
  can be reused. Correct: the queue is a priority queue; the route is a cheapest one.
* **Ring of timing points.** Boundaries and counts are kept beside the ring; points
  are moved although they are already in it. Correct: the ring closes, boundaries are
  right, the order is a topological one whatever buffering does and undoes.
* **Topological order.** Waves, nets without a driver, and a deadlock breaker that
  searches paths. Correct: everything is placed, in order, and only what has to be is
  forced.
* **Timing analysis.** One pass over an order kept by others, two signals that gates may
  exchange, and paths read back along ancestors. Correct: every time is the worst over all
  ways, and a critical path is such a way.
* **Legalization.** Cells are put into rows in clusters that move when they meet; the search
  for a row stops early. Correct: the row taken is the best in reach, the result is legal.
* **Detailed placement.** Cells are moved, shifted and exchanged on trial; grid, coordinates
  and cached lengths must agree again whatever is kept. Correct: legal stays legal, every
  kept change shortens the wires, and the rounds end.
* **Quality analysis and the loops over it.** Trial changes and a best placement,
  metrics, table and counter that are kept apart. Correct: the four agree, and an exit
  that claims a verdict leaves the design that way.

`PROJECT.json` lists each of these hazards at its line of code.

## 2. The modules

| Module | Models | Variables and what they are in the code |
|---|---|---|
| `FGRSegments` | `addSegment`, `ripUpSegment` (`Routing/FGR/Utils.cpp`) | the lists `subnets`/`segments`, the `hash` multiset of nets of an edge, `usage` (16 bits), totals |
| `FGRGrid` | the grid, boxes and simple paths | no variables |
| `FGRRouter` | `routeFlatSubNets`, `routeSubNets`, `doRRR`, `redoTree`, `greedyImprovement` as `router.cpp` calls them | `phase` (the program counter), ends and routes of subnets, `routed`, the loop's remaining subnets, iteration, totals at the last head |
| `PriorityQueue` | what callers may believe of the queue | contents with costs, the answer of the last call |
| `PQueue` | the heap: `updateTile`, `getBestTile`, `removeBestTile`, `clear` and the two sifting loops, one pass a step | heap, `pqIndex`, `totalCost`, the board, the hole |
| `MazeSearch` | one call of `routeMaze` | queue, tiles done with, costs, parents |
| `PointOrder` | the abstract order: one sequence of points, start points first and end points last | the sequence |
| `TimingPointList` | `InsertNextPoint`, `DeletePointInList`, `CountStartAndEndPoints` | `next`, `prev`, first/last internal point, counts |
| `RepeaterOrder` | `InsertRepeater` and `RestoreBufferedNet` on top of `TimingPointList` | the list, and the source of each sink |
| `StaticTiming` | `STA`: the passes of `PropagateArrivals` and `PropagateRequires`, a point a step, and `ExtractPath`, between the edits of `RepeaterOrder` | stage and place of the pass, wire delays, times and ancestors per point and signal |
| `TopologicalOrder` | `FindTopologicalOrder` with `DetermineStoppingGroup` and `PathFinder` | the wave of nets, ready cells, active pins, the lists behind `tp_arrival` and `tp_required` |
| `PlacementQuality` | `PlacementQualityAnalyzer` and `PlacementStorage`; what `RemoveNewBuffering` does to the list of cells | the design (a netlist and the positions of its cells), experiments, best metrics and placement, count without gain; for the properties, the netlist the best placement was saved from |
| `GlobalPlacementLoop` | `Solve` and `IsTimeToExit` | program counter, outer iteration, whether there is an analyzer |
| `MacroLoop` | the macro loop of `RunFlow`: placement, buffering, removal of repeaters, new buffering, placement again, STA, judgement, weights | program counter, iteration, which design the slacks and the net weights are of |
| `PlacementGrid` | `HDPGrid`: `PutCell`, `PutCellFast`, `FindRow`, `FindColumn`, and the three legality checks | row and first site of cells, the cells on the sites, the coordinates in the design |
| `WireLength` | `CalcNetHPWL`, `CalculateHPWL`, `CalculateHPWLDiff`, the optimal row and column of a cell | cached length of every net |
| `CellSwaps` | `GlobalSwap` and `VerticalSearch`: moving with and without shifting, exchanging, rolling back | program counter and what a trial remembers: rows, zone, site, group of shifted cells |
| `HorizontalSearch` | groups of neighbours in every order, to the left, centred, to the right | direction, how far along the row |
| `AbacusLegalization` | `AbacusLegalization`: clusters, `ConsiderRow`, the search for a row, its failure | cells still to place, clusters per row |
| `LegalPlacement` | the abstract promise of detailed placement | places of the cells, whether they are legal |
| `DetailedPlacement` | the loop of the three passes with `LegalityControl` and the stopping criterion | last calculated length, that before the round |
| `*_proofs` | theorems about the module they extend | |
| `MC*` | the instances TLC checks | |

Composition: `StaticTiming` extends `RepeaterOrder`, which extends `TimingPointList`;
`DetailedPlacement` puts `CellSwaps`, `HorizontalSearch` and `AbacusLegalization`, all on
`WireLength` and `PlacementGrid`, into one loop; `GlobalPlacementLoop` and
`MacroLoop` extend `PlacementQuality`; `FGRRouter` and `MazeSearch` extend `FGRGrid`.
`PQueue` implements `PriorityQueue` (the property `IsPriorityQueue`), `TimingPointList`
implements `PointOrder` (`KeepsTheOrder`), and `DetailedPlacement` implements
`LegalPlacement` (`OnlyShorterLegalPlacements`). Two more relations are
stated in words only: `FGRRouter` reads usage and overflow off the routes, which
`FGRSegments` justifies, and `MazeSearch` uses the queue as `PriorityQueue` promises it.

### How data is abstracted

* *Routes.* A route is the set of its edges. Under the congestion cost a route is any
  simple path the capacity rule admits: a superset of what the floating-point costs
  pick, so the safety properties hold of the real choices too. Under the unit cost it
  is a cheapest one.
* *Costs.* Prices are small integers; the congestion price is any number not below
  `edgeBase`, or "barred" when overflow is forbidden and the edge is full.
* *Scores of trees* (`redoTree`) are left open except for what decides control: a tree
  with an unrouted subnet costs the largest double and never wins against one that
  has a score.
* *Placements* are sequences of positions in the order of the cell enumerator; the
  sixteen metrics are one measure before and one after the trial legalization. The
  threshold is an integer percentage, and the quotient `1 - current / best` is compared
  without dividing, with the code's two special cases (nothing measured yet, best 0).
* *Points and pins* are model values. `ID 0`, which is both the root and `Null` in the
  code, is one value in the model too.
* *Delays* are small integers: one per arc of a gate and signal, one per sink and signal for
  the wires, of which each analysis may find another one long. Minus infinity is `-DBL_MAX`,
  which adding a delay does not change, as in floating point. The arcs of registers only
  shift the times at the ends of the list and are part of these.
* *Placements on the grid* have sites of width 1 and rows of height 1. Coordinates of pins
  are the centres of cells, in half sites, so that lengths are integers. Trials that need
  several writes are one step where nothing else looks in between; a shift of a row of cells
  is one step per cell.
* *Searches* (`PathFinder`) are computed at once, including whether they end, and how.

## 3. The runs

| Run | Checks | Instance | States |
|---|---|---|---|
| `FGRSegments` | `TypeOK`, `EdgeListsMatch`, `CountersExact` | 2 nets, 3 subnets, 4 edges, one of them a via, one of capacity 0 | 4,096 |
| `FGRRouter` | `RoutedSubNetsHaveRoutes`, `NetsConnected`, `GreedyStaysLegal`; `Finishes`, `LegalIsKept`, `StuckForGood` | 3 x 2 tiles, capacity 1, a net of two subnets and two of one; 3 rip-up, 2 greedy iterations | 7,806 |
| `PQueue` | `TypeOK`, `PlacesMatch`, `HeapOrdered`; refines `PriorityQueue` | 5 tiles (symmetric), costs 0..2 | 167,740 |
| `MazeSearch` | `ParentsLeadHome`, `FindsCheapestRoute` | 3 x 2 tiles, each of the 7 edges reused, cheap, dear or barred | 293,000 |
| `TimingPointList` | `RingCloses`, `BoundariesRight`; refines `PointOrder` | 2 start, 2 end, 4 internal points, one of them fixed | 196 |
| `StaticTiming` | `DriversComeFirst`, `RestoringUndoesBuffering`, `TimesAreWorst`, `CriticalPathsAreWorst` | a gate with an inverting, a plain and an exclusive-or input, the plain one tied, between two inputs and two outputs; 2 repeaters (symmetric) | 20,321 |
| `TopologicalOrder` | `ArrivalsInOrder`, `AllPointsPlaced`, `OnlyUndrivenStopped`; `Finishes` | all netlists of 3 gates with up to 2 inputs, one start point, one end point | 95,024 |
| `GlobalPlacementLoop` | `TypeOK`, `BestPlacementHasBestMetrics`, `CounterPointsAtBest`, `NothingBetterIsForgotten`, `VerdictLeavesBestPlacement` | a cell in 4 positions with costs 20, 21, 23, 0, and a repeater that may be removed, threshold 6%, 4 iterations | 696,061 |
| `MacroLoop` | `TableDescribesPlacement`, `BestOfAllIterations`; `WeightsAreOfThisIteration` | 3 positions, one cell and a repeater in either of two nets or none, 3 macro iterations | 120,159 |
| `DetailedPlacement` | `ShiftStaysInZone`, `PlacementLegal`, `CachedLengthsExact`, `BestRowIsNearest`; refines `LegalPlacement`; `Termination` | 5 cells of width 1, 1, 2, 2, 4 on 10 of 15 sites in 3 rows, 4 nets, 72 placements to begin with | 16,376 |
| `TopologicalOrderLoops` | *violates* `LoopsAreBroken` | 2 gates, loops allowed | |
| `MacroLoopSatisfied` | *violates* `SatisfiedTimingIsKept` | as `MacroLoop` | |

### What the passing runs show, and why the bounds are enough

* `FGRSegments`: any order of adding and ripping up keeps the counters exact. Two
  subnets of one net and one of another are enough for the two cases that matter: an
  edge shared within a net and one shared between nets. An edge of capacity 0 is
  overfull with its first use. The widths that need many nets (`usage` has 16 bits)
  are covered by the theorem, whose assumption `NetsFitCapType` says how many.
* `FGRRouter`: the nets compete for single tracks, so that initial routing overflows,
  re-routing sometimes succeeds, sometimes repeats itself, trees are rebuilt, and the
  limit is reached; greedy improvement starts from the legal solutions. A net of two
  subnets is the smallest that has more than one tree. Nets 1 and 2 can take all the
  edges in the box of net 3, so the detour outside the box is needed too. Three
  iterations are the least in which an iteration can repeat the last one and another
  can follow.
* `PQueue`: five tiles make a heap with an inner node of two children, an inner node
  of one, and a leaf that moves over two levels. Calls of `clear` follow each other, so
  what an earlier search left in `pqIndex` is there to be misread.
* `MazeSearch`: the grid is the smallest with a detour, and *all* pricings of its edges
  are checked, those where the estimate must be lowered because edges are reused included.
* `TimingPointList`: with one internal point that stays, see "Observations" for a list
  without any. Four internal points allow the first, the last and a middle one to be
  inserted, moved and deleted.
* `StaticTiming`: two repeaters can be a chain, a fork and lie on different nets, and one
  may be left while the net of the other is restored. Between two analyses the nets may be
  split and restored any number of times, so every analysis starts from the results of
  another one. The exclusive-or input makes the later signal win, and which one that is
  depends on a wire; one input is never reached, so that minus infinity travels through a
  gate. Both outputs can be late, for either signal.
* `TopologicalOrder`: three gates are enough for a gate that waits for two waves and
  for one that is waiting behind another that waits; nets without a source are among
  the inputs. Netlists with loops are in the run for the safety properties; `Finishes`
  speaks of those without.
* `GlobalPlacementLoop`: 21 is less than 6% worse than 20, and 23 more than 6% worse
  than 21, so that small gains are refused and add up, and cost 0 is where the quotient
  has its special case. The criterion may be the measure before or after the trial
  legalization or one that is never measured. Four iterations exceed both
  `nTolerantIterations` = 2 and `nConvergedIterations` = 3, so all three exits occur, as
  does the loop without an analyzer. The design may begin with a repeater, and any outer
  iteration may remove it, before or after the best placement is saved.
* `MacroLoop`: three iterations let the best one be any of them; timing may be met in
  any of them. Repeaters come and go before and after the best placement is saved. The two
  netlists with a repeater have as many cells and other measures, so that the best
  placement can be restored into a netlist of the right size that is another one: with
  the number of cells in the place of the netlist in its guard, `TableDescribesPlacement`
  fails in this instance.

* `DetailedPlacement`: a cell of width 4 of 5 leaves one free site in its row, so that from
  some of the placements Abacus fails, and the others fill the rows to where moving needs
  shifting and exchanging meets cells of unequal widths, in one row and in two. The cells
  are on two thirds of the sites. Pads pull two nets to opposite corners, so that swaps,
  vertical moves and reorderings all find something to gain, and several rounds are made.
  Optimal regions of 3 x 3 sites reach over every border of the grid.

Each property has a mutant: a definition of the model is replaced by a variant with a
plausible slip (marked "A slip" in the modules), and TLC finds the property violated.

### Bounds

`MaxRipIter` and `MaxGreedyIter` stand for `maxRipIter` and `maxGreedyIter`,
`nTolerantIterations`, `nConvergedIterations`, `nOuterIterations` and
`nMacroIterations` for the settings of these names; they are parameters of the code,
set small, as are `SearchZoneSize`, `NRowsToSearch`, `HorizontalGroupSize`,
`MaxDeviationInRows` and the halves of the optimal region. `Costs`, `Prices`, `Position` and `Cost` are small sets in place of numbers.
No action has a bound the code does not have. The timeout of `doRRR` is a choice to stop
after any iteration.

### Fairness

Three specifications state fairness, `FGRRouter`, `TopologicalOrder` and `DetailedPlacement`:
`WF_vars(Next)`. In the last it is written `[]<>(op = "done") \/ []<><<Next>>_vars`, which says
the same as long as a step is always possible before the end, as the check for deadlock
shows, and spares TLC the evaluation of `ENABLED`. Each
models one sequential call: the processor goes on executing it, and it waits for nothing
outside. Which tie `std::sort` breaks which way, which route is cheapest and whether the
timeout has come are free choices, so no fairness is asked of single actions. The other
specifications have only safety properties.

## 4. The proofs

TLC checks the instances above; these theorems hold for every value of the constants
that satisfies the named assumptions.

| Module | Theorems | Assumptions |
|---|---|---|
| `FGRSegments_proofs` | `TypeCorrect`, `BookkeepingExact`, `EdgeListsInverse` | `FiniteAssumption`: nets, subnets and edges are finite; `ShapeAssumption`: every subnet has a net, capacities are natural numbers; `NetsFitCapType`: fewer than 65536 nets, the range of `usage` |
| `FGRRouter_proofs` | `RoutesBelongToSubNets`, `NetsAlwaysConnected`, `GreedyIsLegal`, `LegalForGood`, `StuckIsForGood` | `SizeAssumption`: a grid of at least one tile; `BoundsAssumption`: finitely many nets, numbered as in the code's vector, and natural limits of iterations; `GridAssumption`: a positive capacity, every net has a pin and all pins are tiles |
| `MazeSearch_proofs` | `TypeCorrect`, `ParentsAreSound`, `RouteIsCheapest` | `SizeAssumption`; `PriceAssumption`: both cost functions ask at least `edgeBase`; `EndsAssumption`: the ends are tiles |
| `PQueue_proofs` | `TypeCorrect`, `PlacesAlwaysMatch`, `HeapAlwaysOrdered`, `ImplementsPriorityQueue` | `TilesAssumption`: finitely many tiles; `CostAssumption`: costs are natural numbers |
| `DetailedPlacement_proofs` | of one pass (`SwapSpec`): `SwapsStayLegal`, `ShiftingStaysInZone`, `SwapsKeepLengthsExact`; of the whole flow: `FlowTypeCorrect`, `BestRowAlwaysNearest`, `FlowInvariant`, `PlacementStaysLegal`, `ShiftsStayInZone`, `CachedLengthsStayExact`, `OnlyShorterLegal` | `GridAssumption`: a grid of at least one site, no cell wider than a row, every placeable cell once in the design's order; `NetsAssumption`: finitely many nets, of placeable cells and pads, with at least two pins (pins of fixed cells are pads); `SwapsAssumption`, `GroupSizeAssumption`, `DeviationAssumption`: the settings are natural numbers, a group has at least two cells; `StartAssumption`: global placement leaves whole coordinates |
| `TimingPoints_proofs` | of the list: `ListTypeCorrect`, `ListIsRing`, `BoundariesStayRight`, `ListKeepsTheOrder`; of the list under buffering and timing analysis: `DriversStayFirst`, `RestoringUndoes`, `TimedListIsRight`; of timing analysis: `TimesAlwaysWorst`, `CriticalPathsAlwaysWorst` | `PointsAssumption`: finitely many points; `OrderAssumption`: the order to begin with has no point twice, start points first, end points last, and one internal point that always stays (see `TimingPointUtils.cpp:80` under "Observations" for a list without); `NetAssumption`: that order is a topological one of the design's own nets and cells; `TimingAssumption`: the delays are times; `ArcsAssumption`: times are propagated over arcs of cells to their outputs only, not over the arcs of the clock; `DelaysAssumption`: no way through the points adds up to `DBL_MAX`, the code's mark for a signal that never arrives |
| `TopologicalOrder_proofs` | `OrderTypeCorrect`, `OrderIsTopological`, `OrderIsComplete`, `StoppedAreUndriven` | `PointsAssumption`: finitely many gates, start and end points, numbered apart |
| `PlacementQuality_proofs` | of `GlobalPlacementLoop`: `TypeCorrect`, `BestIsWhatWasMeasured`, `BestIsWithinThreshold`, `VerdictIsBest`, `CounterIsRight`; of `MacroLoop`: `LoopInvariant`, `BestIsLeast`, `TableIsRight`, `WeightsAreFresh` | `PlacementAssumption`: the trial legalization keeps the netlist, every netlist has cells, costs are natural numbers; `LoopAssumption`: a threshold below 100%; `MacroAssumption`: the number of macro iterations is a natural number above 0 |

**Router bookkeeping.** The inductive invariant is `TypeOK`, `EdgeListsMatch` and the four
exactness conditions together. None is inductive alone: whether a usage changes is
decided by whether a net occurs in the multiset of an edge, so exact usage needs exact
multisets, and these need the edge lists, since a segment is only ripped up by a subnet
that has it; exact overflow needs exact usage before and after. Overflow and lengths are sums over
all edges and pairs; the proof writes them as cardinalities of sets of units and shows
that a step adds or removes exactly the units the code's difference says. `TypeOK`
includes that usage does not wrap, from `NetsFitCapType`.

`BookkeepingExact` gathers the exactness of all counters, the property `CountersExact`.

**The router.** Nothing is assumed of the routes but that they are simple paths in the grid,
so the first part of `FGRRouter_proofs` is about grids and trees: the grid hangs together
(`GridJoined`, by the separated tile nearest to the origin), so there is a path between any two
tiles (`PathExists`, by a smallest joining set of edges), and paths along a tree over the pins
join the pins (`TreeConnects`, by the first edge of the tree that crosses a separating set).
`IInv` adds to the properties: the ends of a net's subnets are the edges of a grown tree
(`Grown`); who is routed in which phase (`AllRouted`, `LeftUnrouted`); that the tree
`redoTree` has taken apart was a tree with all its routes, so that putting it back is
safe (`OldTree`); and that an iteration has nothing left to rip up once the solution is
legal (`StopsWhenLegal`), which is `doRRR`'s exit and the reason for `LegalIsKept`. For the greedy phase
the proof counts the nets on an edge: ripping a subnet up leaves room for its old route
(`OldRouteFits`), and a route that fits overfills nothing (`FittingRouteIsLegal`).
`StuckIsForGood` needs an invariant of its own, `StuckInv`: a net of one subnet is skipped by
`redoTree`, so the routes, hence the totals and the set to rip up, are the same in the next iteration.

**The maze search.** `ParentsLeadHome` is inductive with the types and one more fact,
`FirstTileFirst`: the search begins by finishing the first tile, and afterwards never gives it a
parent. Tiles that are done with keep their cost, so what was true of a parent stays true.

`RouteIsCheapest` says of every route found that no usable path between the ends costs less, and of
every search without a route that there is none. `CheapestInv` adds to the first invariant what
makes A* right: the queue's keys are cost plus estimate (`EstimateAdded`), tiles leave it in the
order of their keys (`LeastFirst`), every usable neighbour of a tile done with costs at most
the way over it (`NeighboursSeen`), and every cost has a path behind it (`PathsBehindCosts`). The
other half is `PotentialBound`: a path costs no less than a potential gains along it, if the potential
changes by at most the price over each edge. The potential of a tile done with is its cost, that of the
others what the estimate leaves of the cost of the second end. The cost of a path is a sum over a set of
edges; it is written as the number of units of price, so that the proof can map every number up to
the gain to a unit of an edge that passes it, and needs no induction along the path.

**Global swaps and vertical search.** The theorems are about `SwapSpec`, one pass over a
placement the checks have found legal. `IInv` says between trials that the grid is legal and
sites, records and coordinates agree (`LegalGrid`, `NothingShifted`, `AsOnGrid`); that the cell
in work comes from outside the zone or may be taken for a hole in it (`CellComesFromOutside`);
that the cached lengths are those of the coordinates outside the group (`CacheInv`); and in the
middle of a shift (`ShiftInv`) that the cells shifted so far stand next to each other,
before the next one, and that the free sites from here to the end of the zone are at least
those still missing. The last clause is a counting argument: moving a cell over free sites
uses up no more of them than it passes, so that the missing room shrinks with the zone, and
the assertion in `ReleaseSpaceForCell` holds. For an exchange the proof shows that the two
stretches of sites are disjoint, also when both cells are in one row.

**Legalization.** `BestRowAlwaysNearest` is about the whole flow, in which Abacus may be called on
any placement. The inductive invariant `FlowType` therefore makes no use of legality: it says that coordinates and
records are numbers, that a row is always a row, and that a site naming a cell names one that was put
there and not moved since (`Honest`), so that groups of cells read off the sites are placeable cells. The
claim itself needs no history: a row further away than the best place so far cannot have a nearer place,
since the distance to the row alone is already more, and once neither side makes sense the rows
beyond are further still (`FurtherRows`, `BestRowFound`). The clusters, sums of widths and places are recursive
functions; that each exists, and what its steps are, follows from one lemma (`RecursionExists`).

**Legality through the flow.** `FlowInv` adds to `FlowType` what each stage relies on. While Abacus is at
work (`AbacusOk`) every placeable cell is in just one row or in the queue, each cluster is as wide as its cells
together, the clusters of a row do not overlap, and their widths together fit into the row. The last clause is needed
because a merged cluster that would stand out on the right is pushed back to the left: only since all of the row
fits in is there room. Merging keeps it because the merged cluster and those left of it are as wide as the row
was before, with the new cell (`MergedIs`), and the last cluster left alone ends before the merged
one begins (`MergedRowOk`). So the places
written at the end name every placeable cell once, inside the grid and apart
(`ClusterPlacesCanBePut`), and putting *all* cells makes any grid legal, whatever
it held before (`PutAllLegal`). A legal placement passes the three checks (`LegalPasses`), so it is never
legalized again. Between the passes the placement is `AtRest`: legal, all coordinates those of the grid, all cached
lengths exact; this is where a pass of swaps begins (`RestIsSwapStart`) and where `IInv` ends. For horizontal search
(`ProcessGroupLegal`) the sites from the group's begin to its end hold the cells of the group and free sites only,
none of these cells stands out of them (`GroupFilled`, `GroupColumns`), and so the widths of the
cells and the free sites add up to no more than the stretch (`GroupWidth`); in each of the three ways to
hand out the free sites the columns then grow by at least the width of the cell before, and the last cell ends
inside (`ImplementCanBePut`, `TrialCanBePut`).

**Shorter wires.** `OnlyShorterLegal` maps every step of the flow to one of `LegalPlacement` or to a
stutter. That a kept trial shortens *all* wires, though `CalculateHPWLDiff` looks at the nets of the moved cells only
and at their cached lengths, needs `CacheInv`, that the other nets have not changed (`SameLength`), and a lemma about
sums: two sums of values that differ on some elements only differ by the sum of the differences (`DifferenceOfSums`).
`MapThenSumSet` is a recursion over the subsets of a set that removes an element `CHOOSE` names; that it exists
(`SumsExist`) and that any other element may be removed first (`SumsTakeAny`) is shown with sets again:
of the sets it fails for one would be smallest. One more invariant is needed, `ShiftedCellsPlaced`: a shift is judged by
the coordinates as they are, and these must be the ones it would write to the grid.

**The queue.** `IInv` is `TypeOK`, `PlacesMatch`, `HoleInHeap` and `OrderedButHole`. Inside a
sifting loop the heap is *not* ordered; what holds is that it is ordered everywhere but
around the hole, and that the hole's parent and children are in order with each other. With the last clause a
swap restores order behind the hole, and when the loop ends, order everywhere.

`ImplementsPriorityQueue` maps every step to one of `PriorityQueue` or to a stutter. The
queued tiles are those in the heap, the removed ones have data but no place in it. Removing
the root puts the tile of the last place in its place, so no other tile is lost; a swap
exchanges two places and is a stutter. That the root is a cheapest tile
follows from `HeapOrdered` by the first place of a cheaper tile: its parent is no dearer than it and
comes earlier.

**The global placement loop.** `IInv` is `TypeOK`, the four invariants of the run and `Saved`:
from the first analysis on there is a best placement. It is needed because an exit
restores that placement: without it nothing would be restored. `FirstIsBetter` is why it
holds (the threshold is below 100%, so the first analysis always saves). The best metrics
are those of the best placement *in the netlist it was saved from* (`BestDesign`), not in the
one the design has now, because the estimate of buffering may have removed repeaters since
(`GPBuffering.cpp:352`). That restoring gives back `BestDesign` is
`RestoreGivesSaved`, and it needs the netlist to be that one again; if it is another, only
cells move (`RestoreMovesCellsOnly`), and nothing is said of what they then measure. `NothingBetterIsForgotten` rests on a
lemma about numbers, `ThresholdTransitive`: what was within the threshold of the old best
is within the threshold of the new one.

**The macro loop.** What analysis and restoring do to a placement is proved once, in the
same module, for both loops. `MInv` is `MTypeOK`, the two invariants of the run,
`Kept`, `SlacksForWeights` and `InLoop`. `Kept` says that a placement is kept exactly when an
iteration was judged, and that its measure in the netlist it was saved from is the best
metrics; without it restoring
could end with a row of one placement and the cells of another. The stages between two judgements
change the design in any way and leave the analyzer alone (`StageInv`): `TableIsRight`
asks of the netlist the loop ends with only that it is the one the best placement was
saved from. A weaker guard does not do: as many cells are no sign of the same netlist. `SlacksForWeights` says
that between the analysis and the weights the slacks are those of the trial legalization of
the cells as they are now, of which `WeightsAreFresh` is the consequence for the step.

**The list of timing points.** `RingCloses` and `BoundariesRight` are about walks, recursive functions
over the links, and no invariant as they stand. The invariant is about a sequence instead: `Threads`
says that the links are exactly those of a sequence of points without repetition, `Bounds` that this
sequence has its start points first and its end points last, with the counts and the first and last
internal point of the list; `ListInv` puts them together with the points that stay. Unlinking and linking become
removing from and inserting into the sequence (`UnlinkedThreads`, `LinkedThreads`), and the boundary
cases of `InsertNextPoint` become lemmas on sections (`SectionsWithout`, `SectionsWith`).
That the walks of the model read off the sequence is shown at the end:
`RecursionExists` gives a function its recursive definition asks for, `Climb` follows it step by
step from the smallest number, and both come from well-founded sets, not from an induction
rule. `ListKeepsTheOrder` then maps the sequence of the list to the one of `PointOrder`,
step by step, and never speaks of links.

**Repeaters.** `RepeaterInv` is `ListInv`, `OrderOf` and `NetsOf`. `OrderOf` says which points are in the list,
that those of the design stand in the order they began in, and that every arc has its
points in order. `NetsOf` is about the trees: every sink, the inputs of repeaters included, can be given to a source of
the design, so that sinks of one net are given to its source and a sink behind a repeater to
the source the repeater is given to.
`RestoringUndoes` rests on it: when the tree of a net is taken out, its sinks can only go back to where they
came from (`TreeWithin`). Two orders of the same points that agree pairwise are
the same (`OneOrder`), and two lists with the same sequence have the same links (`OneList`); so
with the last repeater gone the list is the first one again, to the link.

**Timing analysis.** `TimingInv` says how far a pass has come. When the pass forwards is at place k of the list,
the points before it have their final times, computed from points further in front, and all others
still have the mark (`ForwardTo`); the pass backwards has asked of every point what the points behind place k
ask of it (`BackwardTo`). `RepeaterInv` gives what both need: arcs lead from earlier to later places, so a time is
not changed any more once it was read. The code compares the two signals at the input before it adds the
delay of the arc, and adds nothing to the mark; that this picks the longest way needs that a real time never comes
near the mark (`Within`, a bound that grows by one delay per place, from `DelaysAssumption`). Without
that assumption `TimesAreWorst` is false.

The same invariant says which way a time came: the ancestor kept beside it is the point, and the
signal, its time was computed from (`IsAncestor`, `IsAsker`), and only points at the ends have none.
`CriticalPathsAlwaysWorst` follows the search on top of this. A path found for a negative slack starts
at a point with two real times: a gate that is reached at all is reached by both signals
(`ReachedBothWays`, `NeededBothWays`), so that a slack, the worst of four, is negative for no mark. From
there on the slack never grows along ancestors, since the time at the other side is the worst of all
(`GoesBack`, `GoesOn`); the place in the list falls or rises with every step, so the path ends at a
point without ancestor within as many steps as there are points (`Extracted`); and the delays
passed add up to the time (`TimeIsAlong`).

**The topological order.** `IInv` adds to the properties what the lists and counters of the call mean.
A net is *taken* when its source is placed and it is no longer in the wave. Exactly the
sinks of the nets taken are placed (`ListsHoldSinks`), the counter of active pins of a gate is the number
of its nets not taken, or 0 once it was stopped, and it is 0 exactly when the gate is ready or
placed (`CountersRight`); nothing is in a list twice. A stopped gate waits for the missing driver and
nothing else, which is what `StoppedAreUndriven` needs. The wave is sorted
by identifiers in the code; the model chooses a sorted sequence, and the proof only uses that
it has every net of the wave once.

Only model-checked: the liveness properties of the router, of the topological order and of detailed placement.
Liveness under fairness and `ENABLED` are out of the proof system's reach and stay with TLC. The library's
induction rules are too; where a recursive function over numbers or finite sets is needed, its existence is proved
directly as above. What the remaining recursions compute for every input, such as reachable
gates, stays with TLC as well.

## 5. Findings

Two runs show the code doing something else than its own text says.

1. **A loop of gates is not broken** (`TopologicalOrderLoops`).
   `CheckForCyclesAndBreakOneIfExist` (`TopologicalOrder.cpp:173`) looks for the cells to
   go on from by searching paths. With a loop, `IsDeadPath` reports "Cycle found!" by a
   critical log message, which exits the program, or the paths grow for ever.
2. **Satisfied timing is thrown away** (`MacroLoopSatisfied`). The macro loop leaves with "We have
   satisfied the timing constraints" before the placement is judged; the best placement
   among the *earlier* iterations is then restored over it.

### Observations

Met while modelling; no run states them. In the router, the timing points and the loops:

* `FGR.cpp:520` asks "did we get stuck with the exact same solution?" and compares four
  totals. Two nets that exchange their paths have the same totals and other routes. The effect is
  only that rebuilding starts early.
* `TimingPointUtils.cpp:80`: inserting after a start point into a list *without any internal
  point* sets the first internal point and not the last, so that `BoundariesRight` fails with
  the first repeater. It needs a design in which no net passes a cell.
* `TopologicalOrder.cpp:252`: without any start point the loop that breaks deadlocks is not
  entered, and the assertion behind it fails if all gates wait.
* `PlacementQualityAnalyzer.cpp:155`: `cfg/NewBuffering.cfg:63` reads a threshold of -0.01 as "1%
  improvement decrease allowed". Every accepted decrease is the reference for the next, so
  decreases add up; and when the best value is 0 any placement replaces it (`:176`).
* `FGR.cpp:581`: the rip-up loop leaves an iteration as soon as the solution is legal; the loop
  that rebuilds trees has no such exit, so `LegalIsKept` speaks of the former only.
* `AnalyticalPlacement.cpp:539`: the exit because the iterations are used up leaves the last
  placement, not the best one. The code promises nothing here; the two exits with a
  verdict restore the best one.
* `AnalyticalPlacement.cpp:596`: with `useQAClass` off, as in `cfg/itlVLSI.cfg:226`, `Solve` creates
  no analyzer and tests for that before its last use, but `UpdateWeights`
  (`WeightsRoutines.cpp:151-178`) uses the null pointer untested after each iteration but the
  last. The model ends in a crash there.
* `FGR.cpp:1059`: greedy improvement routes at the unit cost with reused edges at a discount,
  so that a later iteration may lengthen a net. `FGR.cpp:1124`: the congestion estimate divides by
  the capacity of an edge.
* `DelayPropagation.cpp:157-163` and `:203-206`: of several edge arcs, or setup arcs, of one register
  pin each is applied to the time the one before has left, so that their delays add up.
* `Data/HCriticalPathPoint.cpp:18`: `Initialize` sets `Tech->nPins`, the count of pin types, to 1.
* `NetListBufferingAlgorithm.cpp:41`, `:189`, `:419` find critical paths only if there are fewer than
  none.
* `PlacementStorage.cpp:25` compares the numbers of cells only. Between saving and restoring, the macro
  loop may remove the repeaters (`VLSIFlow.cpp:373`) and insert as many in other nets (`:375`): the new
  ones get the positions of the old ones without a word in the log, and the last row of the
  quality table describes a netlist the design no longer has.
* `NetListBufferingAlgorithm.cpp:584-592` counts *every* placeable cell of a repeater's type, also one the
  netlist was read with, and cuts as many off the end of the list (`:609-622`).
* `GPBuffering.cpp:352`: the estimate of buffering along paths in global placement ends with the
  same removal, so that it also takes out the repeaters that an earlier stage has inserted for
  good.
* `VLSIFlow.cpp:159`: the net weights walk critical paths found before the quality analysis; the
  arrival times on them are by then those of its trial legalization.

In legalization and detailed placement:

* `AbacusLegalization.cpp:327-331`: when no row takes a cell, the function returns without writing
  anything, and detailed placement goes on over a grid that has every cell on site (0, 0) and
  none on any site. A trial that is rolled back (`GlobalSwap.cpp:134`, `:234`, `:425`) then moves its
  cells to that site, the cached lengths go stale, and `LegalityControl` can accept the pile,
  because an empty site under a cell is "strange, but not critical" (`LegalityChecks.cpp:103`). The
  model goes on like the code; the properties speak of placements that were legalized.
* `HDPGrid.h:78-110` reads the number of sites of a cell before it is first set, and a cell near
  the right border may be written behind the end of its row (`HDPGrid.cpp:117-126`); the assertion
  only logs. The model's grid knows the widths from the start, which differs only when all
  cells are at the origin.
* `HDPGrid.cpp:66-87`: a row that is not horizontal leaves a hole and cuts off the last row.
* `NetListBufferingAlgorithm.cpp:577` shortens the list of cells, while the grid that all stages use
  (`VLSIFlow.cpp:364-389`, `:417-463`) keeps the removed repeaters on their sites. An exchange with
  one of them may put it over a cell, contrary to the comment at `GlobalSwap.cpp:391`; the next
  legality control repairs that.
* `GlobalSwap.cpp:436-444`: an optimal region larger than the grid is moved to a negative origin and
  loses rows; `VerticalSearch.cpp:437` with `:64-70`: a zone that begins left of the first column has no
  sites, so that cells near the left border are never moved.
* `HorizontalSearch.cpp:88`: the last group of a row is not tried when its last cell begins at the last
  column; `:114` divides by zero with groups of one cell.
* `VLSIFlow.cpp:138-150` calls `STA` whether or not there is timing, as braces are missing (`STA`
  itself returns early).

## 6. Not modelled

* *Layer assignment and file formats of FGR*: `FGRRouting` routes on one layer and uses only
  `parseInputAsLab` of the formats.
* *In detailed placement*: sliding windows, simulated annealing, the constraints on timing
  (`HippocrateChecker`), weights of nets and switches that turn a pass off: all off by default. One
  grid over placement and buffering.
* *In timing*: the calculation of wire and gate delays (formulas), the arcs of registers, analysis
  with one signal direction, reports, the optional test of arrival times by other means.
* *Buffering's dynamic program, configuration contexts, the regression harness*: see the plan.
* *Global placement numerics, net weighting*: nonlinear optimization over real numbers by
  an external solver; formulas without control.
* *Parsers, FLUTE, TAO, OpenCV, sparsehash*: vendored or generated. They are most of the lines of
  the repository, so that the share of lines that modules stand for is small by any measure.
* *Performance counters, statistics, reports, pictures and log texts* of the modelled parts.

## 7. Plan

Done, in this order: the router's bookkeeping (smallest part on which everything else
in the router rests), the router's control, the queue and the maze search, the ring of
timing points and buffering on it, the topological order, the quality analyzer and its
two loops, legalization and detailed placement, timing analysis.

Left to be modelled, most important first:

1. One grid over placement, buffering and the removal of repeaters, with the ghosts it keeps.
2. `VanGinneken`: the dynamic program over candidate lists against enumeration of all
   buffer positions, as a pure algorithm.
3. The sliding windows of detailed placement, on `PlacementGrid` and `WireLength`.
4. `NetLevels`: nesting of clusters and net levels in global placement.
5. `ConfigContexts`: entering and leaving contexts, and which value a stage then reads.
6. `ExperimentLauncher`: the harness, its experiments and their results.

To be proved next: that the
counters of `FGRSegments` are the functions `FGRRouter` reads off its routes.

## 8. Running the checks

    tlc -config FGRRouter.cfg MCFGRRouter
    tlapm FGRSegments_proofs.tla

and likewise for the other runs (`PROJECT.json` names the module and the configuration of
each). Deadlock is not checked where the modelled call returns or may be left to stop:
the router, the search, the topological order and the two loops.
