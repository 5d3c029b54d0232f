------------------------------ MODULE FGRRouter ------------------------------
(***************************************************************************)
(* The control of the FGR global router, src/itlPlace/src/Routing/FGR:     *)
(* initial routing, negotiated rip-up and re-route, tree rebuilding when   *)
(* an iteration changes nothing, and greedy improvement, in the order in   *)
(* which FGRRouting calls them (router.cpp:65-86).  FGRRouting turns layer *)
(* assignment off, so the grid has one layer and no vias.                  *)
(*                                                                         *)
(* Usage, overflow and length are functions of the routes here; module     *)
(* FGRSegments shows that the counters the code keeps are these functions. *)
(* One route of routeMaze is one step.  Under the congestion cost DLMCost  *)
(* it is any simple path the capacity rule admits, a superset of what the  *)
(* costs pick; under UnitCost it is a cheapest one (see MazeSearch).       *)
(***************************************************************************)
EXTENDS FGRGrid

CONSTANTS
  Capacity,        \* capacity of every edge of the grid
  Nets,            \* net ids, in the order of the code's nets vector
  Pins,            \* Pins[n]: the distinct tiles of net n's pins
  MaxRipIter,      \* params.maxRipIter (bound of the model: small)
  MaxGreedyIter    \* params.maxGreedyIter

ASSUME BoundsAssumption == /\ MaxRipIter \in Nat /\ MaxGreedyIter \in Nat
                           /\ Nets \subseteq Nat /\ IsFiniteSet(Nets)

(* buildGrid leaves out the edges of a direction whose capacity is 0, which
   would disconnect the grid: the capacity is positive. *)
ASSUME GridAssumption == /\ Capacity \in Nat \ {0}
                         /\ Pins \in [Nets -> SUBSET Tiles]
                         /\ \A n \in Nets : Pins[n] # {}

(* A net with k pins is routed as k-1 two-pin subnets. *)
SubNetCount(n) == Cardinality(Pins[n]) - 1
SubNets == UNION {{n} \X (1..SubNetCount(n)) : n \in Nets}
NetOf(s) == s[1]
SubNetsOf(n) == {s \in SubNets : NetOf(s) = n}

VARIABLES
  phase,     \* where the router is
  ends,      \* ends[s] = <<one, two>>
  segments,  \* segments[s]: the edges of the route of s
  routed,    \* routed[s]
  todo,      \* subnets (or nets, in phase "redo") left in the current loop
  iter,      \* iterations of the current phase that are finished
  prev,      \* totals at the head of the previous rip-up iteration
  saved      \* the tree redoTree took apart and may put back

vars == <<phase, ends, segments, routed, todo, iter, prev, saved>>

-----------------------------------------------------------------------------
(***************************************************************************)
(* Geometry.                                                               *)
(***************************************************************************)
Least(x, y) == IF x < y THEN x ELSE y
Greatest(x, y) == IF x < y THEN y ELSE x
Precedes(a, b) == a[1] < b[1] \/ (a[1] = b[1] /\ a[2] < b[2])

(* CompareByBox: smaller half perimeter first, then the flatter box. *)
BoxLess(p, q) ==
  \/ Distance(p) < Distance(q)
  \/ /\ Distance(p) = Distance(q)
     /\ Least(Width(p), Height(p)) * Greatest(Width(q), Height(q))
          < Least(Width(q), Height(q)) * Greatest(Width(p), Height(p))

(* std::sort leaves the order of equal boxes open. *)
NextInOrder(S) == {s \in S : \A t \in S : ~BoxLess(ends[t], ends[s])}

IsFlat(p) == Width(p) = 0 \/ Height(p) = 0

(* The simple paths between two pins. *)
PinPairs == UNION {{p \in Pins[n] \X Pins[n] : p[1] # p[2]} : n \in Nets}
PathTable == UNION {{<<p, P>> : P \in PathsBetween(p)} : p \in PinPairs}
Paths(p) == {r[2] : r \in {q \in PathTable : q[1] = p}}

(***************************************************************************)
(* The trees a net can be decomposed into: starting at the first pin, each *)
(* edge of the tree joins a new pin to one that is already in the tree.    *)
(***************************************************************************)
FirstPin(n) == CHOOSE p \in Pins[n] : \A q \in Pins[n] : q = p \/ Precedes(p, q)
InTree(n, T, j) == {FirstPin(n)} \cup {T[i][1] : i \in 1..j-1}
GrownTrees(n) ==
  {T \in [1..SubNetCount(n) -> Pins[n] \X Pins[n]] :
     \A j \in 1..SubNetCount(n) : /\ T[j][1] \notin InTree(n, T, j)
                                  /\ T[j][2] \in InTree(n, T, j)}
(* parseInputAsLab grows the tree by the shortest distance. *)
MinimumTrees(n) ==
  {T \in GrownTrees(n) :
     \A j \in 1..SubNetCount(n) :
        \A p \in Pins[n] \ InTree(n, T, j), q \in InTree(n, T, j) :
           Distance(T[j]) <= Distance(<<p, q>>)}

-----------------------------------------------------------------------------
(***************************************************************************)
(* What the counters of the code say of the routes seg.                    *)
(***************************************************************************)
UsedBy(seg, n) == UNION {seg[s] : s \in SubNetsOf(n)}
Usage(seg, e) == Cardinality({n \in Nets : e \in UsedBy(seg, n)})
OverfullSet(seg) == {e \in Edges : Usage(seg, e) > Capacity}
OverfullEdges(seg) == Cardinality(OverfullSet(seg))
TotalOverflow(seg) ==
  Cardinality({p \in Edges \X (1..Cardinality(Nets)) : p[2] <= Usage(seg, p[1]) - Capacity})
TotalSegments(seg) == Cardinality({p \in Nets \X Edges : p[2] \in UsedBy(seg, p[1])})
Totals(seg) == <<TotalSegments(seg), OverfullEdges(seg), TotalOverflow(seg)>>

(* An edge takes one more net, or already carries this one.  (The first
   definition is a slip: the net to come is not counted.) *)
FitsNow(seg, n, e) == e \in UsedBy(seg, n) \/ Usage(seg, e) <= Capacity
Fits(seg, n, e) == e \in UsedBy(seg, n) \/ Usage(seg, e) + 1 <= Capacity

(* The routes routeMaze can return for s, when s is not in seg. *)
MazeRoutes(seg, s, allowOverflow, tiles) ==
  {P \in Paths(ends[s]) : /\ UNION P \subseteq tiles
                          /\ allowOverflow \/ \A e \in P : Fits(seg, NetOf(s), e)}

(* routeSubNet: first within the bounding box and the capacities, if asked to. *)
Routes(seg, s, allowOverflow, bboxConstrain) ==
  LET inBox == MazeRoutes(seg, s, FALSE, Box(ends[s]))
  IN  IF bboxConstrain /\ inBox # {}
        THEN inBox
        ELSE MazeRoutes(seg, s, allowOverflow, Tiles)

(* Reused edges cost epsilon = 1, new ones edgeBase = 2. *)
UnitCost(seg, n, P) == Cardinality(P) + Cardinality(P \ UsedBy(seg, n))
Cheapest(seg, s, choices) ==
  {P \in choices : \A Q \in choices : UnitCost(seg, NetOf(s), P) <= UnitCost(seg, NetOf(s), Q)}

(* Subnet s, which is not in seg, takes one of the routes in choices. *)
Take(seg, s, choices) ==
  \/ /\ choices = {}
     /\ segments' = seg
     /\ routed' = [routed EXCEPT ![s] = FALSE]
  \/ \E P \in choices : /\ segments' = [seg EXCEPT ![s] = P]
                        /\ routed' = [routed EXCEPT ![s] = TRUE]

RipUp(s) == [segments EXCEPT ![s] = {}]

-----------------------------------------------------------------------------
NoTotals == <<-1, -1, -1>>
NoTree == [net |-> -1, next |-> 0, ends |-> <<>>, segments |-> <<>>]

Init ==
  /\ phase = "flat"
  /\ \E T \in [Nets -> UNION {MinimumTrees(n) : n \in Nets}] :
       /\ \A n \in Nets : T[n] \in MinimumTrees(n)
       /\ ends = [s \in SubNets |-> T[NetOf(s)][s[2]]]
  /\ segments = [s \in SubNets |-> {}]
  /\ routed = [s \in SubNets |-> FALSE]
  /\ todo = {s \in SubNets : IsFlat(ends[s])}
  /\ iter = 0
  /\ prev = NoTotals
  /\ saved = NoTree

(* routeFlatSubNets: straight connections first, without overflow. *)
RouteFlat ==
  /\ phase = "flat"
  /\ \E s \in NextInOrder(todo) :
       /\ Take(segments, s, Routes(segments, s, FALSE, TRUE))
       /\ todo' = todo \ {s}
  /\ UNCHANGED <<phase, ends, iter, prev, saved>>

FlatDone ==
  /\ phase = "flat" /\ todo = {}
  /\ phase' = "rest"
  /\ todo' = {s \in SubNets : ~routed[s]}
  /\ UNCHANGED <<ends, segments, routed, iter, prev, saved>>

(* routeSubNets: everything not routed yet, with overflow if need be. *)
RouteRest ==
  /\ phase = "rest"
  /\ \E s \in NextInOrder(todo) :
       /\ Take(segments, s, Routes(segments, s, TRUE, TRUE))
       /\ todo' = todo \ {s}
  /\ UNCHANGED <<phase, ends, iter, prev, saved>>

RestDone ==
  /\ phase = "rest" /\ todo = {}
  /\ phase' = IF MaxRipIter = 0 THEN "rrrDone" ELSE "rrr"
  /\ UNCHANGED <<ends, segments, routed, todo, iter, prev, saved>>

(***************************************************************************)
(* doRRR, head of an iteration: the subnets on overfull edges and the      *)
(* unrouted ones are to be ripped up.  If nothing changed since the last   *)
(* head, the trees of their nets are rebuilt instead.                      *)
(***************************************************************************)
SubNetsToRip == {s \in SubNets : \/ segments[s] \cap OverfullSet(segments) # {}
                                 \/ ~routed[s]}
NothingChanged == prev = Totals(segments)

StartIteration ==
  /\ phase = "rrr" /\ SubNetsToRip # {}
  /\ prev' = Totals(segments)
  /\ IF NothingChanged
       THEN /\ phase' = "redo"
            /\ todo' = {NetOf(s) : s \in SubNetsToRip}
       ELSE /\ phase' = "rip"
            /\ todo' = SubNetsToRip
  /\ UNCHANGED <<ends, segments, routed, iter, saved>>

NoMoreToRip ==
  /\ phase = "rrr" /\ SubNetsToRip = {}
  /\ phase' = "rrrDone"
  /\ UNCHANGED <<ends, segments, routed, todo, iter, prev, saved>>

(* When little overflow is left and ripping s up relieved an edge, s is
   first tried without overflow. *)
AvoidOverflow(before, after) ==
  /\ TotalOverflow(after) <= 50
  /\ 2 * OverfullEdges(after) >= TotalOverflow(after)
  /\ OverfullEdges(before) # OverfullEdges(after)

(* A slip: the attempt without overflow is not repeated with overflow. *)
RipAndRerouteOnce ==
  /\ phase = "rip"
  /\ \E s \in NextInOrder(todo) :
       LET seg == RipUp(s)
       IN  /\ Take(seg, s, Routes(seg, s, ~AvoidOverflow(segments, seg), TRUE))
           /\ todo' = IF OverfullEdges(segments') = 0 THEN {} ELSE todo \ {s}
  /\ UNCHANGED <<phase, ends, iter, prev, saved>>

(* A slip: the iteration is carried through although no edge is overfull. *)
RipAndRerouteAll ==
  /\ phase = "rip"
  /\ \E s \in NextInOrder(todo) :
       LET seg == RipUp(s)
           legal == Routes(seg, s, FALSE, TRUE)
       IN  /\ Take(seg, s, IF AvoidOverflow(segments, seg) /\ legal # {}
                             THEN legal ELSE Routes(seg, s, TRUE, TRUE))
           /\ todo' = todo \ {s}
  /\ UNCHANGED <<phase, ends, iter, prev, saved>>

RipAndReroute ==
  /\ phase = "rip"
  /\ \E s \in NextInOrder(todo) :
       LET seg == RipUp(s)
           legal == Routes(seg, s, FALSE, TRUE)
       IN  /\ Take(seg, s, IF AvoidOverflow(segments, seg) /\ legal # {}
                             THEN legal ELSE Routes(seg, s, TRUE, TRUE))
           /\ todo' = IF OverfullEdges(segments') = 0 THEN {} ELSE todo \ {s}
  /\ UNCHANGED <<phase, ends, iter, prev, saved>>

(* A slip: an iteration of rebuilding is not counted. *)
EndIterationRebuildFree ==
  /\ phase \in {"rip", "redo"} /\ todo = {}
  /\ iter' = IF phase = "rip" THEN iter + 1 ELSE iter
  /\ \/ iter' >= MaxRipIter /\ phase' = "rrrDone"
     \/ iter' < MaxRipIter /\ phase' = "rrr"
  /\ UNCHANGED <<ends, segments, routed, todo, prev, saved>>

(* The iteration is over: the limit, the timeout or another iteration. *)
EndIteration ==
  /\ phase \in {"rip", "redo"} /\ todo = {}
  /\ iter' = iter + 1
  /\ \/ phase' = "rrrDone"
     \/ iter' < MaxRipIter /\ phase' = "rrr"
  /\ UNCHANGED <<ends, segments, routed, todo, prev, saved>>

(***************************************************************************)
(* redoTree: a net of several subnets is ripped up, decomposed again along *)
(* a congestion driven tree and routed; the cheaper of the old tree, with  *)
(* its old routes, and the new one stays.  The scores are left open, but   *)
(* a tree with an unrouted subnet costs the largest double.                *)
(***************************************************************************)
RestrictTo(f, n) == [s \in SubNetsOf(n) |-> f[s]]
Overwrite(f, g) == [s \in SubNets |-> IF s \in DOMAIN g THEN g[s] ELSE f[s]]
HasNoSubNet(n) == SubNetCount(n) < 1  \* a slip: two-pin nets are rebuilt too
HasOneSubNet(n) == SubNetCount(n) <= 1
NextNet(S) == CHOOSE n \in S : \A m \in S : n <= m

SkipSmallNet ==
  /\ phase = "redo" /\ todo # {} /\ HasOneSubNet(NextNet(todo))
  /\ todo' = todo \ {NextNet(todo)}
  /\ UNCHANGED <<phase, ends, segments, routed, iter, prev, saved>>

TakeTreeApart ==
  /\ phase = "redo" /\ todo # {} /\ ~HasOneSubNet(NextNet(todo))
  /\ LET n == NextNet(todo)
     IN  \E T \in GrownTrees(n) :
           /\ saved' = [net |-> n, next |-> 1, ends |-> RestrictTo(ends, n),
                         segments |-> RestrictTo(segments, n)]
           /\ ends' = Overwrite(ends, [s \in SubNetsOf(n) |-> T[s[2]]])
           /\ segments' = Overwrite(segments, [s \in SubNetsOf(n) |-> {}])
           /\ routed' = Overwrite(routed, [s \in SubNetsOf(n) |-> FALSE])
           /\ todo' = todo \ {n}
  /\ phase' = "mst"
  /\ UNCHANGED <<iter, prev>>

RouteTree ==
  /\ phase = "mst" /\ saved.next <= SubNetCount(saved.net)
  /\ LET s == <<saved.net, saved.next>>
     IN  Take(segments, s, Routes(segments, s, TRUE, TRUE))
  /\ saved' = [saved EXCEPT !.next = @ + 1]
  /\ UNCHANGED <<phase, ends, todo, iter, prev>>

NewTreeCanWin ==
  /\ \A s \in SubNetsOf(saved.net) : routed[s]
  /\ \E s \in SubNetsOf(saved.net) : saved.segments[s] # {}

(* A slip: the old routes are put back, the old ends are not. *)
KeepBestRoutes ==
  /\ phase = "mst" /\ saved.next > SubNetCount(saved.net)
  /\ \/ NewTreeCanWin /\ UNCHANGED segments
     \/ segments' = Overwrite(segments, saved.segments)
  /\ routed' = Overwrite(routed, [s \in SubNetsOf(saved.net) |-> TRUE])
  /\ saved' = NoTree
  /\ phase' = "redo"
  /\ UNCHANGED <<ends, todo, iter, prev>>

KeepBestTree ==
  /\ phase = "mst" /\ saved.next > SubNetCount(saved.net)
  /\ \/ NewTreeCanWin /\ UNCHANGED <<ends, segments>>
     \/ /\ ends' = Overwrite(ends, saved.ends)
        /\ segments' = Overwrite(segments, saved.segments)
  /\ routed' = Overwrite(routed, [s \in SubNetsOf(saved.net) |-> TRUE])
  /\ saved' = NoTree
  /\ phase' = "redo"
  /\ UNCHANGED <<todo, iter, prev>>

(***************************************************************************)
(* greedyImprovement: on a legal solution, every subnet is ripped up and   *)
(* routed again at the lowest unit cost that causes no overflow.           *)
(***************************************************************************)
StartGreedy ==
  /\ phase = "rrrDone"
  /\ IF TotalOverflow(segments) > 0 \/ MaxGreedyIter = 0
       THEN phase' = "done" /\ todo' = {}
       ELSE phase' = "greedy" /\ todo' = SubNets
  /\ iter' = 0
  /\ UNCHANGED <<ends, segments, routed, prev, saved>>

Improve ==
  /\ phase = "greedy"
  /\ \E s \in NextInOrder(todo) :
       LET seg == RipUp(s)
       IN  /\ Take(seg, s, Cheapest(seg, s, Routes(seg, s, FALSE, FALSE)))
           /\ todo' = todo \ {s}
  /\ UNCHANGED <<phase, ends, iter, prev, saved>>

EndGreedyIteration ==
  /\ phase = "greedy" /\ todo = {}
  /\ iter' = iter + 1
  /\ IF iter' < MaxGreedyIter THEN phase' = "greedy" /\ todo' = SubNets
                              ELSE phase' = "done" /\ todo' = {}
  /\ UNCHANGED <<ends, segments, routed, prev, saved>>

Next ==
  \/ RouteFlat \/ FlatDone \/ RouteRest \/ RestDone
  \/ StartIteration \/ NoMoreToRip \/ RipAndReroute \/ EndIteration
  \/ SkipSmallNet \/ TakeTreeApart \/ RouteTree \/ KeepBestTree
  \/ StartGreedy \/ Improve \/ EndGreedyIteration

(* FGRRouting is one sequential call: it keeps executing. *)
Spec == Init /\ [][Next]_vars /\ WF_vars(Next)

-----------------------------------------------------------------------------
TypeOK ==
  /\ phase \in {"flat", "rest", "rrr", "rip", "redo", "mst", "rrrDone", "greedy", "done"}
  /\ ends \in [SubNets -> Tiles \X Tiles]
  /\ segments \in [SubNets -> SUBSET Edges]
  /\ routed \in [SubNets -> BOOLEAN]
  /\ todo \subseteq IF phase \in {"redo", "mst"} THEN Nets ELSE SubNets
  /\ iter \in 0..Greatest(MaxRipIter, MaxGreedyIter)
  /\ prev \in Nat \X Nat \X Nat \/ prev = NoTotals
  /\ saved.net \in Nets \/ saved = NoTree

(***************************************************************************)
(* A subnet marked routed has a route between its own ends, also after     *)
(* redoTree has exchanged the ends of all subnets of a net, put old routes *)
(* back and marked everything routed (FGR.cpp:1381-1401).                  *)
(***************************************************************************)
RoutedSubNetsHaveRoutes ==
  \A s \in SubNets : IF routed[s] THEN segments[s] \in Paths(ends[s])
                                 ELSE segments[s] = {}

(***************************************************************************)
(* From the end of the initial routing on, whenever the router is between  *)
(* two nets, the routes of each net connect all its pins: what writeRoutes *)
(* prints, and its assertion that a routed net has edges (IO.cpp:1112).    *)
(***************************************************************************)
NetsConnected ==
  phase \in {"rrr", "rip", "redo", "rrrDone", "greedy", "done"} =>
    \A n \in Nets : Joins(UsedBy(segments, n), Pins[n])

(***************************************************************************)
(* Greedy improvement starts from a legal solution and never loses it: a   *)
(* subnet that was ripped up always finds a route without overflow, since  *)
(* its old one is still there to take.  The code does not check the result *)
(* of routeSubNet (FGR.cpp:1066-1068).                                     *)
(***************************************************************************)
GreedyStaysLegal ==
  phase = "greedy" => /\ TotalOverflow(segments) = 0
                      /\ \A s \in SubNets : routed[s]

(***************************************************************************)
(* An iteration that repeats the totals of the one before rebuilds trees,  *)
(* and redoTree returns at once for a net of one subnet.  If only such     *)
(* nets are in conflict the router is stuck for good: it repeats the same  *)
(* iteration until the limit or the timeout, and the solution that leaves  *)
(* is not legal, so the greedy phase is skipped.                           *)
(***************************************************************************)
Stuck == /\ phase = "rrr" /\ NothingChanged
         /\ SubNetsToRip # {}
         /\ \A s \in SubNetsToRip : SubNetCount(NetOf(s)) = 1
StuckForGood == [](Stuck => [](TotalOverflow(segments) > 0 /\ phase # "greedy"))

(***************************************************************************)
(* Rip-up and re-route never gives up a legal solution: doRRR leaves the   *)
(* loop as soon as no edge is overfull (FGR.cpp:580-581), the next head    *)
(* then finds nothing to rip up, and greedy improvement stays legal.  The  *)
(* loop that rebuilds trees has no such exit and is not included.          *)
(***************************************************************************)
Legal(seg) == OverfullSet(seg) = {}
LegalIsKept ==
  [][(phase \in {"rip", "rrr", "rrrDone", "greedy"} /\ Legal(segments)) => Legal(segments')]_vars

(***************************************************************************)
(* The router finishes: repeating an iteration that changes nothing, and   *)
(* rebuilding trees that lose to the old ones, still use up maxRipIter.    *)
(***************************************************************************)
Finishes == <>(phase = "done")
=============================================================================
