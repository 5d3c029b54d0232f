------------------------------ MODULE MazeSearch ------------------------------
(***************************************************************************)
(* One call of FGR::routeMaze (FGR.cpp:210-450): an A* search from the     *)
(* first to the second tile of a subnet, on a grid of one layer, within a  *)
(* box.  The queue is PQueue, of which PriorityQueue says all the search   *)
(* relies on.  One pass of the search loop is a step.                      *)
(*                                                                         *)
(* What the search knows of the congestion is the price of each edge: a    *)
(* reused edge of the net costs epsilon, any other what the cost function  *)
(* says, and one that would overflow may be barred.                        *)
(***************************************************************************)
EXTENDS FGRGrid, FiniteSetsExt

CONSTANTS
  Prices,          \* what the cost function may ask for an edge
  Starts, Targets  \* where subnets may start and end

epsilon == 1       \* FGR.h:405
edgeBase == 2      \* FGR.h:403
Barred == 0        \* in place of the price of an edge that may not be used

(* Both cost functions ask at least edgeBase for an edge. *)
ASSUME PriceAssumption == \A p \in Prices : p \in Nat /\ p >= edgeBase
ASSUME EndsAssumption == Starts \subseteq Tiles /\ Targets \subseteq Tiles

VARIABLES
  one, two,   \* the ends of the subnet
  price,      \* price[e]: epsilon if the net has e, Barred if e is full
  bounded,    \* whether the search stays in the box of the ends
  queue,      \* the tiles in the queue
  done,       \* the tiles that came out of it
  totalCost,  \* data[t].totalCost, for the tiles in queue or done
  actualCost, \* data[t].actualCost
  parent,     \* data[t].parent
  searching   \* whether the loop is running

vars == <<one, two, price, bounded, queue, done, totalCost, actualCost, parent, searching>>
problem == <<one, two, price, bounded>>

Known == queue \cup done
NoTile == <<-1, -1>>

TypeOK ==
  /\ one \in Tiles /\ two \in Tiles /\ bounded \in BOOLEAN /\ searching \in BOOLEAN
  /\ price \in [Edges -> Prices \cup {epsilon, Barred}]
  /\ queue \subseteq Tiles /\ done \subseteq Tiles \ queue
  /\ totalCost \in [Known -> Nat] /\ actualCost \in [Known -> Nat]
  /\ parent \in [Known -> Tiles \cup {NoTile}]

Init ==
  /\ one \in Starts /\ two \in Targets \ {one}
  /\ price \in [Edges -> Prices \cup {epsilon, Barred}]
  /\ bounded \in BOOLEAN
  /\ queue = {one} /\ done = {}
  /\ totalCost = [t \in {one} |-> 0]
  /\ actualCost = [t \in {one} |-> 0]
  /\ parent = [t \in {one} |-> NoTile]
  /\ searching = TRUE

-----------------------------------------------------------------------------
(* The estimate of the cost that is left.  A net without edges cannot reuse
   any.  (The first definition is a slip: ExactManhattan for every net.) *)
ExactManhattan(t) == edgeBase * Distance(<<t, two>>)
LBManhattan(t) == epsilon * Distance(<<t, two>>)
LowerBound(t) ==
  IF \A e \in Edges : price[e] # epsilon THEN ExactManhattan(t) ELSE LBManhattan(t)

InBox(t) == bounded => t \in Box(<<one, two>>)

(* The tiles the loop looks at from t: next to it, in the box, over an edge
   that may be used, and not done with. *)
Reachable(t, u) == {t, u} \in Edges /\ price[{t, u}] # Barred /\ InBox(u)
Neighbours(t) == {u \in Tiles : Reachable(t, u) /\ u \notin done \cup {t}}

CostVia(t, u) == actualCost[t] + price[{t, u}]

(* updateTile: a new tile is taken in, a known one at a lower total cost. *)
Improved(t) ==
  {u \in Neighbours(t) : u \in Known => CostVia(t, u) + LowerBound(u) < totalCost[u]}

Update(f, S, New(_)) == [u \in DOMAIN f \cup S |-> IF u \in S THEN New(u) ELSE f[u]]

(* A slip: the cost so far of a tile already known is left as it was. *)
RelaxForgetsCost(t) ==
  /\ totalCost' = Update(totalCost, Improved(t), LAMBDA u : CostVia(t, u) + LowerBound(u))
  /\ actualCost' = Update(actualCost, Improved(t) \ Known, LAMBDA u : CostVia(t, u))
  /\ parent' = Update(parent, Improved(t), LAMBDA u : t)
  /\ queue' = (queue \ {t}) \cup Improved(t)

Relax(t) ==
  /\ totalCost' = Update(totalCost, Improved(t), LAMBDA u : CostVia(t, u) + LowerBound(u))
  /\ actualCost' = Update(actualCost, Improved(t), LAMBDA u : CostVia(t, u))
  /\ parent' = Update(parent, Improved(t), LAMBDA u : t)
  /\ queue' = (queue \ {t}) \cup Improved(t)

IsBest(t) == t \in queue /\ \A u \in queue : totalCost[t] <= totalCost[u]

Expand ==
  /\ searching /\ two \notin done
  /\ \E t \in queue :
       /\ IsBest(t)
       /\ done' = done \cup {t}
       /\ IF t = two
            THEN queue' = queue \ {t} /\ UNCHANGED <<totalCost, actualCost, parent>>
            ELSE Relax(t)
  /\ searching' = (queue' # {} /\ two \notin done')
  /\ UNCHANGED problem

Next == Expand
Spec == Init /\ [][Next]_vars

-----------------------------------------------------------------------------
(***************************************************************************)
(* The reference: all usable simple paths from the first tile to tile t.   *)
(***************************************************************************)
PathTable == UNION {{<<p, P>> : P \in PathsBetween(p)} : p \in Starts \X Tiles}
UsablePaths(t) ==
  {r[2] : r \in {q \in PathTable : /\ q[1] = <<one, t>>
                                   /\ \A e \in q[2] : price[e] # Barred
                                   /\ bounded => UNION q[2] \subseteq Box(<<one, two>>)}}

(* The prices of its edges, counted unit by unit. *)
Units(P) == UNION {{e} \X (1..price[e]) : e \in P}
PathCost(P) == Cardinality(Units(P))

(***************************************************************************)
(* Every known tile but the first has a parent that is done with, next to  *)
(* it, and costs what the parent costs and the edge between them.  So the  *)
(* loop that builds the path (FGR.cpp:397-440) ends at the first tile.     *)
(***************************************************************************)
ParentsLeadHome ==
  \A t \in Known \ {one} : /\ parent[t] \in done
                           /\ Reachable(parent[t], t)
                           /\ actualCost[t] = CostVia(parent[t], t)

(***************************************************************************)
(* The search finds a cheapest route, and finds one whenever there is one. *)
(***************************************************************************)
FindsCheapestRoute ==
  ~searching => IF two \in Known
                  THEN actualCost[two] = Min({PathCost(P) : P \in UsablePaths(two)})
                  ELSE UsablePaths(two) = {}
==============================================================================
