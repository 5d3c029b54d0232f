-------------------------------- MODULE PQueue --------------------------------
(***************************************************************************)
(* The queue of the maze router, class PQueue of FGR (FGR.h:220-245,       *)
(* Utils.cpp:358-500): a binary heap in an array, with the place of every  *)
(* tile kept beside it so that the cost of a queued tile can be lowered,   *)
(* and a bit board that tells which entries of data belong to this search. *)
(*                                                                         *)
(* Each pass of a sifting loop is a step.  The entries actualCost and      *)
(* parent travel with totalCost and play no role here; totalCost is 'cost'.*)
(***************************************************************************)
EXTENDS Integers, FiniteSets

CONSTANTS Tiles, Costs

ASSUME CostAssumption == Costs \subseteq Nat
ASSUME TilesAssumption == IsFiniteSet(Tiles)

NoLoc == -1  \* numeric_limits<IdType>::max()

VARIABLES
  size,       \* heap.size()
  heap,       \* heap[i] for i in 0..size-1
  cost,       \* data[t].totalCost, meaningful if t is valid
  heapLoc,    \* data[t].heapLoc, meaningful if t is valid
  dataValid,  \* the tiles whose data belong to this search
  sifting,    \* the loop that is running: "no", "up" or "down"
  idx         \* the place the loop is at, 0 when none is running

vars == <<size, heap, cost, heapLoc, dataValid, sifting, idx>>

TypeOK ==
  /\ size \in Nat
  /\ heap \in [0..size-1 -> Tiles]
  /\ cost \in [Tiles -> Nat]
  /\ heapLoc \in [Tiles -> Nat \cup {NoLoc}]
  /\ dataValid \subseteq Tiles
  /\ sifting \in {"no", "up", "down"}
  /\ idx \in Nat

(* vector::resize fills the data with zeros. *)
Init ==
  /\ size = 0
  /\ heap = [i \in 0..-1 |-> 0]
  /\ cost = [t \in Tiles |-> 0]
  /\ heapLoc = [t \in Tiles |-> 0]
  /\ dataValid = {}
  /\ sifting = "no"
  /\ idx = 0

Parent(i) == (i - 1) \div 2
CostAt(i) == cost[heap[i]]
Best == heap[0]
IsVisited(t) == t \in dataValid

-----------------------------------------------------------------------------
(* updateTile when the tile has data: a lower cost is taken over. *)
LowerCost(t, c) ==
  /\ sifting = "no" /\ IsVisited(t)
  /\ c < cost[t]
  /\ cost' = [cost EXCEPT ![t] = c]
  /\ idx' = heapLoc[t]
  /\ sifting' = "up"
  /\ UNCHANGED <<size, heap, heapLoc, dataValid>>

(* updateTile when it has none: the tile goes to the end of the heap. *)
Push(t, c) ==
  /\ sifting = "no" /\ ~IsVisited(t)
  /\ size' = size + 1
  /\ heap' = [i \in 0..size |-> IF i = size THEN t ELSE heap[i]]
  /\ cost' = [cost EXCEPT ![t] = c]
  /\ heapLoc' = [heapLoc EXCEPT ![t] = size]
  /\ dataValid' = dataValid \cup {t}
  /\ idx' = size
  /\ sifting' = "up"

(* routeMaze calls updateTile unless the tile is done with (FGR.cpp:246).
   (A slip: it always does.) *)
AlwaysUpdate(t) == TRUE
MayUpdate(t) == ~IsVisited(t) \/ heapLoc[t] # NoLoc

UpdateTile(t, c) == MayUpdate(t) /\ (LowerCost(t, c) \/ Push(t, c))

(* removeBestTile: the last tile takes the place of the first.  heapLoc of
   the first is set last, so that it counts when the two are the same tile.
   The first definition is a slip: it is set first. *)
RelocateFrontFirst(last) == [[heapLoc EXCEPT ![heap[0]] = NoLoc] EXCEPT ![heap[last]] = 0]
Relocate(last) == [[heapLoc EXCEPT ![heap[last]] = 0] EXCEPT ![heap[0]] = NoLoc]

RemoveBestTile ==
  /\ sifting = "no" /\ size > 0
  /\ heapLoc' = Relocate(size - 1)
  /\ heap' = [i \in 0..size-2 |-> IF i = 0 THEN heap[size-1] ELSE heap[i]]
  /\ size' = size - 1
  /\ idx' = 0
  /\ sifting' = "down"
  /\ UNCHANGED <<cost, dataValid>>

(* Exchange the tiles at places i and j.  (A slip: heapLoc is forgotten.) *)
SwapHeapOnly(i, j) ==
  /\ heap' = [heap EXCEPT ![i] = heap[j], ![j] = heap[i]]
  /\ UNCHANGED heapLoc
Swap(i, j) ==
  /\ heap' = [heap EXCEPT ![i] = heap[j], ![j] = heap[i]]
  /\ heapLoc' = [heapLoc EXCEPT ![heap[i]] = j, ![heap[j]] = i]

Stop == sifting' = "no" /\ idx' = 0 /\ UNCHANGED <<heap, heapLoc>>

SiftUp ==
  /\ sifting = "up"
  /\ IF idx > 0 /\ CostAt(idx) < CostAt(Parent(idx))
       THEN Swap(idx, Parent(idx)) /\ idx' = Parent(idx) /\ UNCHANGED sifting
       ELSE Stop
  /\ UNCHANGED <<size, cost, dataValid>>

(* The cheaper child of idx, the right one if they cost the same.  (A slip: always the left one.) *)
LeftChild(i) == 2 * i + 1
CheaperChild(i) ==
  IF 2 * i + 2 < size /\ ~(CostAt(2 * i + 1) < CostAt(2 * i + 2)) THEN 2 * i + 2 ELSE 2 * i + 1

SiftDown ==
  /\ sifting = "down"
  /\ IF 2 * idx + 1 < size /\ CostAt(idx) > CostAt(CheaperChild(idx))
       THEN Swap(idx, CheaperChild(idx)) /\ idx' = CheaperChild(idx) /\ UNCHANGED sifting
       ELSE Stop
  /\ UNCHANGED <<size, cost, dataValid>>

(* clear: the costs and places of the search stay behind. *)
Clear ==
  /\ sifting = "no"
  /\ size' = 0
  /\ heap' = [i \in 0..-1 |-> 0]
  /\ dataValid' = {}
  /\ UNCHANGED <<cost, heapLoc, sifting, idx>>

Next == \/ \E t \in Tiles, c \in Costs : UpdateTile(t, c)
        \/ RemoveBestTile
        \/ SiftUp
        \/ SiftDown
        \/ Clear

Spec == Init /\ [][Next]_vars

-----------------------------------------------------------------------------
(***************************************************************************)
(* heap and heapLoc are each other's inverse, in the middle of a loop too: *)
(* lowering the cost of a tile starts sifting at the place heapLoc gives   *)
(* (Utils.cpp:438), without looking whether the tile is there.             *)
(***************************************************************************)
PlacesMatch ==
  /\ \A i \in 0..size-1 : heap[i] \in dataValid /\ heapLoc[heap[i]] = i
  /\ \A t \in dataValid : heapLoc[t] # NoLoc => heapLoc[t] < size /\ heap[heapLoc[t]] = t

(***************************************************************************)
(* Between calls no tile costs less than its parent in the heap, although  *)
(* costs are lowered in its middle (Utils.cpp:431-456).                    *)
(***************************************************************************)
HeapOrdered == sifting = "no" => \A i \in 1..size-1 : CostAt(Parent(i)) <= CostAt(i)

(* The abstract queue: what is in the heap, and what has data but no place. *)
Queue == INSTANCE PriorityQueue WITH
           queued <- [t \in {heap[i] : i \in 0..size-1} |-> cost[t]],
           removed <- {t \in dataValid : heapLoc[t] = NoLoc}

(***************************************************************************)
(* The heap is a priority queue: what getBestTile and removeBestTile take  *)
(* is a tile of least cost, and no tile is lost, doubled or revived.       *)
(***************************************************************************)
IsPriorityQueue == Queue!Spec
===============================================================================
