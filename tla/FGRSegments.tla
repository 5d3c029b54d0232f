----------------------------- MODULE FGRSegments -----------------------------
(***************************************************************************)
(* The bookkeeping of the FGR global router: which subnet occupies which   *)
(* edge of the routing grid, and every counter derived from it that the    *)
(* router keeps up to date incrementally instead of recomputing it.        *)
(*                                                                         *)
(* Two operations touch this state, FGR::addSegment and FGR::ripUpSegment  *)
(* (src/itlPlace/src/Routing/FGR/Utils.cpp:502-571).  The rest of the      *)
(* router (initial routing, rip-up and re-route, tree rebuilding, greedy   *)
(* improvement) only calls these two and reads the counters, so a counter  *)
(* that drifts from the routes silently corrupts every later decision.     *)
(***************************************************************************)
EXTENDS Integers, FiniteSets

CONSTANTS Nets,      \* the nets being routed
          SubNets,   \* the two-pin connections the nets were decomposed into
          NetOf,     \* NetOf[s] is the net that owns subnet s
          Edges,     \* the edges of the routing grid
          ViaEdges,  \* the edges whose type is VIA
          Capacity   \* Capacity[e] is how many nets fit on edge e

CapMod == 65536      \* CapType is unsigned short (FGR.h:17)

ASSUME FiniteAssumption == /\ IsFiniteSet(Nets)
                           /\ IsFiniteSet(SubNets)
                           /\ IsFiniteSet(Edges)

ASSUME ShapeAssumption == /\ NetOf \in [SubNets -> Nets]
                          /\ ViaEdges \subseteq Edges
                          /\ Capacity \in [Edges -> Nat]

(***************************************************************************)
(* An edge can be used by every net at once, and its usage is 16 bits      *)
(* wide: the counters below are exact only below this bound.               *)
(***************************************************************************)
ASSUME NetsFitCapType == Cardinality(Nets) < CapMod

VARIABLES
  segments,       \* segments[s]: the edges subnet s occupies
  edgeSubNets,    \* edgeSubNets[e]: the subnets listed at edge e
  hashed,         \* hashed[n][e]: multiplicity of e in net n's hashedSegments
  usage,          \* usage[e]: capacity of e in use
  totalOverflow,  \* capacity used in excess, over all edges
  overfullEdges,  \* number of edges used in excess
  numSegments,    \* numSegments[n]: non-via edges net n occupies
  numVias,        \* numVias[n]: via edges net n occupies
  totalSegments,  \* numSegments over all nets
  totalVias       \* numVias over all nets

vars == <<segments, edgeSubNets, hashed, usage, totalOverflow, overfullEdges,
          numSegments, numVias, totalSegments, totalVias>>

TypeOK ==
  /\ segments \in [SubNets -> SUBSET Edges]
  /\ edgeSubNets \in [Edges -> SUBSET SubNets]
  /\ hashed \in [Nets -> [Edges -> Nat]]
  /\ usage \in [Edges -> 0..CapMod-1]
  /\ totalOverflow \in Nat
  /\ overfullEdges \in Nat
  /\ numSegments \in [Nets -> Nat]
  /\ numVias \in [Nets -> Nat]
  /\ totalSegments \in Nat
  /\ totalVias \in Nat

-----------------------------------------------------------------------------
Init ==
  /\ segments = [s \in SubNets |-> {}]
  /\ edgeSubNets = [e \in Edges |-> {}]
  /\ hashed = [n \in Nets |-> [e \in Edges |-> 0]]
  /\ usage = [e \in Edges |-> 0]
  /\ totalOverflow = 0
  /\ overfullEdges = 0
  /\ numSegments = [n \in Nets |-> 0]
  /\ numVias = [n \in Nets |-> 0]
  /\ totalSegments = 0
  /\ totalVias = 0

(***************************************************************************)
(* A via costs one unit; any other edge costs max(net.minWidth, the        *)
(* layer's minWidth) plus the layer's minSpacing, which parseInputAsLab    *)
(* sets to 1, 0 and 0.                                                     *)
(***************************************************************************)
AddedUsage == 1

Overflow(u, e) == IF u > Capacity[e] THEN u - Capacity[e] ELSE 0

(* A slip: the overflow the edge already had is counted again. *)
ChangeUsageForgetsOld(e, u, crossing, step) ==
  /\ usage' = [usage EXCEPT ![e] = u]
  /\ totalOverflow' = totalOverflow + Overflow(u, e)
  /\ overfullEdges' = IF crossing THEN overfullEdges + step ELSE overfullEdges

(***************************************************************************)
(* Edge e changes its usage to u: totalOverflow is adjusted by the         *)
(* difference, and overfullEdges when the edge crosses its capacity in the *)
(* direction the caller looks for.                                         *)
(***************************************************************************)
ChangeUsage(e, u, crossing, step) ==
  /\ usage' = [usage EXCEPT ![e] = u]
  /\ totalOverflow' = totalOverflow - Overflow(usage[e], e) + Overflow(u, e)
  /\ overfullEdges' = IF crossing THEN overfullEdges + step ELSE overfullEdges

(* A slip: the total counts vias as segments. *)
ChangeLengthMixesVias(n, e, step) ==
  /\ totalSegments' = totalSegments + step
  /\ IF e \in ViaEdges THEN /\ numVias' = [numVias EXCEPT ![n] = @ + step]
                            /\ UNCHANGED numSegments
                       ELSE /\ numSegments' = [numSegments EXCEPT ![n] = @ + step]
                            /\ UNCHANGED numVias
  /\ UNCHANGED totalVias

(* Net n gains or loses edge e: its length and the total follow. *)
ChangeLength(n, e, step) ==
  IF e \in ViaEdges
    THEN /\ numVias' = [numVias EXCEPT ![n] = @ + step]
         /\ totalVias' = totalVias + step
         /\ UNCHANGED <<numSegments, totalSegments>>
    ELSE /\ numSegments' = [numSegments EXCEPT ![n] = @ + step]
         /\ totalSegments' = totalSegments + step
         /\ UNCHANGED <<numVias, totalVias>>

KeepCounters == UNCHANGED <<usage, totalOverflow, overfullEdges, numSegments,
                            numVias, totalSegments, totalVias>>

(* The net's multiset of edges, MemEfficientMultiSet in FGR.h.  (The first
   definition is a slip: a set would forget how many subnets share the edge.) *)
SetNotMultiset(n, e) == hashed' = [hashed EXCEPT ![n][e] = 1]
HashInsert(n, e) == hashed' = [hashed EXCEPT ![n][e] = @ + 1]
HashRemove(n, e) == hashed' = [hashed EXCEPT ![n][e] = @ - 1]

(* Whether the edge is new to the net, and whether it is gone from the net
   once one occurrence has been removed.  (A slip: not looking.) *)
EveryUse(n, e) == TRUE
FirstUse(n, e) == hashed[n][e] = 0
LastUse(n, e) == hashed[n][e] = 1

(* The sorted list of subnets kept at the edge.  (A slip: not erasing.) *)
ListInsert(e, s) == edgeSubNets' = [edgeSubNets EXCEPT ![e] = @ \cup {s}]
ListEraseNothing(e, s) == UNCHANGED edgeSubNets
ListErase(e, s) == edgeSubNets' = [edgeSubNets EXCEPT ![e] = @ \ {s}]

AddSegment(s, e) ==
  LET n == NetOf[s]
      u == (usage[e] + AddedUsage) % CapMod
      crosses == Overflow(usage[e], e) = 0 /\ Overflow(u, e) > 0
  IN  /\ segments' = [segments EXCEPT ![s] = @ \cup {e}]
      /\ ListInsert(e, s)
      /\ IF FirstUse(n, e)
           THEN ChangeUsage(e, u, crosses, 1) /\ ChangeLength(n, e, 1)
           ELSE KeepCounters
      /\ HashInsert(n, e)

(***************************************************************************)
(* ripUpSubNet walks snet.segments and clears it at the end of the loop    *)
(* (FGR.cpp:167-176); segments[s] is what the loop has not passed yet.     *)
(***************************************************************************)
RipUpSegment(s, e) ==
  LET n == NetOf[s]
      u == (usage[e] - AddedUsage) % CapMod
      crosses == Overflow(usage[e], e) > 0 /\ Overflow(u, e) = 0
  IN  /\ segments' = [segments EXCEPT ![s] = @ \ {e}]
      /\ HashRemove(n, e)
      /\ IF LastUse(n, e)
           THEN ChangeUsage(e, u, crosses, -1) /\ ChangeLength(n, e, -1)
           ELSE KeepCounters
      /\ ListErase(e, s)

(***************************************************************************)
(* The callers add an edge to a subnet that does not have it and rip up    *)
(* one that it has: what the assertions at Utils.cpp:510 and 569 demand.   *)
(***************************************************************************)
Next == \E s \in SubNets, e \in Edges :
          \/ e \notin segments[s] /\ AddSegment(s, e)
          \/ e \in segments[s] /\ RipUpSegment(s, e)

Spec == Init /\ [][Next]_vars

-----------------------------------------------------------------------------
(* The subnets of net n that occupy edge e. *)
Holders(n, e) == {s \in SubNets : NetOf[s] = n /\ e \in segments[s]}

(* The nets that occupy edge e, each counted once however many of its
   subnets pass there. *)
Users(e) == {n \in Nets : Holders(n, e) # {}}

(* One element for each unit of capacity used in excess. *)
OverflowUnits == {p \in Edges \X (1..Cardinality(Nets)) :
                    p[2] <= Overflow(usage[p[1]], p[1])}

OverfullSet == {e \in Edges : usage[e] > Capacity[e]}

Occupied(n, kind) == {e \in kind : Holders(n, e) # {}}

Occupations(kind) == {p \in Nets \X kind : Holders(p[1], p[2]) # {}}

(***************************************************************************)
(* The list of subnets kept at an edge is the inverse of the lists of      *)
(* edges kept at the subnets.  doRRR reads the first to decide what to rip *)
(* up (FGR.cpp:494) and ripUpSubNet follows the second (FGR.cpp:170).      *)
(***************************************************************************)
EdgeListsMatch == \A e \in Edges : edgeSubNets[e] = {s \in SubNets : e \in segments[s]}

(***************************************************************************)
(* hashedSegments counts the subnets of the net on the edge, so that an    *)
(* edge shared by two subnets of a net survives the rip-up of one of them  *)
(* (Utils.cpp:547).                                                        *)
(***************************************************************************)
HashedExact == \A n \in Nets, e \in Edges : hashed[n][e] = Cardinality(Holders(n, e))

(***************************************************************************)
(* An edge is charged once for each net on it, whatever the order in which *)
(* subnets of that net came and went (Utils.cpp:517, 548).  In particular  *)
(* the assertion usage >= addedUsage at Utils.cpp:545 never fails.         *)
(***************************************************************************)
UsageExact == \A e \in Edges : usage[e] = Cardinality(Users(e))

(***************************************************************************)
(* The incremental totalOverflow and overfullEdges are what a recount over *)
(* all edges would give.  doRRR stops on overfullEdges, greedyImprovement  *)
(* is skipped on totalOverflow.                                            *)
(***************************************************************************)
OverflowExact == /\ totalOverflow = Cardinality(OverflowUnits)
                 /\ overfullEdges = Cardinality(OverfullSet)

(***************************************************************************)
(* The lengths per net and their totals are what a recount would give.     *)
(* doRRR compares the totals of two iterations to see that it is stuck     *)
(* (FGR.cpp:521).                                                          *)
(***************************************************************************)
LengthsExact ==
  /\ \A n \in Nets : /\ numSegments[n] = Cardinality(Occupied(n, Edges \ ViaEdges))
                      /\ numVias[n] = Cardinality(Occupied(n, ViaEdges))
  /\ totalSegments = Cardinality(Occupations(Edges \ ViaEdges))
  /\ totalVias = Cardinality(Occupations(ViaEdges))

(***************************************************************************)
(* All together: no counter that is changed by differences ever departs    *)
(* from what a recount over the routes would give.                         *)
(***************************************************************************)
CountersExact == HashedExact /\ UsageExact /\ OverflowExact /\ LengthsExact
=============================================================================
