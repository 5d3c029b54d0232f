--------------------------- MODULE MazeSearch_proofs ---------------------------
(***************************************************************************)
(* Proofs that the A* search of FGR can always be read back: for every     *)
(* grid, all prices and any pair of ends.                                  *)
(***************************************************************************)
EXTENDS MazeSearch, FiniteSetTheorems, WellFoundedInduction, TLAPS

(* The search begins by finishing the first tile, and never comes back to it. *)
FirstTileFirst == one \in Known /\ (one \in queue => queue = {one} /\ done = {})

IInv == TypeOK /\ FirstTileFirst /\ ParentsLeadHome

LEMMA DistanceType == ASSUME NEW t \in Tiles, NEW u \in Tiles PROVE Distance(<<t, u>>) \in Nat
<1>1. t[1] \in Int /\ t[2] \in Int /\ u[1] \in Int /\ u[2] \in Int
  BY SizeAssumption DEF Tiles
<1>. QED BY <1>1 DEF Distance, Width, Height, Abs

LEMMA LowerBoundType == ASSUME two \in Tiles, NEW t \in Tiles PROVE LowerBound(t) \in Nat
<1>1. Distance(<<t, two>>) \in Nat BY DistanceType
<1>. QED BY <1>1 DEF LowerBound, ExactManhattan, LBManhattan, edgeBase, epsilon

LEMMA PriceIsNat ==
  ASSUME TypeOK, NEW t, NEW u, {t, u} \in Edges PROVE price[{t, u}] \in Nat
BY PriceAssumption DEF TypeOK, epsilon, Barred

LEMMA InitInv == Init => IInv
<1>. SUFFICES ASSUME Init PROVE IInv OBVIOUS
<1>1. one \in Tiles /\ two \in Tiles BY EndsAssumption DEF Init
<1>2. Known = {one} BY DEF Init, Known
<1>3. totalCost \in [{one} -> Nat] /\ actualCost \in [{one} -> Nat]
      /\ parent \in [{one} -> Tiles \cup {NoTile}]
  BY DEF Init
<1>4. TypeOK BY <1>1, <1>2, <1>3 DEF Init, TypeOK
<1>5. FirstTileFirst BY <1>2 DEF Init, FirstTileFirst
<1>6. ParentsLeadHome BY <1>2 DEF ParentsLeadHome
<1>. QED BY <1>4, <1>5, <1>6 DEF IInv

(***************************************************************************)
(* What a pass of the loop changes: only tiles that are not done with, and *)
(* never the one it stands on.                                             *)
(***************************************************************************)
LEMMA ImprovedTiles ==
  ASSUME TypeOK, FirstTileFirst, NEW t \in queue
  PROVE  /\ Improved(t) \subseteq Tiles
         /\ Improved(t) \cap (done \cup {t}) = {}
         /\ one \notin Improved(t)
         /\ \A u \in Improved(t) : Reachable(t, u) /\ CostVia(t, u) \in Nat
<1>1. /\ Improved(t) \subseteq Tiles
      /\ Improved(t) \cap (done \cup {t}) = {}
      /\ \A u \in Improved(t) : Reachable(t, u)
  BY DEF Improved, Neighbours
<1>2. one \notin Improved(t)
  <2>1. one \in done \cup {t} BY DEF FirstTileFirst, Known
  <2>. QED BY <1>1, <2>1
<1>3. \A u \in Improved(t) : CostVia(t, u) \in Nat
  <2>. SUFFICES ASSUME NEW u \in Improved(t) PROVE CostVia(t, u) \in Nat OBVIOUS
  <2>1. actualCost[t] \in Nat BY DEF TypeOK, Known
  <2>2. {t, u} \in Edges BY <1>1 DEF Reachable
  <2>3. price[{t, u}] \in Nat BY <2>2, PriceIsNat
  <2>. QED BY <2>1, <2>3 DEF CostVia
<1>. QED BY <1>1, <1>2, <1>3

LEMMA RelaxInv ==
  ASSUME IInv, UNCHANGED problem, NEW t \in queue, Relax(t), done' = done \cup {t},
         searching' \in BOOLEAN
  PROVE  IInv'
<1> DEFINE S == Improved(t)
<1>1. TypeOK /\ FirstTileFirst /\ ParentsLeadHome BY DEF IInv
<1>2. /\ S \subseteq Tiles /\ S \cap (done \cup {t}) = {} /\ one \notin S
      /\ \A u \in S : Reachable(t, u) /\ CostVia(t, u) \in Nat
  BY <1>1, ImprovedTiles
<1>3. UNCHANGED <<one, two, price, bounded>> BY DEF problem
<1>4. Known' = Known \cup S /\ queue' = (queue \ {t}) \cup S BY DEF Relax, Known
<1>5. t \in Tiles /\ t \in Known BY <1>1 DEF TypeOK, Known
<1>6. /\ totalCost' = [u \in DOMAIN totalCost \cup S |->
                         IF u \in S THEN CostVia(t, u) + LowerBound(u) ELSE totalCost[u]]
      /\ actualCost' = [u \in DOMAIN actualCost \cup S |->
                          IF u \in S THEN CostVia(t, u) ELSE actualCost[u]]
      /\ parent' = [u \in DOMAIN parent \cup S |-> IF u \in S THEN t ELSE parent[u]]
  BY DEF Relax, Update
<1>7. /\ DOMAIN totalCost = Known /\ DOMAIN actualCost = Known /\ DOMAIN parent = Known
  BY <1>1 DEF TypeOK
<1>8. totalCost' \in [Known' -> Nat]
  <2>1. \A u \in S : LowerBound(u) \in Nat BY <1>1, <1>2, LowerBoundType DEF TypeOK
  <2>2. \A u \in S : CostVia(t, u) + LowerBound(u) \in Nat BY <1>2, <2>1
  <2>3. \A u \in Known : totalCost[u] \in Nat BY <1>1 DEF TypeOK
  <2>. HIDE DEF S
  <2>. QED BY <1>4, <1>6, <1>7, <2>2, <2>3
<1>9. actualCost' \in [Known' -> Nat]
  <2>1. \A u \in Known : actualCost[u] \in Nat BY <1>1 DEF TypeOK
  <2>. HIDE DEF S
  <2>. QED BY <1>2, <1>4, <1>6, <1>7, <2>1
<1>10. parent' \in [Known' -> Tiles \cup {NoTile}]
  <2>1. \A u \in Known : parent[u] \in Tiles \cup {NoTile} BY <1>1 DEF TypeOK
  <2>. HIDE DEF S
  <2>. QED BY <1>4, <1>5, <1>6, <1>7, <2>1
<1>11. TypeOK'
  <2>1. queue' \subseteq Tiles /\ done' \subseteq Tiles \ queue'
    BY <1>1, <1>2, <1>4, <1>5 DEF TypeOK
  <2>. QED BY <1>1, <1>3, <1>8, <1>9, <1>10, <2>1 DEF TypeOK
<1>12. FirstTileFirst'
  <2>1. one \in done \cup {t} BY <1>1 DEF FirstTileFirst, Known
  <2>2. one \in done' /\ one \notin queue' BY <1>1, <1>2, <1>4, <2>1 DEF TypeOK
  <2>. QED BY <1>3, <2>2 DEF FirstTileFirst, Known
<1>13. ParentsLeadHome'
  <2>. SUFFICES ASSUME NEW u \in Known', u # one
                PROVE  /\ parent'[u] \in done'
                       /\ Reachable(parent'[u], u)
                       /\ actualCost'[u] = actualCost'[parent'[u]] + price[{parent'[u], u}]
    BY <1>3 DEF ParentsLeadHome, Reachable, InBox, CostVia
  <2>1. CASE u \in S
    <3>1. parent'[u] = t /\ actualCost'[u] = CostVia(t, u) BY <1>6, <2>1
    <3>2. actualCost'[t] = actualCost[t] BY <1>2, <1>5, <1>6, <1>7
    <3>. QED BY <1>2, <2>1, <3>1, <3>2 DEF CostVia
  <2>2. CASE u \notin S
    <3>1. u \in Known \ {one} BY <1>4, <2>2
    <3>2. /\ parent[u] \in done /\ Reachable(parent[u], u)
          /\ actualCost[u] = CostVia(parent[u], u)
      BY <1>1, <3>1 DEF ParentsLeadHome
    <3>3. parent'[u] = parent[u] /\ actualCost'[u] = actualCost[u]
      BY <1>6, <1>7, <2>2, <3>1
    <3>4. parent[u] \in Known /\ parent[u] \notin S BY <1>2, <3>2 DEF Known
    <3>5. actualCost'[parent[u]] = actualCost[parent[u]] BY <1>6, <1>7, <3>4
    <3>. QED BY <3>2, <3>3, <3>5 DEF CostVia
  <2>. QED BY <2>1, <2>2
<1>. QED BY <1>11, <1>12, <1>13 DEF IInv

(* Coming to the second tile only moves it out of the queue. *)
LEMMA ArriveInv ==
  ASSUME IInv, UNCHANGED problem, NEW t \in queue, done' = done \cup {t},
         queue' = queue \ {t}, UNCHANGED <<totalCost, actualCost, parent>>,
         searching' \in BOOLEAN
  PROVE  IInv'
<1>1. TypeOK /\ FirstTileFirst /\ ParentsLeadHome BY DEF IInv
<1>2. UNCHANGED <<one, two, price, bounded>> BY DEF problem
<1>3. Known' = Known BY DEF Known
<1>4. TypeOK' BY <1>1, <1>2, <1>3 DEF TypeOK
<1>5. FirstTileFirst' BY <1>1, <1>2, <1>3 DEF FirstTileFirst
<1>6. ParentsLeadHome'
  BY <1>1, <1>2, <1>3 DEF ParentsLeadHome, Reachable, InBox, CostVia
<1>. QED BY <1>4, <1>5, <1>6 DEF IInv

LEMMA StepInv == IInv /\ [Next]_vars => IInv'
<1>1. ASSUME IInv, Expand PROVE IInv'
  <2>1. PICK t \in queue :
          /\ done' = done \cup {t}
          /\ IF t = two
               THEN queue' = queue \ {t} /\ UNCHANGED <<totalCost, actualCost, parent>>
               ELSE Relax(t)
    BY <1>1 DEF Expand
  <2>2. searching' \in BOOLEAN /\ UNCHANGED problem BY <1>1 DEF Expand
  <2>3. CASE t = two BY <1>1, <2>1, <2>2, <2>3, ArriveInv
  <2>4. CASE t # two BY <1>1, <2>1, <2>2, <2>4, RelaxInv
  <2>. QED BY <2>3, <2>4
<1>2. ASSUME IInv, UNCHANGED vars PROVE IInv'
  BY <1>2 DEF vars, IInv, TypeOK, FirstTileFirst, ParentsLeadHome, Known, Reachable, InBox, CostVia
<1>. QED BY <1>1, <1>2 DEF Next

(***************************************************************************)
(* routeMaze keeps its tables by tile, with every cost a natural number    *)
(* and no tile both in the queue and done with.                            *)
(***************************************************************************)
THEOREM TypeCorrect == Spec => []TypeOK
<1>. QED BY InitInv, StepInv, PTL DEF Spec, IInv

(***************************************************************************)
(* Following the parents from any tile the search knows goes over usable   *)
(* edges, at the cost the search says, and cannot miss the first tile.     *)
(***************************************************************************)
THEOREM ParentsAreSound == Spec => []ParentsLeadHome
<1>. QED BY InitInv, StepInv, PTL DEF Spec, IInv
-----------------------------------------------------------------------------
(***************************************************************************)
(* The search finds a cheapest route.  Costs are those of the estimate     *)
(* added; what is done with costs no more than what waits; over every      *)
(* usable edge the search has looked from the tiles that are done with;    *)
(* and there is a path behind every cost.                                  *)
(***************************************************************************)
EstimateAdded ==
  /\ one \in Starts /\ actualCost[one] = 0 /\ totalCost[one] = 0
  /\ \A t \in Known \ {one} : totalCost[t] = actualCost[t] + LowerBound(t)

LeastFirst ==
  /\ \A t \in done, u \in queue : totalCost[t] <= totalCost[u]
  /\ two \in done => \A t \in done : totalCost[t] <= totalCost[two]

NeighboursSeen ==
  \A t \in done \ {two}, u \in Tiles :
    Reachable(t, u) => u \in Known /\ actualCost[u] <= CostVia(t, u)

PathsBehindCosts ==
  \A t \in Known : InBox(t) /\ \E P \in UsablePaths(t) : PathCost(P) <= actualCost[t]

StopsInTime == ~searching => queue = {} \/ two \in done

CheapestInv ==
  IInv /\ EstimateAdded /\ LeastFirst /\ NeighboursSeen /\ PathsBehindCosts /\ StopsInTime

(***************************************************************************)
(* The grid and the estimate.                                              *)
(***************************************************************************)
LEMMA EdgeEnds ==
  ASSUME NEW e \in Edges
  PROVE  \E u, v \in Tiles : /\ e = {u, v} /\ u # v
                             /\ \A w \in Tiles : Distance(<<u, w>>) <= Distance(<<v, w>>) + 1
                             /\ \A w \in Tiles : Distance(<<v, w>>) <= Distance(<<u, w>>) + 1
<1>0. XTiles \in Nat /\ YTiles \in Nat BY SizeAssumption
<1>1. PICK u, v \in Tiles :
        /\ e = {u, v}
        /\ \/ v[1] = u[1] + 1 /\ v[2] = u[2]
           \/ v[1] = u[1] /\ v[2] = u[2] + 1
  <2>1. CASE \E t \in (0..XTiles-2) \X (0..YTiles-1) : e = {t, <<t[1] + 1, t[2]>>}
    <3>1. PICK t \in (0..XTiles-2) \X (0..YTiles-1) : e = {t, <<t[1] + 1, t[2]>>} BY <2>1
    <3>2. t \in Tiles /\ <<t[1] + 1, t[2]>> \in Tiles BY <1>0 DEF Tiles
    <3>. QED BY <3>1, <3>2
  <2>2. CASE \E t \in (0..XTiles-1) \X (0..YTiles-2) : e = {t, <<t[1], t[2] + 1>>}
    <3>1. PICK t \in (0..XTiles-1) \X (0..YTiles-2) : e = {t, <<t[1], t[2] + 1>>} BY <2>2
    <3>2. t \in Tiles /\ <<t[1], t[2] + 1>> \in Tiles BY <1>0 DEF Tiles
    <3>. QED BY <3>1, <3>2
  <2>. QED BY <2>1, <2>2 DEF Edges
<1>2. \A t \in Tiles : t[1] \in Int /\ t[2] \in Int BY <1>0 DEF Tiles
<1>3. u # v BY <1>1, <1>2
<1>4. ASSUME NEW w \in Tiles
      PROVE  /\ Distance(<<u, w>>) <= Distance(<<v, w>>) + 1
             /\ Distance(<<v, w>>) <= Distance(<<u, w>>) + 1
  BY <1>1, <1>2 DEF Distance, Width, Height, Abs
<1>. QED BY <1>1, <1>3, <1>4

LEMMA GridFinite == IsFiniteSet(Edges) /\ Edges \subseteq SUBSET Tiles
<1>1. Edges \subseteq SUBSET Tiles BY EdgeEnds
<1>2. XTiles - 1 \in Int /\ YTiles - 1 \in Int BY SizeAssumption
<1>3. IsFiniteSet(0..XTiles-1) /\ IsFiniteSet(0..YTiles-1) BY <1>2, FS_Interval
<1>4. IsFiniteSet(Tiles) BY <1>3, FS_Product DEF Tiles
<1>5. IsFiniteSet(SUBSET Tiles) BY <1>4, FS_SUBSET
<1>. QED BY <1>1, <1>5, FS_Subset

(* Along a usable edge the estimate changes by no more than its price. *)
LEMMA EstimateConsistent ==
  ASSUME TypeOK, NEW u \in Tiles, NEW v \in Tiles, {u, v} \in Edges, price[{u, v}] # Barred
  PROVE  /\ price[{u, v}] \in Nat \ {0}
         /\ LowerBound(u) <= LowerBound(v) + price[{u, v}]
         /\ LowerBound(v) <= LowerBound(u) + price[{u, v}]
<1>1. two \in Tiles /\ Distance(<<u, two>>) \in Nat /\ Distance(<<v, two>>) \in Nat
  BY DistanceType DEF TypeOK
<1>2. /\ Distance(<<u, two>>) <= Distance(<<v, two>>) + 1
      /\ Distance(<<v, two>>) <= Distance(<<u, two>>) + 1
  <2>1. PICK a, b \in Tiles :
          /\ {u, v} = {a, b} /\ a # b
          /\ \A w \in Tiles : Distance(<<a, w>>) <= Distance(<<b, w>>) + 1
          /\ \A w \in Tiles : Distance(<<b, w>>) <= Distance(<<a, w>>) + 1
    BY EdgeEnds
  <2>2. (u = a /\ v = b) \/ (u = b /\ v = a) BY <2>1
  <2>. QED BY <1>1, <2>1, <2>2
<1>3. price[{u, v}] \in Nat /\ (price[{u, v}] = epsilon \/ price[{u, v}] >= edgeBase)
  BY PriceAssumption DEF TypeOK, epsilon, Barred
<1>4. CASE \A e \in Edges : price[e] # epsilon
  <2>1. price[{u, v}] >= edgeBase BY <1>3, <1>4
  <2>2. LowerBound(u) = ExactManhattan(u) /\ LowerBound(v) = ExactManhattan(v)
    BY <1>4 DEF LowerBound
  <2>. QED BY <1>1, <1>2, <1>3, <2>1, <2>2 DEF ExactManhattan, edgeBase
<1>5. CASE ~ \A e \in Edges : price[e] # epsilon
  <2>1. price[{u, v}] >= 1 BY <1>3 DEF epsilon, edgeBase
  <2>2. LowerBound(u) = LBManhattan(u) /\ LowerBound(v) = LBManhattan(v)
    BY <1>5 DEF LowerBound
  <2>. QED BY <1>1, <1>2, <1>3, <2>1, <2>2 DEF LBManhattan, epsilon
<1>. QED BY <1>4, <1>5

LEMMA NothingLeftAtTwo == ASSUME two \in Tiles PROVE LowerBound(two) = 0
<1>1. Distance(<<two, two>>) = 0
  <2>1. two[1] \in Int /\ two[2] \in Int BY SizeAssumption DEF Tiles
  <2>. QED BY <2>1 DEF Distance, Width, Height, Abs
<1>. QED BY <1>1 DEF LowerBound, ExactManhattan, LBManhattan, edgeBase, epsilon

(***************************************************************************)
(* Paths and what they cost.                                               *)
(***************************************************************************)
LEMMA UnitsFinite ==
  ASSUME TypeOK, NEW P, P \subseteq Edges
  PROVE  IsFiniteSet(Units(P)) /\ PathCost(P) \in Nat
         /\ \A Q \in SUBSET P : PathCost(Q) <= PathCost(P)
<1>1. IsFiniteSet(P) BY GridFinite, FS_Subset
<1> DEFINE Row(e) == {e} \X (1..price[e])
<1>2. ASSUME NEW e \in P PROVE IsFiniteSet(Row(e))
  <2>1. price[e] \in Nat BY PriceAssumption DEF TypeOK, epsilon, Barred
  <2>2. IsFiniteSet(1..price[e]) BY <2>1, FS_Interval
  <2>3. IsFiniteSet({e}) BY FS_Singleton
  <2>. QED BY <2>2, <2>3, FS_Product
<1>3. IsFiniteSet({Row(e) : e \in P})
  <2> DEFINE f == [e \in P |-> Row(e)]
  <2>1. f \in Surjection(P, {Row(e) : e \in P}) BY DEF Surjection
  <2>. QED BY <1>1, <2>1, FS_Surjection
<1>4. \A T \in {Row(e) : e \in P} : IsFiniteSet(T) BY <1>2
<1>5. IsFiniteSet(Units(P)) BY <1>3, <1>4, FS_UNION DEF Units
<1>6. Cardinality(Units(P)) \in Nat BY <1>5, FS_CardinalityType
<1>7. ASSUME NEW Q \in SUBSET P
      PROVE  IsFiniteSet(Units(Q)) /\ Cardinality(Units(Q)) <= Cardinality(Units(P))
                                  /\ Cardinality(Units(Q)) \in Nat
  <2>1. Units(Q) \subseteq Units(P) BY DEF Units
  <2>2. IsFiniteSet(Units(Q)) /\ Cardinality(Units(Q)) <= Cardinality(Units(P))
    BY <1>5, <2>1, FS_Subset
  <2>. QED BY <2>2, FS_CardinalityType
<1>. QED BY <1>5, <1>6, <1>7 DEF PathCost

(* One edge more costs its price, or nothing if it was there before. *)
LEMMA CostOfOneMore ==
  ASSUME TypeOK, NEW P, P \subseteq Edges, NEW e \in Edges
  PROVE  PathCost(P \cup {e}) <= PathCost(P) + price[e]
<1>1. price[e] \in Nat BY PriceAssumption DEF TypeOK, epsilon, Barred
<1>2. IsFiniteSet({e}) /\ Cardinality({e}) = 1 BY FS_Singleton
<1>3. IsFiniteSet(1..price[e]) /\ Cardinality(1..price[e]) = price[e]
  <2>1. Cardinality(1..price[e]) = IF 1 > price[e] THEN 0 ELSE price[e] - 1 + 1
    BY <1>1, FS_Interval
  <2>2. 1 \in Int /\ price[e] \in Int BY <1>1
  <2>3. IsFiniteSet(1..price[e]) BY <2>2, FS_Interval
  <2>. QED BY <1>1, <2>1, <2>3
<1>4. IsFiniteSet({e} \X (1..price[e])) /\ Cardinality({e} \X (1..price[e])) = price[e]
  <2>1. IsFiniteSet({e} \X (1..price[e])) BY <1>2, <1>3, FS_Product
  <2>2. Cardinality({e} \X (1..price[e])) = Cardinality({e}) * Cardinality(1..price[e])
    BY <1>2, <1>3, FS_Product
  <2>3. 1 * price[e] = price[e] BY <1>1
  <2>. QED BY <1>2, <1>3, <2>1, <2>2, <2>3
<1>5. IsFiniteSet(Units(P)) BY UnitsFinite
<1>6. Units(P \cup {e}) = Units(P) \cup ({e} \X (1..price[e])) BY DEF Units
<1> DEFINE A == Units(P)
           B == {e} \X (1..price[e])
<1>7. Cardinality(A \cup B) = Cardinality(A) + Cardinality(B) - Cardinality(A \cap B)
  BY <1>4, <1>5, FS_Union
<1>8. IsFiniteSet(A \cap B) BY <1>5, FS_Subset
<1>9. Cardinality(A \cap B) \in Nat /\ Cardinality(A) \in Nat BY <1>5, <1>8, FS_CardinalityType
<1>10. PathCost(P \cup {e}) = Cardinality(A \cup B) BY <1>6 DEF PathCost
<1>11. PathCost(P) = Cardinality(A) /\ Cardinality(B) = price[e] BY <1>4 DEF PathCost
<1>. HIDE DEF A, B
<1>. QED BY <1>1, <1>7, <1>9, <1>10, <1>11

(* A set of usable edges in the box that joins two tiles has a usable path in it. *)
LEMMA PathWithin ==
  ASSUME TypeOK, one \in Starts, NEW t \in Tiles, NEW P \in SUBSET Edges, Joins(P, {one, t}),
         \A e \in P : price[e] # Barred,
         bounded => UNION P \subseteq Box(<<one, two>>)
  PROVE  \E Q \in UsablePaths(t) : Q \subseteq P
<1> DEFINE J == {Q \in SUBSET P : Joins(Q, {one, t})}
           R == StrictSubsetOrdering(P)
<1>1. P \in J OBVIOUS
<1>2. J \subseteq FiniteSubsetsOf(P)
  <2>1. IsFiniteSet(P) BY GridFinite, FS_Subset
  <2>2. \A Q \in SUBSET P : IsFiniteSet(Q) BY <2>1, FS_Subset
  <2>. QED BY <2>2 DEF FiniteSubsetsOf
<1>3. IsWellFoundedOn(R, FiniteSubsetsOf(P)) BY FS_StrictSubsetOrderingWellFounded
<1>. HIDE DEF J, R
<1>4. PICK Q \in J : \A S \in J : <<S, Q>> \notin R BY <1>1, <1>2, <1>3, WFMin
<1>. USE DEF J, R
<1>5. Q \subseteq P /\ Joins(Q, {one, t}) OBVIOUS
<1>6. ASSUME NEW e \in Q, Joins(Q \ {e}, {one, t}) PROVE FALSE
  <2>1. Q \ {e} \in J BY <1>6
  <2>2. <<Q \ {e}, Q>> \in R BY <1>5 DEF StrictSubsetOrdering
  <2>. QED BY <1>4, <2>1, <2>2
<1>7. Q \in PathsBetween(<<one, t>>) BY <1>5, <1>6 DEF PathsBetween
<1>8. <<<<one, t>>, Q>> \in PathTable BY <1>7 DEF PathTable
<1>9. \A e \in Q : price[e] # Barred BY <1>5
<1>10. bounded => UNION Q \subseteq Box(<<one, two>>) BY <1>5
<1>11. Q \in UsablePaths(t) BY <1>8, <1>9, <1>10 DEF UsablePaths
<1>. QED BY <1>5, <1>11

(* What is known of a usable path. *)
LEMMA PathShape ==
  ASSUME NEW t \in Tiles, NEW P \in UsablePaths(t)
  PROVE  /\ P \subseteq Edges /\ Joins(P, {one, t})
         /\ \A e \in P : price[e] # Barred
         /\ bounded => UNION P \subseteq Box(<<one, two>>)
<1>1. PICK q \in PathTable : /\ P = q[2] /\ q[1] = <<one, t>>
                             /\ \A e \in q[2] : price[e] # Barred
                             /\ bounded => UNION q[2] \subseteq Box(<<one, two>>)
  BY DEF UsablePaths
<1>2. PICK p \in Starts \X Tiles : q \in {<<p, S>> : S \in PathsBetween(p)}
  BY DEF PathTable
<1>3. P \in PathsBetween(<<one, t>>) BY <1>1, <1>2
<1>4. P \subseteq Edges /\ Joins(P, {<<one, t>>[1], <<one, t>>[2]})
  BY <1>3 DEF PathsBetween
<1>5. (\A e \in P : price[e] # Barred) /\ (bounded => UNION P \subseteq Box(<<one, two>>))
  BY <1>1
<1>. QED BY <1>4, <1>5

(* A path to t and an edge on to u have a path to u in them. *)
LEMMA PathOneFurther ==
  ASSUME TypeOK, one \in Starts, NEW t \in Tiles, NEW u \in Tiles, NEW P \in UsablePaths(t),
         InBox(t), Reachable(t, u)
  PROVE  \E Q \in UsablePaths(u) : PathCost(Q) <= PathCost(P) + price[{t, u}]
<1> DEFINE N == P \cup {{t, u}}
<1>1. /\ P \subseteq Edges /\ Joins(P, {one, t})
      /\ \A e \in P : price[e] # Barred
      /\ bounded => UNION P \subseteq Box(<<one, two>>)
  BY PathShape
<1>2. {t, u} \in Edges /\ price[{t, u}] # Barred BY DEF Reachable
<1>3. Joins(N, {one, u})
  <2>. SUFFICES ASSUME NEW S \in SUBSET Tiles, {one, u} \cap S # {}, {one, u} \ S # {}
                PROVE  \E e \in N : e \cap S # {} /\ e \ S # {}
    BY DEF Joins
  <2>1. CASE t \in S <=> u \in S
    <3>1. {one, t} \cap S # {} /\ {one, t} \ S # {} BY <2>1
    <3>. QED BY <1>1, <3>1 DEF Joins
  <2>2. CASE ~(t \in S <=> u \in S)
    <3>1. {t, u} \cap S # {} /\ {t, u} \ S # {} BY <2>2
    <3>. QED BY <3>1
  <2>. QED BY <2>1, <2>2
<1>4. bounded => UNION N \subseteq Box(<<one, two>>) BY <1>1 DEF InBox, Reachable
<1>5. PICK Q \in UsablePaths(u) : Q \subseteq N
  <2>1. N \in SUBSET Edges /\ \A e \in N : price[e] # Barred BY <1>1, <1>2
  <2>. HIDE DEF N
  <2>. QED BY <1>3, <1>4, <2>1, PathWithin
<1>6. PathCost(Q) <= PathCost(N) /\ PathCost(Q) \in Nat /\ PathCost(N) \in Nat
  <2>1. N \subseteq Edges /\ Q \subseteq Edges BY <1>1, <1>2, <1>5
  <2>. QED BY <1>5, <2>1, UnitsFinite
<1>7. PathCost(N) <= PathCost(P) + price[{t, u}] BY <1>1, <1>2, CostOfOneMore
<1>8. PathCost(P) \in Nat /\ price[{t, u}] \in Nat BY <1>1, <1>2, UnitsFinite, PriceIsNat
<1>. QED BY <1>6, <1>7, <1>8

(***************************************************************************)
(* A path costs no less than what a potential gains along it, if the       *)
(* potential changes by no more than the price over each of its edges: for *)
(* every number up to the gain the path has an edge that passes it.        *)
(***************************************************************************)
LEMMA PotentialBound ==
  ASSUME TypeOK, NEW t \in Tiles, NEW P \in SUBSET Edges, Joins(P, {one, t}),
         NEW pot \in [Tiles -> Int], NEW C \in Nat, pot[one] = 0, pot[t] = C,
         \A u, v \in Tiles : {u, v} \in P => pot[v] - pot[u] <= price[{u, v}]
  PROVE  C <= PathCost(P)
<1> DEFINE Passes(e, k) == \E u, v \in Tiles : e = {u, v} /\ pot[u] < k /\ k <= pot[v]
           IsLow(l, e) == (\E x \in e : l = pot[x]) /\ \A x \in e : l <= pot[x]
           Low(e) == CHOOSE l \in Int : IsLow(l, e)
           Passed(k) == CHOOSE e \in P : Passes(e, k)
           f == [k \in 1..C |-> <<Passed(k), k - Low(Passed(k))>>]
<1>1. ASSUME NEW k \in 1..C PROVE Passed(k) \in P /\ Passes(Passed(k), k)
  <2> DEFINE S == {x \in Tiles : pot[x] < k}
  <2>1. one \in S /\ t \notin S BY DEF TypeOK
  <2>2. PICK e \in P : e \cap S # {} /\ e \ S # {}
    <3>1. S \in SUBSET Tiles /\ {one, t} \cap S # {} /\ {one, t} \ S # {} BY <2>1
    <3>. HIDE DEF S
    <3>. QED BY <3>1 DEF Joins
  <2>3. PICK u \in e \cap S, v \in e \ S : TRUE BY <2>2
  <2>4. PICK a, b \in Tiles : e = {a, b} BY EdgeEnds
  <2>5. u \in Tiles /\ v \in Tiles /\ e = {u, v} BY <2>3, <2>4
  <2>6. pot[u] < k /\ k <= pot[v] BY <2>3, <2>5
  <2>7. Passes(e, k) BY <2>5, <2>6
  <2>. HIDE DEF Passes
  <2>. QED BY <2>7
<1>2. ASSUME NEW k \in 1..C, NEW e \in P, Passes(e, k)
      PROVE  Low(e) \in Int /\ k - Low(e) \in 1..price[e]
  <2>1. PICK u, v \in Tiles : e = {u, v} /\ pot[u] < k /\ k <= pot[v] BY <1>2
  <2>2. pot[u] \in Int /\ pot[v] \in Int /\ pot[v] - pot[u] <= price[e] BY <2>1
  <2>3. price[e] \in Nat BY PriceAssumption DEF TypeOK, epsilon, Barred
  <2>4. IsLow(pot[u], e) BY <2>1, <2>2
  <2>5. \A l \in Int : IsLow(l, e) => l = pot[u] BY <2>1, <2>2
  <2>6. Low(e) = pot[u]
    <3>. HIDE DEF IsLow
    <3>. QED BY <2>2, <2>4, <2>5
  <2>7. k \in Nat OBVIOUS
  <2>. HIDE DEF Low
  <2>. QED BY <2>1, <2>2, <2>3, <2>6, <2>7
<1>. HIDE DEF Passes, Low, Passed
<1>3. f \in [1..C -> Units(P)]
  <2>. SUFFICES ASSUME NEW k \in 1..C PROVE <<Passed(k), k - Low(Passed(k))>> \in Units(P)
    OBVIOUS
  <2>1. Passed(k) \in P /\ k - Low(Passed(k)) \in 1..price[Passed(k)] BY <1>1, <1>2
  <2>. QED BY <2>1 DEF Units
<1>4. \A j, k \in 1..C : f[j] = f[k] => j = k
  <2>. SUFFICES ASSUME NEW j \in 1..C, NEW k \in 1..C, f[j] = f[k] PROVE j = k OBVIOUS
  <2>1. Low(Passed(j)) \in Int BY <1>1, <1>2
  <2>2. Passed(j) = Passed(k) /\ j - Low(Passed(j)) = k - Low(Passed(k)) OBVIOUS
  <2>3. j - Low(Passed(j)) = k - Low(Passed(j)) BY <2>2
  <2>. QED BY <2>1, <2>3
<1>. HIDE DEF f
<1>5. f \in Injection(1..C, Units(P)) BY <1>3, <1>4 DEF Injection, IsInjective
<1>6. IsFiniteSet(Units(P)) BY UnitsFinite
<1>7. Cardinality(1..C) <= Cardinality(Units(P)) BY <1>5, <1>6, FS_Injection
<1>8. Cardinality(1..C) = C
  <2>1. Cardinality(1..C) = IF 1 > C THEN 0 ELSE C - 1 + 1 BY FS_Interval
  <2>. QED BY <2>1
<1>. QED BY <1>7, <1>8 DEF PathCost

(***************************************************************************)
(* The invariant is kept.                                                  *)
(***************************************************************************)
LEMMA SameProblem ==
  ASSUME UNCHANGED problem
  PROVE  /\ \A u : LowerBound(u)' = LowerBound(u) /\ InBox(u)' = InBox(u)
         /\ \A u, v : Reachable(u, v)' = Reachable(u, v)
         /\ \A u : UsablePaths(u)' = UsablePaths(u)
         /\ \A P : PathCost(P)' = PathCost(P)
BY DEF problem, LowerBound, ExactManhattan, LBManhattan, InBox, Reachable, UsablePaths,
       PathCost, Units

(* The queue and the costs behind a pass that goes on from t. *)
LEMMA RelaxEffect ==
  ASSUME IInv, NEW t \in queue, Relax(t)
  PROVE  /\ t \in Tiles /\ t \in Known /\ t \notin done
         /\ Improved(t) \subseteq Tiles /\ Improved(t) \cap (done \cup {t}) = {}
         /\ one \notin Improved(t)
         /\ queue' = (queue \ {t}) \cup Improved(t)
         /\ \A u \in Improved(t) : /\ Reachable(t, u) /\ CostVia(t, u) \in Nat
                                   /\ actualCost'[u] = CostVia(t, u)
                                   /\ totalCost'[u] = CostVia(t, u) + LowerBound(u)
         /\ \A u \in Known \ Improved(t) : /\ actualCost'[u] = actualCost[u]
                                           /\ totalCost'[u] = totalCost[u]
<1> DEFINE S == Improved(t)
<1>1. TypeOK /\ FirstTileFirst BY DEF IInv
<1>2. /\ S \subseteq Tiles /\ S \cap (done \cup {t}) = {} /\ one \notin S
      /\ \A u \in S : Reachable(t, u) /\ CostVia(t, u) \in Nat
  BY <1>1, ImprovedTiles
<1>3. t \in Tiles /\ t \in Known /\ t \notin done BY <1>1 DEF TypeOK, Known
<1>4. /\ queue' = (queue \ {t}) \cup S
      /\ totalCost' = [u \in DOMAIN totalCost \cup S |->
                         IF u \in S THEN CostVia(t, u) + LowerBound(u) ELSE totalCost[u]]
      /\ actualCost' = [u \in DOMAIN actualCost \cup S |->
                          IF u \in S THEN CostVia(t, u) ELSE actualCost[u]]
  BY DEF Relax, Update
<1>5. DOMAIN totalCost = Known /\ DOMAIN actualCost = Known BY <1>1 DEF TypeOK
<1>. HIDE DEF S
<1>6. \A u \in S : /\ actualCost'[u] = CostVia(t, u)
                   /\ totalCost'[u] = CostVia(t, u) + LowerBound(u)
  BY <1>4, <1>5
<1>7. \A u \in Known \ S : actualCost'[u] = actualCost[u] /\ totalCost'[u] = totalCost[u]
  BY <1>4, <1>5
<1>. QED BY <1>2, <1>3, <1>4, <1>6, <1>7 DEF S

(* The types of what the arithmetic below is about. *)
LEMMA CostTypes ==
  ASSUME IInv
  PROVE  /\ one \in Tiles /\ two \in Tiles /\ Known \subseteq Tiles /\ one \in Known
         /\ \A u \in Tiles : LowerBound(u) \in Nat
         /\ \A u \in Known : actualCost[u] \in Nat /\ totalCost[u] \in Nat
BY LowerBoundType DEF IInv, TypeOK, FirstTileFirst, Known

(* A tile that is made cheaper does not come before what is done with. *)
LEMMA NewCosts ==
  ASSUME CheapestInv, NEW t \in queue, Relax(t), NEW u \in Improved(t)
  PROVE  /\ totalCost[t] <= totalCost'[u]
         /\ u \in Known => /\ actualCost'[u] <= actualCost[u]
                           /\ totalCost'[u] <= totalCost[u]
<1>1. IInv /\ TypeOK /\ EstimateAdded BY DEF CheapestInv, IInv
<1>2. /\ t \in Tiles /\ t \in Known /\ u \in Tiles /\ u # one
      /\ Reachable(t, u) /\ CostVia(t, u) \in Nat
      /\ actualCost'[u] = CostVia(t, u)
      /\ totalCost'[u] = CostVia(t, u) + LowerBound(u)
  BY <1>1, RelaxEffect
<1>3. /\ LowerBound(u) \in Nat /\ LowerBound(t) \in Nat
      /\ actualCost[t] \in Nat /\ totalCost[t] \in Nat
      /\ (u \in Known => actualCost[u] \in Nat /\ totalCost[u] \in Nat)
  BY <1>1, <1>2, CostTypes
<1>4. price[{t, u}] \in Nat /\ LowerBound(t) <= LowerBound(u) + price[{t, u}]
  BY <1>1, <1>2, EstimateConsistent DEF Reachable
<1>5. CostVia(t, u) = actualCost[t] + price[{t, u}] BY DEF CostVia
<1>6. totalCost[t] <= actualCost[t] + LowerBound(t) BY <1>1, <1>2, <1>3 DEF EstimateAdded
<1>7. totalCost[t] <= totalCost'[u] BY <1>2, <1>3, <1>4, <1>5, <1>6
<1>8. ASSUME u \in Known PROVE actualCost'[u] <= actualCost[u] /\ totalCost'[u] <= totalCost[u]
  <2>1. CostVia(t, u) + LowerBound(u) < totalCost[u] BY <1>8 DEF Improved
  <2>2. totalCost[u] = actualCost[u] + LowerBound(u) BY <1>1, <1>2, <1>8 DEF EstimateAdded
  <2>. QED BY <1>2, <1>3, <1>8, <2>1, <2>2
<1>. QED BY <1>7, <1>8

LEMMA RelaxEstimates ==
  ASSUME CheapestInv, UNCHANGED problem, NEW t \in queue, Relax(t), done' = done \cup {t}
  PROVE  EstimateAdded' /\ Known' = Known \cup Improved(t)
<1>1. IInv /\ EstimateAdded BY DEF CheapestInv
<1>2. Known' = Known \cup Improved(t) BY <1>1, RelaxEffect DEF Known
<1>3. one \in Known BY <1>1, CostTypes
<1>4. actualCost'[one] = actualCost[one] /\ totalCost'[one] = totalCost[one] /\ one' = one
  BY <1>1, <1>3, RelaxEffect DEF problem
<1>5. ASSUME NEW u \in Known' \ {one}
      PROVE  totalCost'[u] = actualCost'[u] + LowerBound(u)
  <2>1. CASE u \in Improved(t) BY <1>1, <2>1, RelaxEffect
  <2>2. CASE u \notin Improved(t)
    <3>1. u \in Known BY <1>2, <2>2
    <3>. QED BY <1>1, <1>5, <2>2, <3>1, RelaxEffect DEF EstimateAdded
  <2>. QED BY <2>1, <2>2
<1>. QED BY <1>1, <1>2, <1>4, <1>5, SameProblem DEF EstimateAdded

LEMMA RelaxOrder ==
  ASSUME CheapestInv, UNCHANGED problem, NEW t \in queue, IsBest(t), Relax(t),
         done' = done \cup {t}, two \notin done'
  PROVE  LeastFirst'
<1>1. IInv /\ LeastFirst BY DEF CheapestInv
<1>2. /\ t \notin done /\ queue' = (queue \ {t}) \cup Improved(t)
      /\ Improved(t) \cap (done \cup {t}) = {}
      /\ \A u \in Known \ Improved(t) : totalCost'[u] = totalCost[u]
  BY <1>1, RelaxEffect
<1>3. \A u \in Known : totalCost[u] \in Nat BY <1>1, CostTypes
<1>. SUFFICES ASSUME NEW d \in done', NEW u \in queue'
              PROVE  totalCost'[d] <= totalCost'[u]
  BY DEF LeastFirst, problem
<1>4. d \in Known /\ t \in Known BY DEF Known
<1>5. totalCost'[d] = totalCost[d] BY <1>2, <1>4
<1>6. totalCost[d] <= totalCost[t] BY <1>1, <1>3, <1>4 DEF LeastFirst
<1>7. totalCost[t] <= totalCost'[u]
  <2>1. CASE u \in Improved(t) BY <2>1, NewCosts
  <2>2. CASE u \notin Improved(t)
    <3>1. u \in queue BY <1>2, <2>2
    <3>. QED BY <1>2, <2>2, <3>1 DEF IsBest, Known
  <2>. QED BY <2>1, <2>2
<1>8. totalCost'[u] \in Nat
  <2>1. CASE u \in Improved(t)
    <3>1. u \in Tiles /\ CostVia(t, u) \in Nat /\ totalCost'[u] = CostVia(t, u) + LowerBound(u)
      BY <1>1, <2>1, RelaxEffect
    <3>. QED BY <1>1, <3>1, CostTypes
  <2>2. CASE u \notin Improved(t)
    <3>1. u \in Known BY <1>2, <2>2 DEF Known
    <3>. QED BY <1>2, <1>3, <2>2, <3>1
  <2>. QED BY <2>1, <2>2
<1>. QED BY <1>3, <1>4, <1>5, <1>6, <1>7, <1>8

LEMMA RelaxNeighbours ==
  ASSUME CheapestInv, UNCHANGED problem, NEW t \in queue, Relax(t), done' = done \cup {t}
  PROVE  NeighboursSeen'
<1>1. IInv /\ TypeOK /\ EstimateAdded /\ LeastFirst /\ NeighboursSeen
  BY DEF CheapestInv, IInv
<1>2. Known' = Known \cup Improved(t) BY RelaxEstimates
<1>3. /\ t \in Tiles /\ t \in Known /\ t \notin done
      /\ Improved(t) \cap (done \cup {t}) = {}
      /\ \A u \in Known \ Improved(t) : actualCost'[u] = actualCost[u]
      /\ \A u \in Improved(t) : actualCost'[u] = CostVia(t, u)
  BY <1>1, RelaxEffect
<1>. SUFFICES ASSUME NEW d \in done' \ {two}, NEW u \in Tiles, Reachable(d, u)
              PROVE  u \in Known' /\ actualCost'[u] <= actualCost'[d] + price[{d, u}]
  BY SameProblem DEF NeighboursSeen, CostVia, problem
<1>4. d \in Known /\ d \in Tiles BY <1>1, <1>3, CostTypes DEF Known
<1>5. actualCost'[d] = actualCost[d] BY <1>3, <1>4
<1>6. CostVia(d, u) = actualCost[d] + price[{d, u}] BY DEF CostVia
<1>7. /\ price[{d, u}] \in Nat /\ actualCost[d] \in Nat /\ LowerBound(u) \in Nat
      /\ LowerBound(d) \in Nat /\ totalCost[d] \in Nat
      /\ LowerBound(d) <= LowerBound(u) + price[{d, u}]
  <2>1. {d, u} \in Edges /\ price[{d, u}] # Barred BY DEF Reachable
  <2>. QED BY <1>1, <1>4, <2>1, EstimateConsistent, CostTypes
<1>8. ASSUME u \in Known PROVE actualCost[u] \in Nat /\ totalCost[u] \in Nat
  BY <1>1, <1>8, CostTypes
<1>9. CASE d \in done
  <2>1. u \in Known /\ actualCost[u] <= CostVia(d, u) BY <1>1, <1>9 DEF NeighboursSeen
  <2>2. CASE u \in Improved(t)
    <3>1. actualCost'[u] <= actualCost[u] BY <2>1, <2>2, NewCosts
    <3>2. actualCost'[u] \in Nat BY <1>1, <2>2, RelaxEffect
    <3>. QED BY <1>2, <1>5, <1>6, <1>7, <1>8, <2>1, <3>1, <3>2
  <2>3. CASE u \notin Improved(t)
    BY <1>2, <1>3, <1>5, <1>6, <2>1, <2>3
  <2>. QED BY <2>2, <2>3
<1>10. CASE d = t
  <2>1. u # t
    <3>1. PICK a, b \in Tiles : {d, u} = {a, b} /\ a # b BY EdgeEnds DEF Reachable
    <3>. QED BY <1>10, <3>1
  <2>2. CASE u \in Improved(t)
    BY <1>2, <1>3, <1>5, <1>6, <1>7, <1>10, <2>2
  <2>3. CASE u \in done
    <3>1. u \in Known /\ u \notin Improved(t) BY <1>3, <2>3 DEF Known
    <3>2. actualCost'[u] = actualCost[u] BY <1>3, <3>1
    <3>3. CASE u = one
      BY <1>1, <1>2, <1>5, <1>7, <3>1, <3>2, <3>3 DEF EstimateAdded
    <3>4. CASE u # one
      <4>1. totalCost[u] = actualCost[u] + LowerBound(u) BY <1>1, <3>1, <3>4 DEF EstimateAdded
      <4>2. totalCost[t] <= actualCost[t] + LowerBound(t)
        BY <1>1, <1>3, <1>7, <1>10 DEF EstimateAdded
      <4>3. totalCost[u] <= totalCost[t] BY <1>1, <2>3 DEF LeastFirst
      <4>. QED BY <1>2, <1>5, <1>7, <1>8, <1>10, <3>1, <3>2, <4>1, <4>2, <4>3
    <3>. QED BY <3>3, <3>4
  <2>4. CASE u \notin Improved(t) /\ u \notin done
    <3>1. u \in Neighbours(t) BY <1>10, <2>1, <2>4 DEF Neighbours
    <3>2. u \in Known /\ ~(CostVia(t, u) + LowerBound(u) < totalCost[u])
      BY <2>4, <3>1 DEF Improved
    <3>3. u # one
      <4>1. one \in done \cup {t} BY <1>1 DEF IInv, FirstTileFirst, Known
      <4>. QED BY <2>1, <2>4, <4>1
    <3>4. totalCost[u] = actualCost[u] + LowerBound(u) BY <1>1, <3>2, <3>3 DEF EstimateAdded
    <3>5. actualCost[u] <= CostVia(t, u) BY <1>6, <1>7, <1>8, <1>10, <3>2, <3>4
    <3>. QED BY <1>2, <1>3, <1>5, <1>6, <1>10, <2>4, <3>2, <3>5
  <2>. QED BY <2>2, <2>3, <2>4
<1>. QED BY <1>9, <1>10

LEMMA RelaxPaths ==
  ASSUME CheapestInv, UNCHANGED problem, NEW t \in queue, Relax(t), done' = done \cup {t}
  PROVE  PathsBehindCosts'
<1>1. IInv /\ TypeOK /\ EstimateAdded /\ PathsBehindCosts BY DEF CheapestInv, IInv
<1>2. Known' = Known \cup Improved(t) BY RelaxEstimates
<1>. SUFFICES ASSUME NEW u \in Known'
              PROVE  InBox(u) /\ \E P \in UsablePaths(u) : PathCost(P) <= actualCost'[u]
  BY SameProblem DEF PathsBehindCosts
<1>3. CASE u \in Improved(t)
  <2>1. /\ t \in Tiles /\ t \in Known /\ u \in Tiles
        /\ Reachable(t, u) /\ actualCost'[u] = actualCost[t] + price[{t, u}]
    BY <1>1, <1>3, RelaxEffect DEF CostVia
  <2>2. InBox(t) /\ InBox(u) BY <1>1, <2>1 DEF PathsBehindCosts, Reachable
  <2>3. PICK P \in UsablePaths(t) : PathCost(P) <= actualCost[t]
    BY <1>1, <2>1 DEF PathsBehindCosts
  <2>4. PICK Q \in UsablePaths(u) : PathCost(Q) <= PathCost(P) + price[{t, u}]
    BY <1>1, <2>1, <2>2, PathOneFurther DEF EstimateAdded
  <2>5. P \subseteq Edges /\ Q \subseteq Edges BY <2>1, PathShape
  <2>6. PathCost(P) \in Nat /\ PathCost(Q) \in Nat BY <1>1, <2>5, UnitsFinite
  <2>7. price[{t, u}] \in Nat BY <1>1, <2>1, PriceIsNat DEF Reachable
  <2>8. actualCost[t] \in Nat BY <1>1, <2>1, CostTypes
  <2>9. PathCost(Q) <= actualCost'[u] BY <2>1, <2>3, <2>4, <2>6, <2>7, <2>8
  <2>. QED BY <2>2, <2>9
<1>4. CASE u \notin Improved(t)
  <2>1. u \in Known BY <1>2, <1>4
  <2>2. actualCost'[u] = actualCost[u] BY <1>1, <1>4, <2>1, RelaxEffect
  <2>. QED BY <1>1, <2>1, <2>2 DEF PathsBehindCosts
<1>. QED BY <1>3, <1>4

LEMMA ArriveCheapest ==
  ASSUME CheapestInv, UNCHANGED problem, IsBest(two), done' = done \cup {two},
         queue' = queue \ {two}, UNCHANGED <<totalCost, actualCost, parent>>
  PROVE  EstimateAdded' /\ LeastFirst' /\ NeighboursSeen' /\ PathsBehindCosts'
<1>1. EstimateAdded /\ LeastFirst /\ NeighboursSeen /\ PathsBehindCosts BY DEF CheapestInv
<1>2. Known' = Known /\ one' = one /\ two' = two /\ price' = price
  BY DEF Known, problem, IsBest
<1>3. EstimateAdded' BY <1>1, <1>2, SameProblem DEF EstimateAdded
<1>4. LeastFirst'
  <2>1. two \in queue BY DEF IsBest
  <2>2. totalCost[two] \in Nat BY <2>1, CostTypes DEF CheapestInv, Known
  <2>. QED BY <1>1, <1>2, <2>1, <2>2 DEF LeastFirst, IsBest
<1>5. NeighboursSeen' BY <1>1, <1>2, SameProblem DEF NeighboursSeen, CostVia
<1>6. PathsBehindCosts' BY <1>1, <1>2, SameProblem DEF PathsBehindCosts
<1>. QED BY <1>3, <1>4, <1>5, <1>6

LEMMA CheapestStep == CheapestInv /\ [Next]_vars => CheapestInv'
<1>1. ASSUME CheapestInv, Expand PROVE CheapestInv'
  <2>1. PICK t \in queue :
          /\ IsBest(t) /\ done' = done \cup {t}
          /\ IF t = two
               THEN queue' = queue \ {t} /\ UNCHANGED <<totalCost, actualCost, parent>>
               ELSE Relax(t)
    BY <1>1 DEF Expand
  <2>2. UNCHANGED problem /\ (searching' <=> queue' # {} /\ two \notin done') /\ two' = two
    BY <1>1 DEF Expand, problem
  <2>3. IInv' BY <1>1, StepInv DEF CheapestInv, Next
  <2>4. StopsInTime' BY <2>2 DEF StopsInTime
  <2>5. EstimateAdded' /\ LeastFirst' /\ NeighboursSeen' /\ PathsBehindCosts'
    <3>1. CASE t = two BY <1>1, <2>1, <2>2, <3>1, ArriveCheapest
    <3>2. CASE t # two
      <4>1. Relax(t) /\ two \notin done' BY <1>1, <2>1, <3>2 DEF Expand
      <4>. QED BY <1>1, <2>1, <2>2, <4>1, RelaxEstimates, RelaxOrder, RelaxNeighbours, RelaxPaths
    <3>. QED BY <3>1, <3>2
  <2>. QED BY <2>3, <2>4, <2>5 DEF CheapestInv
<1>2. ASSUME CheapestInv, UNCHANGED vars PROVE CheapestInv'
  <2>1. IInv' BY <1>2, StepInv DEF CheapestInv
  <2>2. UNCHANGED problem /\ Known' = Known BY <1>2 DEF vars, problem, Known
  <2>3. EstimateAdded' /\ PathsBehindCosts' /\ NeighboursSeen'
    BY <1>2, <2>2, SameProblem
    DEF CheapestInv, vars, EstimateAdded, PathsBehindCosts, NeighboursSeen, CostVia
  <2>4. LeastFirst' /\ StopsInTime'
    BY <1>2 DEF CheapestInv, vars, LeastFirst, StopsInTime
  <2>. QED BY <2>1, <2>3, <2>4 DEF CheapestInv
<1>. QED BY <1>1, <1>2 DEF Next

LEMMA CheapestInit == Init => CheapestInv
<1>. SUFFICES ASSUME Init PROVE CheapestInv OBVIOUS
<1>1. IInv /\ TypeOK BY InitInv DEF IInv
<1>2. Known = {one} /\ done = {} /\ one \in Starts /\ searching = TRUE
      /\ actualCost[one] = 0 /\ totalCost[one] = 0
  BY DEF Init, Known
<1>3. EstimateAdded /\ LeastFirst /\ NeighboursSeen /\ StopsInTime
  BY <1>2 DEF EstimateAdded, LeastFirst, NeighboursSeen, StopsInTime
<1>4. InBox(one)
  <2>1. one \in Tiles /\ two \in Tiles BY <1>1, CostTypes
  <2>2. one[1] \in Int /\ one[2] \in Int BY <2>1, SizeAssumption DEF Tiles
  <2>3. Distance(<<one, one>>) = 0 BY <2>2 DEF Distance, Width, Height, Abs
  <2>4. Distance(<<one, two>>) \in Nat BY <2>1, DistanceType
  <2>. QED BY <2>1, <2>3, <2>4 DEF InBox, Box
<1>5. \E P \in UsablePaths(one) : PathCost(P) <= 0
  <2>1. Joins({}, {one, one}) BY DEF Joins
  <2>2. \E Q \in UsablePaths(one) : Q \subseteq {}
    <3>1. one \in Tiles BY <1>1, CostTypes
    <3>. QED BY <1>1, <1>2, <2>1, <3>1, PathWithin
  <2>3. PathCost({}) = 0 BY FS_EmptySet DEF PathCost, Units
  <2>. QED BY <2>2, <2>3
<1>6. PathsBehindCosts BY <1>2, <1>4, <1>5 DEF PathsBehindCosts
<1>. QED BY <1>1, <1>3, <1>6 DEF CheapestInv

(***************************************************************************)
(* What the invariant says of the end of the search.  No path is cheaper   *)
(* than the one found: the costs of the tiles that are done with, and for  *)
(* the others what the estimate leaves of the cost of the second tile, are *)
(* a potential that gains that cost from the first tile to the second.     *)
(***************************************************************************)
LEMMA NoCheaperPath ==
  ASSUME CheapestInv, two \in done, one # two, NEW P \in UsablePaths(two)
  PROVE  actualCost[two] <= PathCost(P)
<1> DEFINE C == actualCost[two]
           Left(t) == IF LowerBound(t) <= C THEN C - LowerBound(t) ELSE 0
           pot == [t \in Tiles |-> IF t \in done THEN actualCost[t] ELSE Left(t)]
<1>1. /\ IInv /\ TypeOK /\ FirstTileFirst
      /\ EstimateAdded /\ LeastFirst /\ NeighboursSeen
  BY DEF CheapestInv, IInv
<1>2. two \in Known /\ one \in Known /\ one \in Tiles /\ two \in Tiles /\ C \in Nat
  BY <1>1, CostTypes DEF Known
<1>3. /\ P \subseteq Edges /\ Joins(P, {one, two})
      /\ \A e \in P : price[e] # Barred
      /\ bounded => UNION P \subseteq Box(<<one, two>>)
  BY <1>2, PathShape
<1>4. one \in done BY <1>1 DEF FirstTileFirst, Known
<1>5. pot[one] = 0 /\ pot[two] = C BY <1>1, <1>2, <1>4 DEF EstimateAdded
<1>6. \A t \in done : t \in Known /\ t \in Tiles /\ actualCost[t] \in Nat
  BY <1>1, CostTypes DEF Known
<1>7. \A t \in Tiles : LowerBound(t) \in Nat BY <1>1, CostTypes
<1>8. pot \in [Tiles -> Int] BY <1>1, <1>2, <1>6, <1>7
<1>9. totalCost[two] = C
  <2>1. LowerBound(two) = 0 BY <1>2, NothingLeftAtTwo
  <2>. QED BY <1>1, <1>2, <2>1 DEF EstimateAdded
<1>10. ASSUME NEW t \in done, t # one PROVE actualCost[t] <= C - LowerBound(t)
  <2>1. totalCost[t] <= C BY <1>1, <1>9, <1>10 DEF LeastFirst
  <2>2. totalCost[t] = actualCost[t] + LowerBound(t) BY <1>1, <1>6, <1>10 DEF EstimateAdded
  <2>. QED BY <1>2, <1>6, <1>7, <1>10, <2>1, <2>2
<1>11. ASSUME NEW t \in Tiles \ done, t \in Known PROVE Left(t) <= actualCost[t]
  <2>1. t \in queue /\ t # one BY <1>4, <1>11 DEF Known
  <2>2. C <= totalCost[t] BY <1>1, <1>9, <2>1 DEF LeastFirst
  <2>3. totalCost[t] = actualCost[t] + LowerBound(t) BY <1>1, <1>11, <2>1 DEF EstimateAdded
  <2>4. actualCost[t] \in Nat BY <1>1, <1>11, CostTypes
  <2>. QED BY <1>2, <1>7, <2>2, <2>3, <2>4
<1>12. ASSUME NEW u \in Tiles, NEW v \in Tiles, {u, v} \in P
       PROVE  /\ Reachable(u, v) /\ Reachable(v, u) /\ price[{u, v}] \in Nat
              /\ LowerBound(u) <= LowerBound(v) + price[{u, v}]
              /\ LowerBound(v) <= LowerBound(u) + price[{u, v}]
  <2>1. {u, v} \in Edges /\ {v, u} \in Edges /\ price[{u, v}] # Barred /\ price[{v, u}] # Barred
    <3>1. {v, u} = {u, v} OBVIOUS
    <3>. QED BY <1>3, <1>12, <3>1
  <2>2. InBox(u) /\ InBox(v)
    <3>1. u \in UNION P /\ v \in UNION P BY <1>12
    <3>. QED BY <1>3, <3>1 DEF InBox
  <2>3. Reachable(u, v) /\ Reachable(v, u) BY <2>1, <2>2 DEF Reachable
  <2>. QED BY <1>1, <2>1, <2>3, EstimateConsistent
<1>13. ASSUME NEW u \in Tiles, NEW v \in Tiles, {u, v} \in P
       PROVE  pot[v] - pot[u] <= price[{u, v}]
  <2>1. /\ Reachable(u, v) /\ price[{u, v}] \in Nat
        /\ LowerBound(u) <= LowerBound(v) + price[{u, v}]
    BY <1>12, <1>13
  <2>2. LowerBound(u) \in Nat /\ LowerBound(v) \in Nat BY <1>7
  <2>3. u \in done \ {two} => v \in Known /\ actualCost[v] <= actualCost[u] + price[{u, v}]
    BY <1>1, <2>1 DEF NeighboursSeen, CostVia
  <2>4. u \in done => pot[u] = actualCost[u] /\ actualCost[u] \in Nat BY <1>6
  <2>5. v \in done => pot[v] = actualCost[v] /\ actualCost[v] \in Nat BY <1>6
  <2>6. u \notin done => pot[u] = Left(u) OBVIOUS
  <2>7. v \notin done => pot[v] = Left(v) OBVIOUS
  <2>8. CASE u \in done \ {two} /\ v \in done
    <3>. HIDE DEF pot
    <3>. QED BY <2>1, <2>3, <2>4, <2>5, <2>8
  <2>9. CASE u \in done \ {two} /\ v \notin done
    <3>1. Left(v) <= actualCost[v] BY <1>11, <2>3, <2>9
    <3>2. Left(v) \in Nat BY <1>2, <2>2
    <3>3. actualCost[v] \in Nat BY <1>1, <2>3, <2>9, CostTypes
    <3>. HIDE DEF pot, Left
    <3>. QED BY <2>1, <2>3, <2>4, <2>7, <2>9, <3>1, <3>2, <3>3
  <2>10. CASE u = two
    <3>1. pot[v] <= C
      <4>1. CASE v \in done /\ v # one
        BY <1>2, <1>10, <2>2, <2>5, <4>1
      <4>2. CASE v = one BY <1>2, <1>5, <4>2
      <4>3. CASE v \notin done BY <1>2, <2>2, <2>7, <4>3
      <4>. QED BY <4>1, <4>2, <4>3
    <3>2. pot[v] \in Int /\ pot[u] = C BY <1>5, <1>8, <2>10
    <3>. HIDE DEF pot
    <3>. QED BY <1>2, <2>1, <3>1, <3>2
  <2>11. CASE u \notin done /\ v \in done
    <3>1. v = one \/ actualCost[v] <= C - LowerBound(v) BY <1>10, <2>11
    <3>2. pot[one] = 0 BY <1>5
    <3>3. Left(u) \in Nat BY <1>2, <2>2
    <3>4. CASE v = one
      <4>. HIDE DEF pot, Left
      <4>. QED BY <2>1, <2>6, <2>11, <3>2, <3>3, <3>4
    <3>5. CASE actualCost[v] <= C - LowerBound(v)
      <4>1. C - LowerBound(u) <= Left(u) BY <1>2, <2>2
      <4>. HIDE DEF pot, Left
      <4>. QED BY <1>2, <2>1, <2>2, <2>5, <2>6, <2>11, <3>3, <3>5, <4>1
    <3>. QED BY <3>1, <3>4, <3>5
  <2>12. CASE u \notin done /\ v \notin done
    <3>1. Left(v) - Left(u) <= price[{u, v}] BY <1>2, <2>1, <2>2
    <3>. HIDE DEF Left
    <3>. QED BY <2>6, <2>7, <2>12, <3>1
  <2>. QED BY <2>8, <2>9, <2>10, <2>11, <2>12
<1>. HIDE DEF pot, C
<1>. QED BY <1>1, <1>2, <1>3, <1>5, <1>8, <1>13, PotentialBound DEF C

LEMMA NoPathMissed ==
  ASSUME CheapestInv, ~searching, two \notin Known
  PROVE  UsablePaths(two) = {}
<1>. SUFFICES ASSUME NEW P \in UsablePaths(two) PROVE FALSE OBVIOUS
<1>1. IInv /\ NeighboursSeen /\ StopsInTime BY DEF CheapestInv
<1>2. queue = {} /\ Known = done BY <1>1 DEF StopsInTime, Known
<1>3. one \in Known /\ two \in Tiles /\ Known \subseteq Tiles BY <1>1, CostTypes
<1>4. /\ P \subseteq Edges /\ Joins(P, {one, two})
      /\ \A e \in P : price[e] # Barred
      /\ bounded => UNION P \subseteq Box(<<one, two>>)
  BY <1>3, PathShape
<1>5. PICK e \in P : e \cap Known # {} /\ e \ Known # {}
  <2>1. {one, two} \cap Known # {} /\ {one, two} \ Known # {} BY <1>3
  <2>. QED BY <1>3, <1>4, <2>1 DEF Joins
<1>6. PICK u \in e \cap Known, v \in e \ Known : TRUE BY <1>5
<1>7. e \in Edges /\ price[e] # Barred BY <1>4
<1>8. PICK a, b \in Tiles : e = {a, b} BY <1>7, EdgeEnds
<1>9. u \in Tiles /\ v \in Tiles /\ e = {u, v} BY <1>6, <1>8
<1>10. InBox(v)
  <2>1. v \in UNION P BY <1>6
  <2>. QED BY <1>4, <2>1 DEF InBox
<1>11. Reachable(u, v) BY <1>7, <1>9, <1>10 DEF Reachable
<1>12. u \in done \ {two} BY <1>2, <1>6
<1>. QED BY <1>1, <1>6, <1>9, <1>11, <1>12 DEF NeighboursSeen

LEMMA CheapestAtEnd == CheapestInv /\ one # two => FindsCheapestRoute
<1>. SUFFICES ASSUME CheapestInv, one # two, ~searching
              PROVE  IF two \in Known
                       THEN actualCost[two] = Min({PathCost(P) : P \in UsablePaths(two)})
                       ELSE UsablePaths(two) = {}
  BY DEF FindsCheapestRoute
<1>1. CASE two \in Known
  <2> DEFINE S == {PathCost(P) : P \in UsablePaths(two)}
             C == actualCost[two]
  <2>1. IInv /\ TypeOK /\ PathsBehindCosts /\ StopsInTime BY DEF CheapestInv, IInv
  <2>2. two \in done BY <1>1, <2>1 DEF StopsInTime, Known
  <2>3. C \in Nat /\ two \in Tiles BY <1>1, <2>1, CostTypes
  <2>4. \A P \in UsablePaths(two) : C <= PathCost(P) /\ PathCost(P) \in Nat
    <3>. SUFFICES ASSUME NEW P \in UsablePaths(two) PROVE C <= PathCost(P) /\ PathCost(P) \in Nat
      OBVIOUS
    <3>1. P \subseteq Edges BY <2>3, PathShape
    <3>. QED BY <2>1, <2>2, <3>1, NoCheaperPath, UnitsFinite
  <2>5. PICK P \in UsablePaths(two) : PathCost(P) <= C BY <1>1, <2>1 DEF PathsBehindCosts
  <2>6. C = PathCost(P) BY <2>3, <2>4, <2>5
  <2>7. C \in S /\ S \subseteq Nat /\ \A y \in S : C <= y BY <2>4, <2>6
  <2>8. \A x \in S : (\A y \in S : x <= y) => x = C
    <3>. HIDE DEF S, C
    <3>. QED BY <2>3, <2>7
  <2>9. Min(S) = C
    <3>. HIDE DEF S, C
    <3>. QED BY <2>7, <2>8 DEF Min
  <2>. QED BY <1>1, <2>9
<1>2. CASE two \notin Known BY <1>2, NoPathMissed
<1>. QED BY <1>1, <1>2

(***************************************************************************)
(* The search of routeMaze is exact: whatever the grid, the prices, the    *)
(* box and the ends, the route it leaves is a cheapest one, and it gives   *)
(* up only when there is none.  The estimate never asks too much, as long  *)
(* as no edge costs less than it assumes.                                  *)
(***************************************************************************)
THEOREM RouteIsCheapest == Spec => []FindsCheapestRoute
<1>1. Init => one # two BY DEF Init
<1>2. one # two /\ [Next]_vars => (one # two)' BY DEF Next, Expand, vars, problem
<1>3. Spec => [](CheapestInv /\ one # two)
  BY <1>1, <1>2, CheapestInit, CheapestStep, PTL DEF Spec
<1>. QED BY <1>3, CheapestAtEnd, PTL
================================================================================
