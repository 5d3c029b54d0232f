--------------------------- MODULE FGRRouter_proofs ---------------------------
(***************************************************************************)
(* Proofs that the routes of FGR's nets join their pins, and that the      *)
(* router never gives up a legal solution, but for the rebuilding of       *)
(* trees: for every grid, capacity, set of nets and limits of iterations.  *)
(***************************************************************************)
EXTENDS FGRRouter, FiniteSetTheorems, WellFoundedInduction, TLAPS

(***************************************************************************)
(* Numbers and the grid.                                                   *)
(***************************************************************************)
LEMMA LeastNumber ==
  ASSUME NEW K, K \subseteq Nat, K # {}
  PROVE  \E k \in K : \A j \in K : k <= j
<1> DEFINE R == StrictSubsetOrdering(Nat)
           F == {0..k : k \in K}
<1>1. IsWellFoundedOn(R, FiniteSubsetsOf(Nat)) BY FS_StrictSubsetOrderingWellFounded
<1>2. F \subseteq FiniteSubsetsOf(Nat)
  <2>. SUFFICES ASSUME NEW k \in K PROVE 0..k \in FiniteSubsetsOf(Nat) OBVIOUS
  <2>1. IsFiniteSet(0..k) BY FS_Interval
  <2>. QED BY <2>1 DEF FiniteSubsetsOf
<1>3. F # {} OBVIOUS
<1>. HIDE DEF R, F
<1>4. PICK x \in F : \A y \in F : <<y, x>> \notin R BY <1>1, <1>2, <1>3, WFMin
<1>. USE DEF R, F
<1>5. PICK k \in K : x = 0..k BY <1>4 DEF F
<1>6. ASSUME NEW j \in K PROVE k <= j
  <2>. SUFFICES ASSUME j < k PROVE FALSE OBVIOUS
  <2>1. 0..j \subseteq 0..k /\ 0..j # 0..k OBVIOUS
  <2>2. 0..j \in F OBVIOUS
  <2>3. 0..j \in SUBSET Nat /\ 0..k \in SUBSET Nat OBVIOUS
  <2>4. <<0..j, 0..k>> \in R BY <2>1, <2>3 DEF StrictSubsetOrdering
  <2>. QED BY <1>4, <1>5, <2>2, <2>4
<1>. QED BY <1>6

LEMMA GridFinite == IsFiniteSet(Tiles) /\ IsFiniteSet(Edges) /\ Edges \subseteq SUBSET Tiles
<1>1. XTiles - 1 \in Int /\ YTiles - 1 \in Int BY SizeAssumption
<1>2. IsFiniteSet(Tiles)
  <2>1. IsFiniteSet(0..XTiles-1) /\ IsFiniteSet(0..YTiles-1) BY <1>1, FS_Interval
  <2>. QED BY <2>1, FS_Product DEF Tiles
<1>3. Edges \subseteq SUBSET Tiles BY SizeAssumption DEF Edges, Tiles
<1>4. IsFiniteSet(SUBSET Tiles) BY <1>2, FS_SUBSET
<1>5. IsFiniteSet(Edges) BY <1>3, <1>4, FS_Subset
<1>. QED BY <1>2, <1>3, <1>5

(* An edge leads from every tile but the first to one nearer to it. *)
LEMMA EdgeTowardsOrigin ==
  ASSUME NEW t \in Tiles, t # <<0, 0>>
  PROVE  \E u \in Tiles : {u, t} \in Edges /\ u[1] + u[2] < t[1] + t[2]
<1>1. PICK x \in 0..XTiles-1, y \in 0..YTiles-1 : t = <<x, y>> BY DEF Tiles
<1>2. x \in Int /\ y \in Int /\ XTiles \in Int /\ YTiles \in Int BY SizeAssumption
<1>3. CASE x > 0
  <2> DEFINE u == <<x - 1, y>>
  <2>1. u \in (0..XTiles-2) \X (0..YTiles-1) BY <1>2, <1>3
  <2>2. <<u[1] + 1, u[2]>> = t BY <1>1, <1>2
  <2>3. {u, t} \in Edges BY <2>1, <2>2 DEF Edges
  <2>4. u \in Tiles BY <1>2, <2>1 DEF Tiles
  <2>5. u[1] + u[2] < t[1] + t[2] BY <1>1, <1>2
  <2>. QED BY <2>3, <2>4, <2>5
<1>4. CASE ~(x > 0)
  <2> DEFINE u == <<x, y - 1>>
  <2>1. x = 0 /\ y > 0 BY <1>1, <1>2, <1>4
  <2>2. u \in (0..XTiles-1) \X (0..YTiles-2) BY <1>2, <2>1
  <2>3. <<u[1], u[2] + 1>> = t BY <1>1, <1>2
  <2>4. {u, t} \in Edges BY <2>2, <2>3 DEF Edges
  <2>5. u \in Tiles BY <1>2, <2>2 DEF Tiles
  <2>6. u[1] + u[2] < t[1] + t[2] BY <1>1, <1>2
  <2>. QED BY <2>4, <2>5, <2>6
<1>. QED BY <1>3, <1>4

(* The grid hangs together. *)
LEMMA GridJoined == ASSUME NEW A, A \subseteq Tiles PROVE Joins(Edges, A)
<1>. SUFFICES ASSUME NEW S \in SUBSET Tiles, A \cap S # {}, A \ S # {},
                     \A e \in Edges : e \cap S = {} \/ e \ S = {}
              PROVE  FALSE
  BY DEF Joins
<1> DEFINE Apart == {t \in Tiles : ~(t \in S <=> <<0, 0>> \in S)}
           K == {t[1] + t[2] : t \in Apart}
<1>1. K \subseteq Nat BY SizeAssumption DEF Tiles
<1>2. Apart # {} OBVIOUS
<1>3. K # {} BY <1>2
<1>. HIDE DEF K
<1>4. PICK k \in K : \A j \in K : k <= j BY <1>1, <1>3, LeastNumber
<1>. USE DEF K
<1>5. PICK t \in Apart : k = t[1] + t[2] BY <1>4
<1>6. t \in Tiles /\ t # <<0, 0>> BY <1>5
<1>7. PICK u \in Tiles : {u, t} \in Edges /\ u[1] + u[2] < t[1] + t[2]
  BY <1>6, EdgeTowardsOrigin
<1>8. u \notin Apart
  <2>. SUFFICES ASSUME u \in Apart PROVE FALSE OBVIOUS
  <2>1. u[1] + u[2] \in K OBVIOUS
  <2>2. k <= u[1] + u[2] BY <1>4, <2>1
  <2>3. u[1] + u[2] \in Nat /\ t[1] + t[2] \in Nat BY <1>1, <1>5, <2>1
  <2>. QED BY <1>5, <1>7, <2>2, <2>3
<1>9. (t \in S /\ u \notin S) \/ (t \notin S /\ u \in S) BY <1>5, <1>8
<1>10. {u, t} \cap S = {} \/ {u, t} \ S = {} BY <1>7
<1>. QED BY <1>9, <1>10

(* A set of edges that joins two tiles contains a simple path between them. *)
LEMMA PathExists ==
  ASSUME NEW p \in Tiles \X Tiles PROVE PathsBetween(p) # {}
<1> DEFINE J == {P \in SUBSET Edges : Joins(P, {p[1], p[2]})}
           R == StrictSubsetOrdering(Edges)
<1>1. Edges \in J BY GridJoined
<1>2. J \subseteq FiniteSubsetsOf(Edges)
  <2>1. FiniteSubsetsOf(Edges) = SUBSET Edges BY GridFinite, FS_FiniteSubsetsOfFinite
  <2>. QED BY <2>1
<1>3. IsWellFoundedOn(R, FiniteSubsetsOf(Edges)) BY FS_StrictSubsetOrderingWellFounded
<1>. HIDE DEF J, R
<1>4. PICK P \in J : \A Q \in J : <<Q, P>> \notin R BY <1>1, <1>2, <1>3, WFMin
<1>. USE DEF J, R
<1>5. P \in SUBSET Edges /\ Joins(P, {p[1], p[2]}) OBVIOUS
<1>6. ASSUME NEW e \in P, Joins(P \ {e}, {p[1], p[2]}) PROVE FALSE
  <2>1. P \ {e} \in J BY <1>6
  <2>2. <<P \ {e}, P>> \in R BY <1>5 DEF StrictSubsetOrdering
  <2>. QED BY <1>4, <2>1, <2>2
<1>. QED BY <1>5, <1>6 DEF PathsBetween

-----------------------------------------------------------------------------
(***************************************************************************)
(* Pins, subnets and trees.                                                *)
(***************************************************************************)
LEMMA PinsFinite ==
  ASSUME NEW n \in Nets
  PROVE  /\ Pins[n] \subseteq Tiles /\ Pins[n] # {} /\ IsFiniteSet(Pins[n])
         /\ SubNetCount(n) \in Nat
<1>1. Pins[n] \in SUBSET Tiles /\ Pins[n] # {} BY GridAssumption
<1>2. IsFiniteSet(Pins[n]) BY <1>1, GridFinite, FS_Subset
<1>3. Cardinality(Pins[n]) \in Nat /\ Cardinality(Pins[n]) # 0
  BY <1>1, <1>2, FS_CardinalityType, FS_EmptySet
<1>. QED BY <1>1, <1>2, <1>3 DEF SubNetCount

LEMMA SubNetShape ==
  /\ \A s \in SubNets : /\ NetOf(s) \in Nets
                        /\ s[2] \in 1..SubNetCount(NetOf(s))
                        /\ s = <<NetOf(s), s[2]>>
                        /\ s \in SubNetsOf(NetOf(s))
  /\ \A n \in Nets : /\ SubNetsOf(n) \subseteq SubNets
                     /\ \A j \in 1..SubNetCount(n) : <<n, j>> \in SubNetsOf(n)
BY DEF SubNets, SubNetsOf, NetOf

LEMMA FirstPinType == ASSUME NEW n \in Nets PROVE FirstPin(n) \in Pins[n]
<1>1. /\ Pins[n] # {} /\ Pins[n] \subseteq Tiles
      /\ \A p \in Pins[n] : p \in Tiles /\ p[1] \in Nat /\ p[2] \in Nat /\ p = <<p[1], p[2]>>
  BY PinsFinite, SizeAssumption DEF Tiles
<1> DEFINE K == {p[1] : p \in Pins[n]}
<1>2. K # {} /\ K \subseteq Nat BY <1>1
<1>. HIDE DEF K
<1>3. PICK k \in K : \A j \in K : k <= j BY <1>2, LeastNumber
<1> DEFINE M == {p[2] : p \in {q \in Pins[n] : q[1] = k}}
<1>4. M # {} /\ M \subseteq Nat BY <1>1, <1>3 DEF K
<1>. HIDE DEF M
<1>5. PICK m \in M : \A j \in M : m <= j BY <1>4, LeastNumber
<1>6. PICK p \in Pins[n] : p[1] = k /\ p[2] = m BY <1>5 DEF M
<1>7. ASSUME NEW q \in Pins[n] PROVE q = p \/ Precedes(p, q)
  <2>1. k <= q[1] /\ q[1] \in Nat /\ k \in Nat BY <1>1, <1>2, <1>3 DEF K
  <2>2. q[1] = k => m <= q[2] BY <1>5 DEF M
  <2>3. q[2] \in Nat /\ m \in Nat BY <1>1, <1>4, <1>5
  <2>4. q[1] = k /\ q[2] = m => q = p BY <1>1, <1>6
  <2>. QED BY <1>6, <2>1, <2>2, <2>3, <2>4 DEF Precedes
<1>. QED BY <1>7 DEF FirstPin

(* Every edge of a tree has two pins of the net for its ends. *)
LEMMA TreeEnds ==
  ASSUME NEW n \in Nets, NEW T \in GrownTrees(n), NEW j \in 1..SubNetCount(n)
  PROVE  /\ T[j] \in PinPairs /\ T[j] \in Tiles \X Tiles
         /\ T[j] \in Pins[n] \X Pins[n]
         /\ T[j][1] \notin InTree(n, T, j) /\ T[j][2] \in InTree(n, T, j)
<1>1. /\ T[j] \in Pins[n] \X Pins[n]
      /\ T[j][1] \notin InTree(n, T, j) /\ T[j][2] \in InTree(n, T, j)
  BY DEF GrownTrees
<1>2. T[j][1] # T[j][2] BY <1>1
<1>. QED BY <1>1, <1>2, PinsFinite DEF PinPairs

(* A tree has one edge less than the net has pins, and so reaches them all. *)
LEMMA TreeReachesAll ==
  ASSUME NEW n \in Nets, NEW T \in GrownTrees(n)
  PROVE  \A p \in Pins[n] : p = FirstPin(n) \/ \E i \in 1..SubNetCount(n) : p = T[i][1]
<1> DEFINE k == SubNetCount(n)
           Rest == Pins[n] \ {FirstPin(n)}
           f == [i \in 1..k |-> T[i][1]]
<1>1. k \in Nat /\ IsFiniteSet(Pins[n]) /\ FirstPin(n) \in Pins[n]
  BY PinsFinite, FirstPinType
<1>2. IsFiniteSet(Rest) /\ Cardinality(Rest) = k
  BY <1>1, FS_RemoveElement DEF SubNetCount
<1>3. IsFiniteSet(1..k) /\ Cardinality(1..k) = k BY <1>1, FS_Interval
<1>4. \A i \in 1..k : T[i][1] \in Pins[n] /\ T[i][1] \notin InTree(n, T, i)
  BY TreeEnds
<1>5. f \in [1..k -> Rest] BY <1>4 DEF InTree
<1>6. ASSUME NEW i \in 1..k, NEW j \in 1..k, i < j PROVE T[i][1] # T[j][1]
  <2>1. i \in 1..j-1 BY <1>1, <1>6
  <2>2. T[i][1] \in InTree(n, T, j) BY <2>1 DEF InTree
  <2>. QED BY <1>4, <2>2
<1>7. \A i, j \in 1..k : T[i][1] = T[j][1] => i = j
  <2>. SUFFICES ASSUME NEW i \in 1..k, NEW j \in 1..k, T[i][1] = T[j][1], i # j PROVE FALSE
    OBVIOUS
  <2>1. i < j \/ j < i BY <1>1
  <2>. QED BY <1>6, <2>1
<1>8. f \in Injection(1..k, Rest)
  <2>1. \A i, j \in 1..k : f[i] = f[j] => i = j BY <1>7
  <2>. HIDE DEF f
  <2>. QED BY <1>5, <2>1 DEF Injection, IsInjective
<1>9. f \in Surjection(1..k, Rest) BY <1>2, <1>3, <1>8, FS_Injection
<1>10. \A p \in Rest : \E i \in 1..k : f[i] = p BY <1>9 DEF Surjection
<1>. QED BY <1>10

(***************************************************************************)
(* Edges that join the ends of every edge of a tree join all the pins: a   *)
(* set that separates the pins separates the first edge whose new pin lies *)
(* on the other side than the first pin.                                   *)
(***************************************************************************)
LEMMA TreeConnects ==
  ASSUME NEW n \in Nets, NEW T \in GrownTrees(n), NEW P,
         \A j \in 1..SubNetCount(n) : Joins(P, {T[j][1], T[j][2]})
  PROVE  Joins(P, Pins[n])
<1>. SUFFICES ASSUME NEW S \in SUBSET Tiles, Pins[n] \cap S # {}, Pins[n] \ S # {}
              PROVE  \E e \in P : e \cap S # {} /\ e \ S # {}
  BY DEF Joins
<1> DEFINE first == FirstPin(n)
           k == SubNetCount(n)
           Across == {j \in 1..k : ~(T[j][1] \in S <=> first \in S)}
<1>1. k \in Nat BY PinsFinite
<1>2. Across # {}
  <2>. SUFFICES ASSUME Across = {} PROVE FALSE OBVIOUS
  <2>1. \A i \in 1..k : T[i][1] \in S <=> first \in S OBVIOUS
  <2>2. \A p \in Pins[n] : p \in S <=> first \in S BY <2>1, TreeReachesAll
  <2>. QED BY <2>2
<1>3. PICK j \in Across : \A i \in Across : j <= i
  <2>1. Across \subseteq Nat BY <1>1
  <2>. HIDE DEF Across
  <2>. QED BY <1>2, <2>1, LeastNumber
<1>4. j \in 1..k /\ ~(T[j][1] \in S <=> first \in S) OBVIOUS
<1>5. T[j][2] \in S <=> first \in S
  <2>1. T[j][2] \in InTree(n, T, j) BY <1>4, TreeEnds
  <2>2. CASE T[j][2] = first BY <2>2
  <2>3. CASE T[j][2] # first
    <3>1. PICK i \in 1..j-1 : T[j][2] = T[i][1] BY <2>1, <2>3 DEF InTree
    <3>2. i \in 1..k /\ i < j BY <1>1, <1>4, <3>1
    <3>3. i \notin Across BY <1>1, <1>3, <1>4, <3>2
    <3>. QED BY <3>1, <3>2, <3>3
  <2>. QED BY <2>2, <2>3
<1>6. Joins(P, {T[j][1], T[j][2]}) BY <1>4
<1>7. {T[j][1], T[j][2]} \cap S # {} /\ {T[j][1], T[j][2]} \ S # {}
  BY <1>4, <1>5
<1>. QED BY <1>6, <1>7 DEF Joins

-----------------------------------------------------------------------------
(***************************************************************************)
(* Routes.                                                                 *)
(***************************************************************************)
LEMMA PathsAre ==
  /\ \A p \in PinPairs : Paths(p) = PathsBetween(p)
  /\ \A p : Paths(p) \subseteq SUBSET Edges
<1>1. ASSUME NEW p, NEW P \in Paths(p) PROVE p \in PinPairs /\ P \in PathsBetween(p)
  <2>1. PICK q \in PathTable : q[1] = p /\ P = q[2] BY DEF Paths
  <2>2. PICK pp \in PinPairs : \E PP \in PathsBetween(pp) : q = <<pp, PP>> BY DEF PathTable
  <2>. QED BY <2>1, <2>2
<1>2. ASSUME NEW p \in PinPairs, NEW P \in PathsBetween(p) PROVE P \in Paths(p)
  <2>1. <<p, P>> \in PathTable BY DEF PathTable
  <2>2. P = <<p, P>>[2] /\ <<p, P>>[1] = p OBVIOUS
  <2>. QED BY <2>1, <2>2 DEF Paths
<1>3. \A p : PathsBetween(p) \subseteq SUBSET Edges BY DEF PathsBetween
<1>. QED BY <1>1, <1>2, <1>3

(* A subnet finds a route when it may use full edges, and only routes of its own. *)
LEMMA RoutesType ==
  ASSUME NEW seg, NEW s, NEW a, NEW b
  PROVE  /\ Routes(seg, s, a, b) \subseteq Paths(ends[s])
         /\ ends[s] \in PinPairs /\ ends[s] \in Tiles \X Tiles => Routes(seg, s, TRUE, b) # {}
<1>1. \A c, tiles : MazeRoutes(seg, s, c, tiles) \subseteq Paths(ends[s]) BY DEF MazeRoutes
<1>2. ASSUME ends[s] \in PinPairs, ends[s] \in Tiles \X Tiles
      PROVE  MazeRoutes(seg, s, TRUE, Tiles) # {}
  <2>1. PICK P \in Paths(ends[s]) : P \subseteq Edges BY <1>2, PathsAre, PathExists
  <2>2. UNION P \subseteq Tiles BY <2>1, GridFinite
  <2>. QED BY <2>1, <2>2 DEF MazeRoutes
<1>. QED BY <1>1, <1>2 DEF Routes

(* The least cost is reached. *)
LEMMA CheapestExists ==
  ASSUME NEW seg, NEW s, NEW C, C # {}, C \subseteq SUBSET Edges
  PROVE  Cheapest(seg, s, C) # {}
<1> DEFINE Cost(P) == UnitCost(seg, NetOf(s), P)
           K == {Cost(P) : P \in C}
<1>1. ASSUME NEW P \in C PROVE Cost(P) \in Nat
  <2>1. P \in SUBSET Edges /\ P \ UsedBy(seg, NetOf(s)) \in SUBSET Edges OBVIOUS
  <2>2. IsFiniteSet(P) /\ IsFiniteSet(P \ UsedBy(seg, NetOf(s)))
    BY <2>1, GridFinite, FS_Subset
  <2>. QED BY <2>2, FS_CardinalityType DEF UnitCost
<1>2. K \subseteq Nat /\ K # {} BY <1>1
<1>3. PICK k \in K : \A j \in K : k <= j
  <2>. HIDE DEF K
  <2>. QED BY <1>2, LeastNumber
<1>4. PICK P \in C : Cost(P) = k OBVIOUS
<1>5. \A Q \in C : Cost(P) <= Cost(Q) BY <1>3, <1>4
<1>. QED BY <1>5 DEF Cheapest

-----------------------------------------------------------------------------
(***************************************************************************)
(* Usage and legal solutions.                                              *)
(***************************************************************************)
UsersOf(seg, e) == {n \in Nets : e \in UsedBy(seg, n)}

LEMMA UsageType ==
  ASSUME NEW seg, NEW e
  PROVE  /\ UsersOf(seg, e) \in SUBSET Nets /\ IsFiniteSet(UsersOf(seg, e))
         /\ Usage(seg, e) = Cardinality(UsersOf(seg, e))
         /\ Usage(seg, e) \in Nat /\ Usage(seg, e) <= Cardinality(Nets)
<1>1. UsersOf(seg, e) \in SUBSET Nets BY DEF UsersOf
<1>2. IsFiniteSet(UsersOf(seg, e)) /\ Cardinality(UsersOf(seg, e)) <= Cardinality(Nets)
  BY <1>1, BoundsAssumption, FS_Subset
<1>3. Usage(seg, e) = Cardinality(UsersOf(seg, e)) BY DEF Usage, UsersOf
<1>. QED BY <1>1, <1>2, <1>3, FS_CardinalityType

LEMMA CountsType ==
  ASSUME NEW seg
  PROVE  /\ Totals(seg) \in Nat \X Nat \X Nat
         /\ (TotalOverflow(seg) = 0 <=> Legal(seg))
         /\ (OverfullEdges(seg) = 0 <=> Legal(seg))
         /\ TotalOverflow(seg) \in Nat
<1> DEFINE N == Cardinality(Nets)
           Units == {p \in Edges \X (1..N) : p[2] <= Usage(seg, p[1]) - Capacity}
           Used == {p \in Nets \X Edges : p[2] \in UsedBy(seg, p[1])}
<1>1. N \in Nat BY BoundsAssumption, FS_CardinalityType
<1>2. IsFiniteSet(Units)
  <2>1. IsFiniteSet(1..N) BY <1>1, FS_Interval
  <2>2. IsFiniteSet(Edges \X (1..N)) BY <2>1, GridFinite, FS_Product
  <2>3. Units \in SUBSET (Edges \X (1..N)) OBVIOUS
  <2>. QED BY <2>2, <2>3, FS_Subset
<1>3. IsFiniteSet(Used)
  <2>1. IsFiniteSet(Nets \X Edges) BY BoundsAssumption, GridFinite, FS_Product
  <2>2. Used \in SUBSET (Nets \X Edges) OBVIOUS
  <2>. QED BY <2>1, <2>2, FS_Subset
<1>4. IsFiniteSet(OverfullSet(seg))
  <2>1. OverfullSet(seg) \in SUBSET Edges BY DEF OverfullSet
  <2>. QED BY <2>1, GridFinite, FS_Subset
<1>5. TotalOverflow(seg) = Cardinality(Units) /\ TotalSegments(seg) = Cardinality(Used)
      /\ OverfullEdges(seg) = Cardinality(OverfullSet(seg))
  BY DEF TotalOverflow, TotalSegments, OverfullEdges
<1>6. TotalOverflow(seg) \in Nat /\ TotalSegments(seg) \in Nat /\ OverfullEdges(seg) \in Nat
  BY <1>2, <1>3, <1>4, <1>5, FS_CardinalityType
<1>7. Units = {} <=> OverfullSet(seg) = {}
  <2>1. ASSUME NEW p \in Units PROVE p[1] \in OverfullSet(seg)
    <3>1. Usage(seg, p[1]) \in Nat /\ Capacity \in Nat BY UsageType, GridAssumption
    <3>. QED BY <1>1, <3>1 DEF OverfullSet
  <2>2. ASSUME NEW e \in OverfullSet(seg) PROVE <<e, 1>> \in Units
    <3>1. /\ Usage(seg, e) \in Nat /\ Usage(seg, e) <= N /\ Capacity \in Nat
          /\ e \in Edges /\ Usage(seg, e) > Capacity
      BY UsageType, GridAssumption DEF OverfullSet
    <3>2. 1 \in 1..N /\ 1 <= Usage(seg, e) - Capacity BY <1>1, <3>1
    <3>3. <<e, 1>>[1] = e /\ <<e, 1>>[2] = 1 OBVIOUS
    <3>. QED BY <3>1, <3>2, <3>3
  <2>. HIDE DEF Units
  <2>. QED BY <2>1, <2>2
<1>. HIDE DEF Units, Used
<1>. QED BY <1>2, <1>4, <1>5, <1>6, <1>7, FS_EmptySet DEF Totals, Legal

LEMMA LegalUsage ==
  ASSUME NEW seg PROVE Legal(seg) <=> \A e \in Edges : Usage(seg, e) <= Capacity
<1>1. \A e : Usage(seg, e) \in Nat /\ Capacity \in Nat BY UsageType, GridAssumption
<1>. QED BY <1>1 DEF Legal, OverfullSet

(* What the route of one subnet changes for the edges of the nets. *)
LEMMA OneSubNet ==
  ASSUME NEW seg, NEW other, NEW s \in SubNets,
         \A r \in SubNets \ {s} : other[r] = seg[r]
  PROVE  /\ \A n \in Nets \ {NetOf(s)} : UsedBy(other, n) = UsedBy(seg, n)
         /\ UsedBy(other, NetOf(s)) \subseteq UsedBy(seg, NetOf(s)) \cup other[s]
         /\ seg[s] \subseteq UsedBy(seg, NetOf(s))
         /\ seg[s] = {} => UsedBy(seg, NetOf(s)) \subseteq UsedBy(other, NetOf(s))
<1>1. \A n \in Nets \ {NetOf(s)} : \A r \in SubNetsOf(n) : r \in SubNets \ {s}
  BY DEF SubNetsOf, NetOf
<1>2. s \in SubNetsOf(NetOf(s)) /\ \A r \in SubNetsOf(NetOf(s)) : r \in SubNets
  BY DEF SubNetsOf
<1>. QED BY <1>1, <1>2 DEF UsedBy

(* Ripping up a subnet of a legal solution leaves room for its old route. *)
LEMMA OldRouteFits ==
  ASSUME NEW seg, NEW less, NEW s \in SubNets, Legal(seg), seg[s] \subseteq Edges,
         less[s] = {}, \A r \in SubNets \ {s} : less[r] = seg[r]
  PROVE  Legal(less) /\ \A e \in seg[s] : Fits(less, NetOf(s), e)
<1> DEFINE n == NetOf(s)
<1>0. n \in Nets BY SubNetShape
<1>1. /\ \A m \in Nets \ {n} : UsedBy(less, m) = UsedBy(seg, m)
      /\ UsedBy(less, n) \subseteq UsedBy(seg, n) /\ seg[s] \subseteq UsedBy(seg, n)
  BY OneSubNet
<1>2. \A e \in Edges : Usage(seg, e) <= Capacity BY LegalUsage
<1>3. Capacity \in Nat BY GridAssumption
<1>4. ASSUME NEW e \in Edges PROVE Usage(less, e) <= Capacity
  <2>1. UsersOf(less, e) \in SUBSET UsersOf(seg, e) BY <1>0, <1>1 DEF UsersOf
  <2>2. Usage(less, e) <= Usage(seg, e) BY <2>1, UsageType, FS_Subset
  <2>3. Usage(less, e) \in Nat /\ Usage(seg, e) \in Nat BY UsageType
  <2>. QED BY <1>2, <1>3, <2>2, <2>3
<1>5. ASSUME NEW e \in seg[s], e \notin UsedBy(less, n) PROVE Usage(less, e) + 1 <= Capacity
  <2>1. n \in UsersOf(seg, e) BY <1>0, <1>1 DEF UsersOf
  <2>2. UsersOf(less, e) = UsersOf(seg, e) \ {n} BY <1>0, <1>1, <1>5 DEF UsersOf
  <2>3. Usage(less, e) = Usage(seg, e) - 1 BY <2>1, <2>2, UsageType, FS_RemoveElement
  <2>4. Usage(less, e) \in Nat /\ Usage(seg, e) \in Nat /\ Usage(seg, e) <= Capacity
    BY <1>2, UsageType
  <2>. QED BY <1>3, <2>3, <2>4
<1>. QED BY <1>4, <1>5, LegalUsage DEF Fits

(* A route over edges with room keeps the solution legal. *)
LEMMA FittingRouteIsLegal ==
  ASSUME NEW seg, NEW more, NEW s \in SubNets, Legal(seg),
         \A e \in more[s] : Fits(seg, NetOf(s), e),
         \A r \in SubNets \ {s} : more[r] = seg[r]
  PROVE  Legal(more)
<1> DEFINE n == NetOf(s)
<1>1. /\ \A m \in Nets \ {n} : UsedBy(more, m) = UsedBy(seg, m)
      /\ UsedBy(more, n) \subseteq UsedBy(seg, n) \cup more[s]
  BY OneSubNet
<1>2. \A e \in Edges : Usage(seg, e) <= Capacity BY LegalUsage
<1>3. Capacity \in Nat BY GridAssumption
<1>4. ASSUME NEW e \in Edges PROVE Usage(more, e) <= Capacity
  <2>0. Usage(more, e) \in Nat /\ Usage(seg, e) \in Nat BY UsageType
  <2>1. CASE e \in more[s] /\ e \notin UsedBy(seg, n)
    <3>1. Usage(seg, e) + 1 <= Capacity BY <2>1 DEF Fits
    <3>2. UsersOf(more, e) \in SUBSET (UsersOf(seg, e) \cup {n}) BY <1>1 DEF UsersOf
    <3>3. /\ IsFiniteSet(UsersOf(seg, e) \cup {n})
          /\ Cardinality(UsersOf(seg, e) \cup {n}) <= Usage(seg, e) + 1
      <4>1. IsFiniteSet(UsersOf(seg, e)) /\ Cardinality(UsersOf(seg, e)) = Usage(seg, e)
        BY UsageType
      <4>2. /\ IsFiniteSet(UsersOf(seg, e) \cup {n})
            /\ Cardinality(UsersOf(seg, e) \cup {n})
                 = IF n \in UsersOf(seg, e) THEN Usage(seg, e) ELSE Usage(seg, e) + 1
        BY <4>1, FS_AddElement
      <4>. QED BY <2>0, <4>2
    <3>4. Usage(more, e) <= Cardinality(UsersOf(seg, e) \cup {n})
      BY <3>2, <3>3, UsageType, FS_Subset
    <3>5. Cardinality(UsersOf(seg, e) \cup {n}) \in Nat BY <3>3, FS_CardinalityType
    <3>. QED BY <1>3, <2>0, <3>1, <3>3, <3>4, <3>5
  <2>2. CASE ~(e \in more[s] /\ e \notin UsedBy(seg, n))
    <3>1. UsersOf(more, e) \in SUBSET UsersOf(seg, e) BY <1>1, <2>2 DEF UsersOf
    <3>2. Usage(more, e) <= Usage(seg, e) BY <3>1, UsageType, FS_Subset
    <3>. QED BY <1>2, <1>3, <2>0, <3>2
  <2>. QED BY <2>1, <2>2
<1>. QED BY <1>4, LegalUsage

-----------------------------------------------------------------------------
(***************************************************************************)
(* The inductive invariant.                                                *)
(***************************************************************************)
TreeOf(f, n) == [j \in 1..SubNetCount(n) |-> f[<<n, j>>]]

(* The ends of the subnets of a net are the edges of a tree over its pins. *)
Grown == \A n \in Nets : TreeOf(ends, n) \in GrownTrees(n)

(* Once the initial routing is over all subnets are routed, but for those
   of the net whose tree is being rebuilt. *)
AllRouted ==
  /\ phase \in {"rrr", "rip", "redo", "rrrDone", "greedy", "done"} =>
       \A s \in SubNets : routed[s]
  /\ phase = "mst" => \A s \in SubNets \ SubNetsOf(saved.net) : routed[s]

LeftUnrouted ==
  /\ phase = "flat" => \A s \in todo : ~routed[s]
  /\ phase = "rest" => \A s \in SubNets : routed[s] <=> s \notin todo

(* The tree that redoTree may put back was a tree with all its routes. *)
OldTree ==
  phase = "mst" =>
    LET n == saved.net
    IN  /\ n \in Nets /\ saved.next \in 1..SubNetCount(n)+1
        /\ saved = [net |-> n, next |-> saved.next, ends |-> saved.ends,
                     segments |-> saved.segments]
        /\ saved.ends \in [SubNetsOf(n) -> Tiles \X Tiles]
        /\ saved.segments \in [SubNetsOf(n) -> SUBSET Edges]
        /\ TreeOf(saved.ends, n) \in GrownTrees(n)
        /\ \A s \in SubNetsOf(n) : /\ saved.segments[s] \in Paths(saved.ends[s])
                                   /\ s[2] >= saved.next => ~routed[s]

Limits ==
  /\ phase \in {"flat", "rest"} => iter = 0
  /\ phase \in {"rrr", "rip", "redo", "mst"} => iter < MaxRipIter
  /\ phase = "greedy" => iter < MaxGreedyIter

(* doRRR leaves the loop as soon as no edge is overfull, and the greedy
   phase begins with no such edge. *)
StopsWhenLegal == phase = "rip" /\ Legal(segments) => todo = {}
GreedyLegal == phase = "greedy" => Legal(segments)

IInv == /\ TypeOK /\ Limits /\ Grown /\ RoutedSubNetsHaveRoutes
        /\ AllRouted /\ LeftUnrouted /\ OldTree /\ StopsWhenLegal /\ GreedyLegal

(* Every subnet goes between two different pins of its net. *)
LEMMA SubNetEnds ==
  ASSUME Grown, NEW s \in SubNets
  PROVE  ends[s] \in PinPairs /\ ends[s] \in Tiles \X Tiles
<1>1. NetOf(s) \in Nets /\ s[2] \in 1..SubNetCount(NetOf(s)) /\ s = <<NetOf(s), s[2]>>
  BY SubNetShape
<1>2. TreeOf(ends, NetOf(s)) \in GrownTrees(NetOf(s)) BY <1>1 DEF Grown
<1>3. TreeOf(ends, NetOf(s))[s[2]] = ends[s] BY <1>1 DEF TreeOf
<1>. QED BY <1>1, <1>2, <1>3, TreeEnds

(* Routed subnets join the pins of their net. *)
LEMMA RoutedNetJoins ==
  ASSUME Grown, RoutedSubNetsHaveRoutes, NEW n \in Nets,
         \A s \in SubNetsOf(n) : routed[s]
  PROVE  Joins(UsedBy(segments, n), Pins[n])
<1> DEFINE T == TreeOf(ends, n)
<1>1. T \in GrownTrees(n) BY DEF Grown
<1>2. ASSUME NEW j \in 1..SubNetCount(n)
      PROVE  Joins(UsedBy(segments, n), {T[j][1], T[j][2]})
  <2> DEFINE s == <<n, j>>
  <2>1. s \in SubNetsOf(n) /\ s \in SubNets BY SubNetShape
  <2>2. T[j] = ends[s] BY DEF TreeOf
  <2>3. segments[s] \in PathsBetween(ends[s])
    BY <2>1, PathsAre, SubNetEnds DEF RoutedSubNetsHaveRoutes
  <2>4. Joins(segments[s], {ends[s][1], ends[s][2]}) BY <2>3 DEF PathsBetween
  <2>5. segments[s] \subseteq UsedBy(segments, n) BY <2>1 DEF UsedBy
  <2>. HIDE DEF s, T
  <2>. QED BY <2>2, <2>4, <2>5 DEF Joins
<1>. HIDE DEF T
<1>. QED BY <1>1, <1>2, TreeConnects

(***************************************************************************)
(* One subnet takes a route, or finds none.                                *)
(***************************************************************************)
LEMMA TakeOne ==
  ASSUME TypeOK, RoutedSubNetsHaveRoutes, NEW s \in SubNets,
         NEW seg \in [SubNets -> SUBSET Edges], seg[s] = {},
         \A r \in SubNets \ {s} : seg[r] = segments[r],
         NEW C, C \subseteq Paths(ends[s]), UNCHANGED ends, Take(seg, s, C)
  PROVE  /\ segments' \in [SubNets -> SUBSET Edges] /\ routed' \in [SubNets -> BOOLEAN]
         /\ RoutedSubNetsHaveRoutes'
         /\ \A r \in SubNets \ {s} : routed'[r] = routed[r] /\ segments'[r] = seg[r]
         /\ C # {} => routed'[s] /\ segments'[s] \in C
<1>1. routed \in [SubNets -> BOOLEAN] BY DEF TypeOK
<1>2. CASE C = {}
  <2>1. segments' = seg /\ routed' = [routed EXCEPT ![s] = FALSE] BY <1>2 DEF Take
  <2>2. /\ routed'[s] = FALSE /\ routed' \in [SubNets -> BOOLEAN]
        /\ \A r \in SubNets \ {s} : routed'[r] = routed[r]
    BY <1>1, <2>1
  <2>. QED BY <1>2, <2>1, <2>2 DEF RoutedSubNetsHaveRoutes
<1>3. CASE C # {}
  <2>1. PICK P \in C : segments' = [seg EXCEPT ![s] = P] /\ routed' = [routed EXCEPT ![s] = TRUE]
    BY <1>3 DEF Take
  <2>2. P \in Paths(ends[s]) /\ P \in SUBSET Edges BY PathsAre
  <2>3. /\ routed'[s] = TRUE /\ routed' \in [SubNets -> BOOLEAN]
        /\ segments'[s] = P /\ segments' \in [SubNets -> SUBSET Edges]
        /\ \A r \in SubNets \ {s} : routed'[r] = routed[r] /\ segments'[r] = seg[r]
    BY <1>1, <2>1, <2>2
  <2>4. RoutedSubNetsHaveRoutes' BY <2>2, <2>3 DEF RoutedSubNetsHaveRoutes
  <2>. QED BY <2>3, <2>4
<1>. QED BY <1>2, <1>3

LEMMA RippedUp ==
  ASSUME TypeOK, NEW s \in SubNets
  PROVE  /\ RipUp(s) \in [SubNets -> SUBSET Edges] /\ RipUp(s)[s] = {}
         /\ \A r \in SubNets \ {s} : RipUp(s)[r] = segments[r]
BY DEF TypeOK, RipUp

LEMMA InitInv == Init => IInv
<1>. SUFFICES ASSUME Init PROVE IInv OBVIOUS
<1>1. PICK T \in [Nets -> UNION {MinimumTrees(n) : n \in Nets}] :
        /\ \A n \in Nets : T[n] \in MinimumTrees(n)
        /\ ends = [s \in SubNets |-> T[NetOf(s)][s[2]]]
  BY DEF Init
<1>2. ASSUME NEW n \in Nets PROVE TreeOf(ends, n) = T[n] /\ T[n] \in GrownTrees(n)
  <2>1. T[n] \in GrownTrees(n) BY <1>1 DEF MinimumTrees
  <2>2. T[n] = [j \in 1..SubNetCount(n) |-> T[n][j]] BY <2>1 DEF GrownTrees
  <2>3. \A j \in 1..SubNetCount(n) : ends[<<n, j>>] = T[n][j]
    BY <1>1, SubNetShape DEF NetOf
  <2>. QED BY <2>1, <2>2, <2>3 DEF TreeOf
<1>3. Grown BY <1>2 DEF Grown
<1>4. ends \in [SubNets -> Tiles \X Tiles] BY <1>1, <1>3, SubNetEnds
<1>5. TypeOK
  <2>1. 0 \in 0..Greatest(MaxRipIter, MaxGreedyIter) BY BoundsAssumption DEF Greatest
  <2>. QED BY <1>4, <2>1 DEF Init, TypeOK
<1>6. RoutedSubNetsHaveRoutes BY DEF Init, RoutedSubNetsHaveRoutes
<1>. QED BY <1>3, <1>5, <1>6 DEF Init, IInv, Limits, AllRouted, LeftUnrouted, OldTree,
     StopsWhenLegal, GreedyLegal

-----------------------------------------------------------------------------
(***************************************************************************)
(* The steps that route nothing.                                           *)
(***************************************************************************)
LEMMA IterType == ASSUME TypeOK, Limits PROVE iter \in Nat /\ MaxRipIter \in Nat /\ MaxGreedyIter \in Nat
BY BoundsAssumption DEF TypeOK, Greatest

LEMMA QuietInv ==
  ASSUME IInv, FlatDone \/ RestDone \/ StartIteration \/ NoMoreToRip \/ EndIteration
               \/ SkipSmallNet \/ StartGreedy \/ EndGreedyIteration
  PROVE  IInv'
<1>1. iter \in Nat /\ MaxRipIter \in Nat /\ MaxGreedyIter \in Nat BY IterType DEF IInv
<1>2. UNCHANGED <<ends, segments, routed, saved>> /\ phase' # "mst"
  BY DEF FlatDone, RestDone, StartIteration, NoMoreToRip, EndIteration, SkipSmallNet,
     StartGreedy, EndGreedyIteration
<1>3. Grown' /\ RoutedSubNetsHaveRoutes' /\ OldTree'
  BY <1>2 DEF IInv, Grown, RoutedSubNetsHaveRoutes, OldTree
<1>4. Totals(segments) \in Nat \X Nat \X Nat /\ (TotalOverflow(segments) = 0 <=> Legal(segments))
      /\ TotalOverflow(segments) \in Nat
  BY CountsType
<1>5. Greatest(MaxRipIter, MaxGreedyIter) \in Nat
      /\ MaxRipIter <= Greatest(MaxRipIter, MaxGreedyIter)
      /\ MaxGreedyIter <= Greatest(MaxRipIter, MaxGreedyIter)
  BY <1>1 DEF Greatest
<1>6. CASE FlatDone
  <2>1. /\ phase = "flat" /\ phase' = "rest" /\ todo' = {s \in SubNets : ~routed[s]}
        /\ UNCHANGED <<iter, prev>>
    BY <1>6 DEF FlatDone
  <2>. QED BY <1>2, <1>3, <2>1 DEF IInv, TypeOK, Limits, AllRouted, LeftUnrouted,
       StopsWhenLegal, GreedyLegal
<1>7. CASE RestDone
  <2>1. /\ phase = "rest" /\ todo = {} /\ phase' = IF MaxRipIter = 0 THEN "rrrDone" ELSE "rrr"
        /\ UNCHANGED <<todo, iter, prev>>
    BY <1>7 DEF RestDone
  <2>. QED BY <1>1, <1>2, <1>3, <2>1 DEF IInv, TypeOK, Limits, AllRouted, LeftUnrouted,
       StopsWhenLegal, GreedyLegal
<1>8. CASE StartIteration
  <2>1. /\ phase = "rrr" /\ SubNetsToRip # {} /\ prev' = Totals(segments) /\ UNCHANGED iter
        /\ \/ phase' = "redo" /\ todo' = {NetOf(s) : s \in SubNetsToRip}
           \/ phase' = "rip" /\ todo' = SubNetsToRip
    BY <1>8 DEF StartIteration
  <2>2. SubNetsToRip \subseteq SubNets /\ \A s \in SubNetsToRip : NetOf(s) \in Nets
    BY SubNetShape DEF SubNetsToRip
  <2>3. ~Legal(segments)
    BY <2>1 DEF IInv, AllRouted, SubNetsToRip, Legal
  <2>. QED BY <1>2, <1>3, <1>4, <2>1, <2>2, <2>3 DEF IInv, TypeOK, Limits, AllRouted,
       LeftUnrouted, StopsWhenLegal, GreedyLegal
<1>9. CASE NoMoreToRip
  <2>1. phase = "rrr" /\ phase' = "rrrDone" /\ UNCHANGED <<todo, iter, prev>>
    BY <1>9 DEF NoMoreToRip
  <2>. QED BY <1>2, <1>3, <2>1 DEF IInv, TypeOK, Limits, AllRouted, LeftUnrouted,
       StopsWhenLegal, GreedyLegal
<1>10. CASE EndIteration
  <2>1. /\ phase \in {"rip", "redo"} /\ todo = {} /\ iter' = iter + 1
        /\ \/ phase' = "rrrDone"
           \/ iter' < MaxRipIter /\ phase' = "rrr"
        /\ UNCHANGED <<todo, prev>>
    BY <1>10 DEF EndIteration
  <2>2. iter' \in 0..Greatest(MaxRipIter, MaxGreedyIter) BY <1>1, <1>5, <2>1 DEF IInv, Limits
  <2>. QED BY <1>2, <1>3, <2>1, <2>2 DEF IInv, TypeOK, Limits, AllRouted, LeftUnrouted,
       StopsWhenLegal, GreedyLegal
<1>11. CASE SkipSmallNet
  <2>1. phase = "redo" /\ todo' \subseteq todo /\ UNCHANGED <<phase, iter, prev>>
    BY <1>11 DEF SkipSmallNet
  <2>. QED BY <1>2, <1>3, <2>1 DEF IInv, TypeOK, Limits, AllRouted, LeftUnrouted,
       StopsWhenLegal, GreedyLegal
<1>12. CASE StartGreedy
  <2>1. /\ phase = "rrrDone" /\ iter' = 0 /\ UNCHANGED prev
        /\ IF TotalOverflow(segments) > 0 \/ MaxGreedyIter = 0
             THEN phase' = "done" /\ todo' = {}
             ELSE phase' = "greedy" /\ todo' = SubNets
    BY <1>12 DEF StartGreedy
  <2>2. phase' = "greedy" => Legal(segments) /\ 0 < MaxGreedyIter BY <1>1, <1>4, <2>1
  <2>3. phase' \in {"done", "greedy"} /\ todo' \subseteq SubNets BY <2>1
  <2>4. 0 \in 0..Greatest(MaxRipIter, MaxGreedyIter) BY <1>5
  <2>. QED BY <1>2, <1>3, <2>1, <2>2, <2>3, <2>4 DEF IInv, TypeOK, Limits, AllRouted,
       LeftUnrouted, StopsWhenLegal, GreedyLegal
<1>13. CASE EndGreedyIteration
  <2>1. /\ phase = "greedy" /\ iter' = iter + 1 /\ UNCHANGED prev
        /\ IF iter' < MaxGreedyIter THEN phase' = "greedy" /\ todo' = SubNets
                                    ELSE phase' = "done" /\ todo' = {}
    BY <1>13 DEF EndGreedyIteration
  <2>2. iter' \in 0..Greatest(MaxRipIter, MaxGreedyIter) BY <1>1, <1>5, <2>1 DEF IInv, Limits
  <2>3. phase' \in {"done", "greedy"} /\ todo' \subseteq SubNets BY <2>1
  <2>. QED BY <1>2, <1>3, <2>1, <2>2, <2>3 DEF IInv, TypeOK, Limits, AllRouted,
       LeftUnrouted, StopsWhenLegal, GreedyLegal
<1>. QED BY <1>6, <1>7, <1>8, <1>9, <1>10, <1>11, <1>12, <1>13

(***************************************************************************)
(* The steps that route a subnet.                                          *)
(***************************************************************************)
LEMMA RouteInitially ==
  ASSUME IInv, RouteFlat \/ RouteRest
  PROVE  IInv'
<1>1. PICK s \in NextInOrder(todo), o \in BOOLEAN :
        /\ Take(segments, s, Routes(segments, s, o, TRUE)) /\ todo' = todo \ {s}
        /\ phase = "rest" => o = TRUE
  BY DEF RouteFlat, RouteRest
<1>2. phase \in {"flat", "rest"} /\ UNCHANGED <<phase, ends, iter, prev, saved>>
  BY DEF RouteFlat, RouteRest
<1>3. s \in todo /\ s \in SubNets BY <1>2 DEF IInv, TypeOK, NextInOrder
<1>4. ~routed[s] /\ segments[s] = {}
  BY <1>2, <1>3 DEF IInv, LeftUnrouted, RoutedSubNetsHaveRoutes
<1> DEFINE C == Routes(segments, s, o, TRUE)
<1>5. C \subseteq Paths(ends[s]) /\ (phase = "rest" => C # {})
  BY <1>1, <1>3, RoutesType, SubNetEnds DEF IInv
<1>6. /\ segments' \in [SubNets -> SUBSET Edges] /\ routed' \in [SubNets -> BOOLEAN]
      /\ RoutedSubNetsHaveRoutes'
      /\ \A r \in SubNets \ {s} : routed'[r] = routed[r]
      /\ C # {} => routed'[s]
  <2>1. segments \in [SubNets -> SUBSET Edges] BY DEF IInv, TypeOK
  <2>. HIDE DEF C
  <2>. QED BY <1>1, <1>2, <1>3, <1>4, <1>5, <2>1, TakeOne DEF IInv, C
<1>7. TypeOK' BY <1>1, <1>2, <1>6 DEF IInv, TypeOK
<1>8. Grown' BY <1>2 DEF IInv, Grown
<1>9. LeftUnrouted'
  <2>. HIDE DEF C
  <2>. QED BY <1>1, <1>2, <1>3, <1>5, <1>6 DEF IInv, LeftUnrouted, TypeOK
<1>. QED BY <1>2, <1>6, <1>7, <1>8, <1>9 DEF IInv, Limits, AllRouted, OldTree, StopsWhenLegal,
     GreedyLegal

LEMMA RipInv == ASSUME IInv, RipAndReroute PROVE IInv'
<1>1. phase = "rip" /\ UNCHANGED <<phase, ends, iter, prev, saved>> BY DEF RipAndReroute
<1>2. PICK s \in NextInOrder(todo) :
        LET seg == RipUp(s)
            legal == Routes(seg, s, FALSE, TRUE)
        IN  /\ Take(seg, s, IF AvoidOverflow(segments, seg) /\ legal # {}
                              THEN legal ELSE Routes(seg, s, TRUE, TRUE))
            /\ todo' = IF OverfullEdges(segments') = 0 THEN {} ELSE todo \ {s}
  BY DEF RipAndReroute
<1>3. s \in todo /\ s \in SubNets BY <1>1 DEF IInv, TypeOK, NextInOrder
<1>4. PICK C : /\ Take(RipUp(s), s, C) /\ C # {} /\ C \subseteq Paths(ends[s])
  <2>1. \A o \in BOOLEAN : Routes(RipUp(s), s, o, TRUE) \subseteq Paths(ends[s])
    BY RoutesType
  <2>2. Routes(RipUp(s), s, TRUE, TRUE) # {} BY <1>3, RoutesType, SubNetEnds DEF IInv
  <2>. QED BY <1>2, <2>1, <2>2
<1>5. /\ segments' \in [SubNets -> SUBSET Edges] /\ routed' \in [SubNets -> BOOLEAN]
      /\ RoutedSubNetsHaveRoutes'
      /\ \A r \in SubNets \ {s} : routed'[r] = routed[r]
      /\ routed'[s]
  BY <1>1, <1>3, <1>4, RippedUp, TakeOne DEF IInv
<1>6. /\ todo' \subseteq todo
      /\ Legal(segments') => todo' = {}
  <2>1. OverfullEdges(segments') = 0 <=> Legal(segments') BY CountsType
  <2>. QED BY <1>2, <2>1
<1>7. TypeOK' BY <1>1, <1>5, <1>6 DEF IInv, TypeOK
<1>8. Grown' BY <1>1 DEF IInv, Grown
<1>9. AllRouted' BY <1>1, <1>5 DEF IInv, AllRouted
<1>10. StopsWhenLegal' BY <1>6 DEF StopsWhenLegal, Legal
<1>. QED BY <1>1, <1>5, <1>7, <1>8, <1>9, <1>10 DEF IInv, Limits, LeftUnrouted, OldTree,
     GreedyLegal

(***************************************************************************)
(* Greedy improvement of a legal solution: the old route is still there to *)
(* take, so one is found, and only routes that fit are looked at.          *)
(***************************************************************************)
LEMMA ImproveStaysLegal ==
  ASSUME IInv, NEW s \in SubNets, phase = "greedy",
         Take(RipUp(s), s, Cheapest(RipUp(s), s, Routes(RipUp(s), s, FALSE, FALSE))),
         UNCHANGED ends
  PROVE  /\ segments' \in [SubNets -> SUBSET Edges] /\ routed' \in [SubNets -> BOOLEAN]
         /\ RoutedSubNetsHaveRoutes' /\ Legal(segments')
         /\ \A r \in SubNets : routed'[r]
<1> DEFINE seg == RipUp(s)
           All == Routes(seg, s, FALSE, FALSE)
           C == Cheapest(seg, s, All)
<1>1. TypeOK /\ RoutedSubNetsHaveRoutes /\ Grown /\ Legal(segments)
      /\ \A r \in SubNets : routed[r]
  BY DEF IInv, GreedyLegal, AllRouted
<1>2. /\ seg \in [SubNets -> SUBSET Edges] /\ seg[s] = {}
      /\ \A r \in SubNets \ {s} : seg[r] = segments[r]
  BY <1>1, RippedUp
<1>3. segments[s] \in Paths(ends[s]) /\ segments[s] \subseteq Edges
  BY <1>1, PathsAre DEF RoutedSubNetsHaveRoutes
<1>4. Legal(seg) /\ \A e \in segments[s] : Fits(seg, NetOf(s), e)
  BY <1>1, <1>2, <1>3, OldRouteFits
<1>5. All = MazeRoutes(seg, s, FALSE, Tiles) BY DEF Routes
<1>6. segments[s] \in All
  <2>1. UNION segments[s] \subseteq Tiles BY <1>3, GridFinite
  <2>. QED BY <1>3, <1>4, <1>5, <2>1 DEF MazeRoutes
<1>7. All \subseteq Paths(ends[s]) /\ All \subseteq SUBSET Edges BY RoutesType, PathsAre
<1>8. C # {} /\ C \subseteq All
  <2>1. C \subseteq All BY DEF Cheapest
  <2>. HIDE DEF All
  <2>. QED BY <1>6, <1>7, <2>1, CheapestExists
<1>9. Take(seg, s, C) OBVIOUS
<1>. HIDE DEF C, All, seg
<1>10. /\ segments' \in [SubNets -> SUBSET Edges] /\ routed' \in [SubNets -> BOOLEAN]
       /\ RoutedSubNetsHaveRoutes'
       /\ \A r \in SubNets \ {s} : routed'[r] = routed[r] /\ segments'[r] = seg[r]
       /\ routed'[s] /\ segments'[s] \in C
  BY <1>1, <1>2, <1>7, <1>8, <1>9, TakeOne
<1>11. \A e \in segments'[s] : Fits(seg, NetOf(s), e)
  BY <1>5, <1>8, <1>10 DEF MazeRoutes
<1>12. Legal(segments') BY <1>4, <1>10, <1>11, FittingRouteIsLegal
<1>. QED BY <1>1, <1>10, <1>12

LEMMA ImproveInv == ASSUME IInv, Improve PROVE IInv'
<1>1. phase = "greedy" /\ UNCHANGED <<phase, ends, iter, prev, saved>> BY DEF Improve
<1>2. PICK s \in NextInOrder(todo) :
        /\ Take(RipUp(s), s, Cheapest(RipUp(s), s, Routes(RipUp(s), s, FALSE, FALSE)))
        /\ todo' = todo \ {s}
  BY DEF Improve
<1>3. s \in SubNets BY <1>1 DEF IInv, TypeOK, NextInOrder
<1>4. /\ segments' \in [SubNets -> SUBSET Edges] /\ routed' \in [SubNets -> BOOLEAN]
      /\ RoutedSubNetsHaveRoutes' /\ Legal(segments')
      /\ \A r \in SubNets : routed'[r]
  BY <1>1, <1>2, <1>3, ImproveStaysLegal
<1>5. TypeOK' BY <1>1, <1>2, <1>4 DEF IInv, TypeOK
<1>6. Grown' BY <1>1 DEF IInv, Grown
<1>7. GreedyLegal' BY <1>4 DEF GreedyLegal, Legal
<1>. QED BY <1>1, <1>4, <1>5, <1>6, <1>7 DEF IInv, Limits, AllRouted, LeftUnrouted, OldTree,
     StopsWhenLegal

-----------------------------------------------------------------------------
(***************************************************************************)
(* Rebuilding a tree.                                                      *)
(***************************************************************************)
LEMMA NextNetType == ASSUME NEW S, S \subseteq Nets, S # {} PROVE NextNet(S) \in S
<1>1. S \subseteq Nat BY BoundsAssumption
<1>2. \E n \in S : \A m \in S : n <= m BY <1>1, LeastNumber
<1>. QED BY <1>2 DEF NextNet

LEMMA OtherNets ==
  ASSUME NEW n, NEW m \in Nets \ {n}, NEW j \in 1..SubNetCount(m)
  PROVE  <<m, j>> \in SubNets \ SubNetsOf(n)
BY SubNetShape DEF SubNetsOf, NetOf

(* The ends of one net are exchanged for the edges of another tree. *)
LEMMA NewEnds ==
  ASSUME TypeOK, Grown, NEW n \in Nets, NEW g \in [SubNetsOf(n) -> Tiles \X Tiles],
         TreeOf(g, n) \in GrownTrees(n), ends' = Overwrite(ends, g)
  PROVE  /\ ends' \in [SubNets -> Tiles \X Tiles] /\ Grown'
         /\ \A s \in SubNetsOf(n) : ends'[s] = g[s]
         /\ \A s \in SubNets \ SubNetsOf(n) : ends'[s] = ends[s]
<1>1. /\ \A s \in SubNetsOf(n) : ends'[s] = g[s]
      /\ \A s \in SubNets \ SubNetsOf(n) : ends'[s] = ends[s]
      /\ ends' = [s \in SubNets |-> IF s \in SubNetsOf(n) THEN g[s] ELSE ends[s]]
  BY DEF Overwrite, SubNetsOf
<1>2. ends' \in [SubNets -> Tiles \X Tiles] BY <1>1 DEF TypeOK
<1>3. TreeOf(ends', n) = TreeOf(g, n) BY <1>1, SubNetShape DEF TreeOf
<1>4. ASSUME NEW m \in Nets, m # n PROVE TreeOf(ends', m) = TreeOf(ends, m)
  BY <1>1, <1>4, OtherNets DEF TreeOf
<1>5. Grown' BY <1>3, <1>4 DEF Grown, TreeOf
<1>. QED BY <1>1, <1>2, <1>5

LEMMA TakeApartInv == ASSUME IInv, TakeTreeApart PROVE IInv'
<1> DEFINE n == NextNet(todo)
<1>1. /\ phase = "redo" /\ phase' = "mst" /\ todo # {}
      /\ UNCHANGED <<iter, prev>> /\ todo' = todo \ {n}
  BY DEF TakeTreeApart
<1>2. PICK T \in GrownTrees(n) :
        /\ saved' = [net |-> n, next |-> 1, ends |-> RestrictTo(ends, n),
                      segments |-> RestrictTo(segments, n)]
        /\ ends' = Overwrite(ends, [s \in SubNetsOf(n) |-> T[s[2]]])
        /\ segments' = Overwrite(segments, [s \in SubNetsOf(n) |-> {}])
        /\ routed' = Overwrite(routed, [s \in SubNetsOf(n) |-> FALSE])
  BY DEF TakeTreeApart
<1>3. n \in Nets BY <1>1, NextNetType DEF IInv, TypeOK
<1> HIDE DEF n
<1> DEFINE g == [s \in SubNetsOf(n) |-> T[s[2]]]
<1>4. /\ g \in [SubNetsOf(n) -> Tiles \X Tiles] /\ TreeOf(g, n) = T
  <2>1. \A s \in SubNetsOf(n) : s[2] \in 1..SubNetCount(n)
    BY SubNetShape DEF SubNetsOf
  <2>2. \A j \in 1..SubNetCount(n) : T[j] \in Tiles \X Tiles BY <1>3, TreeEnds
  <2>3. g \in [SubNetsOf(n) -> Tiles \X Tiles] BY <2>1, <2>2
  <2>4. \A j \in 1..SubNetCount(n) : <<n, j>> \in SubNetsOf(n) /\ g[<<n, j>>] = T[j]
    BY <1>3, SubNetShape
  <2>5. T = [j \in 1..SubNetCount(n) |-> T[j]] BY DEF GrownTrees
  <2>. HIDE DEF g
  <2>. QED BY <2>3, <2>4, <2>5 DEF TreeOf
<1>5. ends' \in [SubNets -> Tiles \X Tiles] /\ Grown'
      /\ \A s \in SubNets \ SubNetsOf(n) : ends'[s] = ends[s]
  <2>. HIDE DEF g
  <2>. QED BY <1>2, <1>3, <1>4, NewEnds DEF IInv, g
<1>6. /\ segments' \in [SubNets -> SUBSET Edges] /\ routed' \in [SubNets -> BOOLEAN]
      /\ \A s \in SubNetsOf(n) : segments'[s] = {} /\ ~routed'[s]
      /\ \A s \in SubNets \ SubNetsOf(n) : segments'[s] = segments[s] /\ routed'[s] = routed[s]
  BY <1>2 DEF IInv, TypeOK, Overwrite, SubNetsOf
<1>7. /\ saved'.net = n /\ saved'.next = 1
      /\ saved'.ends \in [SubNetsOf(n) -> Tiles \X Tiles]
      /\ saved'.segments \in [SubNetsOf(n) -> SUBSET Edges]
      /\ \A s \in SubNetsOf(n) : saved'.ends[s] = ends[s] /\ saved'.segments[s] = segments[s]
  BY <1>2 DEF IInv, TypeOK, RestrictTo, SubNetsOf
<1>8. TypeOK' BY <1>1, <1>3, <1>5, <1>6, <1>7 DEF IInv, TypeOK
<1>9. RoutedSubNetsHaveRoutes'
  <2>. SUFFICES ASSUME NEW s \in SubNets
                PROVE  IF routed'[s] THEN segments'[s] \in Paths(ends'[s]) ELSE segments'[s] = {}
    BY DEF RoutedSubNetsHaveRoutes
  <2>1. CASE s \in SubNetsOf(n) BY <1>6, <2>1
  <2>2. CASE s \notin SubNetsOf(n) BY <1>5, <1>6, <2>2 DEF IInv, RoutedSubNetsHaveRoutes
  <2>. QED BY <2>1, <2>2
<1>10. OldTree'
  <2>1. TreeOf(saved'.ends, n) = TreeOf(ends, n) BY <1>3, <1>7, SubNetShape DEF TreeOf
  <2>2. TreeOf(saved'.ends, n) \in GrownTrees(n) BY <1>3, <2>1 DEF IInv, Grown
  <2>3. \A s \in SubNetsOf(n) : saved'.segments[s] \in Paths(saved'.ends[s])
    BY <1>1, <1>7 DEF IInv, AllRouted, RoutedSubNetsHaveRoutes, SubNetsOf
  <2>4. 1 \in 1..SubNetCount(n)+1 BY <1>3, PinsFinite
  <2>5. saved' = [net |-> saved'.net, next |-> saved'.next, ends |-> saved'.ends,
                  segments |-> saved'.segments]
    BY <1>2
  <2>. QED BY <1>3, <1>6, <1>7, <2>2, <2>3, <2>4, <2>5 DEF OldTree, TreeOf
<1>11. AllRouted' BY <1>1, <1>6, <1>7 DEF IInv, AllRouted
<1>. QED BY <1>1, <1>5, <1>8, <1>9, <1>10, <1>11 DEF IInv, Limits, LeftUnrouted,
     StopsWhenLegal, GreedyLegal

LEMMA RouteTreeInv == ASSUME IInv, RouteTree PROVE IInv'
<1> DEFINE n == saved.net
           s == <<n, saved.next>>
           C == Routes(segments, s, TRUE, TRUE)
<1>1. /\ phase = "mst" /\ saved.next <= SubNetCount(n) /\ Take(segments, s, C)
      /\ saved' = [saved EXCEPT !.next = @ + 1]
      /\ UNCHANGED <<phase, ends, todo, iter, prev>>
  BY DEF RouteTree
<1>2. /\ n \in Nets /\ saved.next \in 1..SubNetCount(n)+1 /\ SubNetCount(n) \in Nat
      /\ saved.ends \in [SubNetsOf(n) -> Tiles \X Tiles]
      /\ saved.segments \in [SubNetsOf(n) -> SUBSET Edges]
      /\ TreeOf(saved.ends, n) \in GrownTrees(n)
      /\ \A r \in SubNetsOf(n) : /\ saved.segments[r] \in Paths(saved.ends[r])
                                 /\ r[2] >= saved.next => ~routed[r]
  BY <1>1, PinsFinite DEF IInv, OldTree
<1>3. saved.next \in 1..SubNetCount(n) BY <1>1, <1>2
<1>4. s \in SubNetsOf(n) /\ s \in SubNets /\ s[2] = saved.next BY <1>2, <1>3, SubNetShape
<1>5. segments[s] = {} BY <1>2, <1>3, <1>4 DEF IInv, RoutedSubNetsHaveRoutes
<1>6. C \subseteq Paths(ends[s]) BY RoutesType
<1>. HIDE DEF C
<1>7. /\ segments' \in [SubNets -> SUBSET Edges] /\ routed' \in [SubNets -> BOOLEAN]
      /\ RoutedSubNetsHaveRoutes'
      /\ \A r \in SubNets \ {s} : routed'[r] = routed[r]
  <2>1. TypeOK /\ RoutedSubNetsHaveRoutes /\ segments \in [SubNets -> SUBSET Edges]
    BY DEF IInv, TypeOK
  <2>. HIDE DEF s
  <2>. QED BY <1>1, <1>4, <1>5, <1>6, <2>1, TakeOne
<1>8. /\ saved'.net = n /\ saved'.next = saved.next + 1
      /\ saved'.ends = saved.ends /\ saved'.segments = saved.segments
  <2>1. saved = [net |-> n, next |-> saved.next, ends |-> saved.ends,
                 segments |-> saved.segments]
    BY <1>1 DEF IInv, OldTree
  <2>. QED BY <1>1, <2>1
<1>9. TypeOK' BY <1>1, <1>2, <1>7, <1>8 DEF IInv, TypeOK
<1>10. Grown' BY <1>1 DEF IInv, Grown
<1>11. AllRouted'
  <2>1. \A r \in SubNets \ SubNetsOf(n) : routed[r] BY <1>1 DEF IInv, AllRouted
  <2>. QED BY <1>1, <1>4, <1>7, <1>8, <2>1 DEF AllRouted
<1>12. OldTree'
  <2>1. ASSUME NEW r \in SubNetsOf(n), r[2] >= saved.next + 1 PROVE ~routed'[r]
    <3>1. r \in SubNets /\ r[2] \in Int BY <1>2, SubNetShape DEF SubNetsOf
    <3>2. r # s /\ r[2] >= saved.next BY <1>2, <1>4, <2>1, <3>1
    <3>. QED BY <1>2, <1>7, <3>1, <3>2
  <2>2. saved' = [net |-> saved'.net, next |-> saved'.next, ends |-> saved'.ends,
                  segments |-> saved'.segments]
    <3>1. saved = [net |-> n, next |-> saved.next, ends |-> saved.ends,
                   segments |-> saved.segments]
      BY <1>1 DEF IInv, OldTree
    <3>. QED BY <1>1, <3>1
  <2>. QED BY <1>2, <1>3, <1>8, <2>1, <2>2 DEF OldTree, TreeOf
<1>. QED BY <1>1, <1>7, <1>9, <1>10, <1>11, <1>12 DEF IInv, Limits, LeftUnrouted,
     StopsWhenLegal, GreedyLegal

LEMMA KeepBestInv == ASSUME IInv, KeepBestTree PROVE IInv'
<1> DEFINE n == saved.net
<1>1. /\ phase = "mst" /\ phase' = "redo" /\ saved' = NoTree
      /\ UNCHANGED <<todo, iter, prev>>
      /\ routed' = Overwrite(routed, [s \in SubNetsOf(n) |-> TRUE])
  BY DEF KeepBestTree
<1>2. /\ n \in Nets
      /\ saved.ends \in [SubNetsOf(n) -> Tiles \X Tiles]
      /\ saved.segments \in [SubNetsOf(n) -> SUBSET Edges]
      /\ TreeOf(saved.ends, n) \in GrownTrees(n)
      /\ \A s \in SubNetsOf(n) : saved.segments[s] \in Paths(saved.ends[s])
  BY <1>1 DEF IInv, OldTree
<1>3. routed' \in [SubNets -> BOOLEAN] /\ \A s \in SubNets : routed'[s]
  <2>1. \A s \in SubNets \ SubNetsOf(n) : routed[s] /\ routed[s] \in BOOLEAN
    BY <1>1 DEF IInv, AllRouted, TypeOK
  <2>2. routed' = [s \in SubNets |-> IF s \in SubNetsOf(n) THEN TRUE ELSE routed[s]]
    BY <1>1 DEF Overwrite
  <2>. QED BY <2>1, <2>2
<1>4. /\ ends' \in [SubNets -> Tiles \X Tiles] /\ segments' \in [SubNets -> SUBSET Edges]
      /\ Grown' /\ \A s \in SubNets : segments'[s] \in Paths(ends'[s])
  <2>1. CASE NewTreeCanWin /\ UNCHANGED <<ends, segments>>
    <3>1. \A s \in SubNets : routed[s]
      BY <1>1, <2>1 DEF IInv, AllRouted, NewTreeCanWin
    <3>2. \A s \in SubNets : segments[s] \in Paths(ends[s])
      BY <3>1 DEF IInv, RoutedSubNetsHaveRoutes
    <3>. QED BY <2>1, <3>2 DEF IInv, TypeOK, Grown
  <2>2. CASE ends' = Overwrite(ends, saved.ends) /\ segments' = Overwrite(segments, saved.segments)
    <3>1. /\ ends' \in [SubNets -> Tiles \X Tiles] /\ Grown'
          /\ \A s \in SubNetsOf(n) : ends'[s] = saved.ends[s]
          /\ \A s \in SubNets \ SubNetsOf(n) : ends'[s] = ends[s]
      BY <1>2, <2>2, NewEnds DEF IInv
    <3>2. segments' = [s \in SubNets |-> IF s \in SubNetsOf(n) THEN saved.segments[s]
                                                               ELSE segments[s]]
      BY <1>2, <2>2 DEF Overwrite
    <3>3. segments' \in [SubNets -> SUBSET Edges] BY <1>2, <3>2 DEF IInv, TypeOK
    <3>4. \A s \in SubNets \ SubNetsOf(n) : segments[s] \in Paths(ends[s])
      BY <1>1 DEF IInv, AllRouted, RoutedSubNetsHaveRoutes
    <3>. QED BY <1>2, <3>1, <3>2, <3>3, <3>4
  <2>. QED BY <2>1, <2>2 DEF KeepBestTree
<1>5. TypeOK'
  <2>1. todo' \subseteq Nets BY <1>1 DEF IInv, TypeOK
  <2>. QED BY <1>1, <1>3, <1>4, <2>1 DEF IInv, TypeOK
<1>6. RoutedSubNetsHaveRoutes' BY <1>3, <1>4 DEF RoutedSubNetsHaveRoutes
<1>7. AllRouted' BY <1>1, <1>3 DEF AllRouted
<1>. QED BY <1>1, <1>4, <1>5, <1>6, <1>7 DEF IInv, Limits, LeftUnrouted, OldTree,
     StopsWhenLegal, GreedyLegal

-----------------------------------------------------------------------------
LEMMA StepInv == IInv /\ [Next]_vars => IInv'
<1>1. ASSUME IInv, Next PROVE IInv'
  BY <1>1, QuietInv, RouteInitially, RipInv, ImproveInv, TakeApartInv, RouteTreeInv, KeepBestInv
     DEF Next
<1>2. ASSUME IInv, UNCHANGED vars PROVE IInv'
  BY <1>2 DEF vars, IInv, TypeOK, Limits, Grown, RoutedSubNetsHaveRoutes, AllRouted,
     LeftUnrouted, OldTree, StopsWhenLegal, GreedyLegal, Legal
<1>. QED BY <1>1, <1>2

THEOREM Invariant == Spec => []IInv
<1>. QED BY InitInv, StepInv, PTL DEF Spec

(***************************************************************************)
(* A subnet marked routed has a route between its own ends, whatever trees *)
(* redoTree builds and puts back.                                          *)
(***************************************************************************)
THEOREM RoutesBelongToSubNets == Spec => []RoutedSubNetsHaveRoutes
<1>. QED BY Invariant, PTL DEF IInv

(***************************************************************************)
(* From the end of the initial routing on the routes of a net connect all  *)
(* its pins, whenever the router is between two nets.                      *)
(***************************************************************************)
THEOREM NetsAlwaysConnected == Spec => []NetsConnected
<1>1. IInv => NetsConnected
  BY RoutedNetJoins DEF IInv, NetsConnected, AllRouted, SubNetsOf
<1>. QED BY <1>1, Invariant, PTL

(***************************************************************************)
(* Greedy improvement always finds a route for what it ripped up, and the  *)
(* solution is legal after every one.                                      *)
(***************************************************************************)
THEOREM GreedyIsLegal == Spec => []GreedyStaysLegal
<1>1. IInv => GreedyStaysLegal
  BY CountsType DEF IInv, GreedyStaysLegal, GreedyLegal, AllRouted
<1>. QED BY <1>1, Invariant, PTL

(***************************************************************************)
(* Rip-up and re-route and greedy improvement never give up a solution     *)
(* without overfull edges.                                                 *)
(***************************************************************************)
THEOREM LegalForGood == Spec => LegalIsKept
<1>1. ASSUME IInv, Next, phase \in {"rip", "rrr", "rrrDone", "greedy"}, Legal(segments)
      PROVE  Legal(segments')
  <2>1. CASE FlatDone \/ RestDone \/ StartIteration \/ NoMoreToRip \/ EndIteration
               \/ SkipSmallNet \/ StartGreedy \/ EndGreedyIteration
    <3>1. UNCHANGED segments
      BY <2>1 DEF FlatDone, RestDone, StartIteration, NoMoreToRip, EndIteration, SkipSmallNet,
         StartGreedy, EndGreedyIteration
    <3>. QED BY <1>1, <3>1
  <2>2. CASE RipAndReroute
    <3>1. phase = "rip" /\ todo # {} BY <2>2 DEF RipAndReroute, NextInOrder
    <3>. QED BY <1>1, <3>1 DEF IInv, StopsWhenLegal
  <2>3. CASE Improve
    <3>1. phase' = "greedy" BY <2>3 DEF Improve
    <3>. QED BY <1>1, <2>3, <3>1, ImproveInv DEF IInv, GreedyLegal, Legal
  <2>4. CASE RouteFlat \/ RouteRest \/ TakeTreeApart \/ RouteTree \/ KeepBestTree
    BY <1>1, <2>4 DEF RouteFlat, RouteRest, TakeTreeApart, RouteTree, KeepBestTree
  <2>. QED BY <1>1, <2>1, <2>2, <2>3, <2>4 DEF Next
<1>2. IInv /\ [Next]_vars =>
        [(phase \in {"rip", "rrr", "rrrDone", "greedy"} /\ Legal(segments)) => Legal(segments')]_vars
  BY <1>1
<1>. QED BY <1>2, Invariant, PTL DEF Spec, LegalIsKept

(***************************************************************************)
(* Stuck stays stuck: no tree of a net with one subnet is rebuilt, so the  *)
(* totals repeat, and nothing is done about the overfull edges.            *)
(***************************************************************************)
StuckInv ==
  /\ phase \in {"rrr", "redo", "rrrDone", "done"} /\ NothingChanged
  /\ SubNetsToRip # {}
  /\ \A s \in SubNetsToRip : SubNetCount(NetOf(s)) = 1
  /\ phase = "redo" => \A n \in todo : SubNetCount(n) = 1

LEMMA StuckStep == IInv /\ StuckInv /\ [Next]_vars => StuckInv'
<1>. SUFFICES ASSUME IInv, StuckInv, [Next]_vars PROVE StuckInv' OBVIOUS
<1>1. ~Legal(segments)
  BY DEF IInv, AllRouted, StuckInv, SubNetsToRip, Legal
<1>2. TotalOverflow(segments) \in Nat /\ TotalOverflow(segments) # 0 BY <1>1, CountsType
<1>3. ASSUME UNCHANGED <<segments, routed>>
      PROVE  SubNetsToRip' = SubNetsToRip
             /\ Totals(segments') = Totals(segments)
  BY <1>3 DEF SubNetsToRip
<1>4. CASE StartIteration
  <2>1. /\ UNCHANGED <<segments, routed>> /\ prev' = Totals(segments)
        /\ phase' = "redo" /\ todo' = {NetOf(s) : s \in SubNetsToRip}
    BY <1>4 DEF StartIteration, StuckInv
  <2>. QED BY <1>3, <2>1 DEF StuckInv, NothingChanged
<1>5. CASE EndIteration
  <2>1. UNCHANGED <<segments, routed, prev>> /\ phase' \in {"rrr", "rrrDone"}
    BY <1>5 DEF EndIteration
  <2>. QED BY <1>3, <2>1 DEF StuckInv, NothingChanged
<1>6. CASE SkipSmallNet
  <2>1. /\ UNCHANGED <<segments, routed, prev, phase>> /\ todo' \subseteq todo
    BY <1>6 DEF SkipSmallNet
  <2>. QED BY <1>3, <2>1 DEF StuckInv, NothingChanged
<1>7. CASE StartGreedy
  <2>1. UNCHANGED <<segments, routed, prev>> /\ phase' = "done"
    BY <1>2, <1>7 DEF StartGreedy
  <2>. QED BY <1>3, <2>1 DEF StuckInv, NothingChanged
<1>8. CASE TakeTreeApart
  <2>1. phase = "redo" /\ todo # {} /\ ~(SubNetCount(NextNet(todo)) <= 1)
    BY <1>8 DEF TakeTreeApart, HasOneSubNet
  <2>2. NextNet(todo) \in todo BY <2>1, NextNetType DEF IInv, TypeOK
  <2>. QED BY <2>1, <2>2 DEF StuckInv
<1>9. CASE NoMoreToRip BY <1>9 DEF NoMoreToRip, StuckInv
<1>10. CASE RouteFlat \/ FlatDone \/ RouteRest \/ RestDone \/ RipAndReroute \/ RouteTree
            \/ KeepBestTree \/ Improve \/ EndGreedyIteration
  BY <1>10 DEF StuckInv, RouteFlat, FlatDone, RouteRest, RestDone, RipAndReroute, RouteTree,
     KeepBestTree, Improve, EndGreedyIteration
<1>11. CASE UNCHANGED vars
  <2>1. UNCHANGED <<phase, todo, segments, routed, prev>> BY <1>11 DEF vars
  <2>. QED BY <1>3, <2>1 DEF StuckInv, NothingChanged
<1>. QED BY <1>4, <1>5, <1>6, <1>7, <1>8, <1>9, <1>10, <1>11 DEF Next

(***************************************************************************)
(* When an iteration repeats the totals of the last one and only nets of   *)
(* one subnet are in conflict, the overflow is there to stay, and the      *)
(* greedy phase is never entered.                                          *)
(***************************************************************************)
THEOREM StuckIsForGood == Spec => StuckForGood
<1>1. Stuck => StuckInv BY DEF Stuck, StuckInv
<1>2. IInv /\ StuckInv => TotalOverflow(segments) > 0 /\ phase # "greedy"
  <2>1. IInv /\ StuckInv => ~Legal(segments)
    BY DEF IInv, AllRouted, StuckInv, SubNetsToRip, Legal
  <2>. QED BY <2>1, CountsType DEF StuckInv
<1>. QED BY <1>1, <1>2, StuckStep, Invariant, PTL DEF Spec, StuckForGood
===============================================================================
