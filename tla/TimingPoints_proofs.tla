-------------------------- MODULE TimingPoints_proofs --------------------------
(***************************************************************************)
(* Proofs that the list of timing points stays a ring with right           *)
(* boundaries and the order it is meant to keep, whatever points are       *)
(* placed and deleted; that under buffering it stays a topological order   *)
(* of the netlist; and that timing analysis over it finds the worst times  *)
(* and the worst paths.                                                    *)
(***************************************************************************)
EXTENDS StaticTiming, FiniteSetTheorems, WellFoundedInduction, TLAPS

(***************************************************************************)
(* Numbers, and functions defined by recursion over them.                  *)
(***************************************************************************)
LEMMA LeastNumber ==
  ASSUME NEW K, K \subseteq Nat, K # {}
  PROVE  \E k \in K : \A j \in K : k <= j
<1> DEFINE R == StrictSubsetOrdering(Nat)
           F == {0..k : k \in K}
<1>1. IsWellFoundedOn(R, FiniteSubsetsOf(Nat)) BY FS_StrictSubsetOrderingWellFounded
<1>2. F \subseteq FiniteSubsetsOf(Nat)
  <2>. SUFFICES ASSUME NEW k \in K PROVE 0..k \in FiniteSubsetsOf(Nat) OBVIOUS
  <2>1. IsFiniteSet(0..k) BY FS_Interval
  <2>. QED BY <2>1 DEF FiniteSubsetsOf
<1>3. F # {} OBVIOUS
<1>. HIDE DEF R, F
<1>4. PICK x \in F : \A y \in F : <<y, x>> \notin R BY <1>1, <1>2, <1>3, WFMin
<1>. USE DEF R, F
<1>5. PICK k \in K : x = 0..k BY <1>4 DEF F
<1>6. ASSUME NEW j \in K PROVE k <= j
  <2>. SUFFICES ASSUME j < k PROVE FALSE OBVIOUS
  <2>1. 0..j \subseteq 0..k /\ 0..j # 0..k OBVIOUS
  <2>2. 0..j \in F OBVIOUS
  <2>3. 0..j \in SUBSET Nat /\ 0..k \in SUBSET Nat OBVIOUS
  <2>4. <<0..j, 0..k>> \in R BY <2>1, <2>3 DEF StrictSubsetOrdering
  <2>. QED BY <1>4, <1>5, <2>2, <2>4
<1>. QED BY <1>6

(* A set of numbers with 0 and the successors of its members below n has all
   numbers up to n. *)
LEMMA Climb ==
  ASSUME NEW n \in Nat, NEW K, 0 \in K, \A k \in 0..n : k \in K /\ k + 1 \in 0..n => k + 1 \in K
  PROVE  0..n \subseteq K
<1> DEFINE M == {k \in 0..n : k \notin K}
<1> SUFFICES ASSUME M # {} PROVE FALSE OBVIOUS
<1>1. M \subseteq Nat OBVIOUS
<1>2. PICK k \in M : \A j \in M : k <= j BY <1>1, LeastNumber
<1>3. k \in 0..n /\ k # 0 /\ k - 1 \in 0..n /\ (k - 1) + 1 = k BY <1>2
<1>4. k - 1 \in K BY <1>2, <1>3
<1>. QED BY <1>2, <1>3, <1>4

(* f gives x, F[1][x], F[2][F[1][x]] and so on. *)
Iterates(f, x, F, S) ==
  f \in [Nat -> S] /\ f[0] = x /\ \A n \in Nat \ {0} : f[n] = F[n][f[n - 1]]

LEMMA RecursionExists ==
  ASSUME NEW S, NEW x \in S, NEW F, F \in [Nat -> [S -> S]]
  PROVE  \E f : Iterates(f, x, F, S)
<1> DEFINE Runs(k) == {p \in [0..k -> S] : p[0] = x /\ \A i \in 1..k : p[i] = F[i][p[i - 1]]}
<1>1. ASSUME NEW k \in Nat, NEW p \in Runs(k)
      PROVE  [i \in 0..(k + 1) |-> IF i = k + 1 THEN F[k + 1][p[k]] ELSE p[i]] \in Runs(k + 1)
  <2> DEFINE q == [i \in 0..(k + 1) |-> IF i = k + 1 THEN F[k + 1][p[k]] ELSE p[i]]
  <2>1. p \in [0..k -> S] /\ p[0] = x /\ \A i \in 1..k : p[i] = F[i][p[i - 1]] OBVIOUS
  <2>2. \A i \in 0..(k + 1) : i = k + 1 \/ i \in 0..k OBVIOUS
  <2>3. F[k + 1][p[k]] \in S BY <2>1
  <2>4. q \in [0..(k + 1) -> S] BY <2>1, <2>2, <2>3
  <2>5. \A i \in 0..k : q[i] = p[i] OBVIOUS
  <2>6. ASSUME NEW i \in 1..(k + 1) PROVE q[i] = F[i][q[i - 1]]
    <3>1. CASE i = k + 1 BY <2>5, <3>1
    <3>2. CASE i \in 1..k
      <4>1. i - 1 \in 0..k /\ i \in 0..k BY <3>2
      <4>. QED BY <2>1, <2>5, <3>2, <4>1
    <3>. QED BY <3>1, <3>2
  <2>7. q[0] = x BY <2>1, <2>5
  <2>. QED BY <2>4, <2>6, <2>7
<1>2. \A k \in Nat : Runs(k) # {}
  <2> SUFFICES ASSUME NEW n \in Nat PROVE Runs(n) # {} OBVIOUS
  <2> DEFINE K == {k \in Nat : Runs(k) # {}}
  <2>1. [i \in 0..0 |-> x] \in Runs(0) OBVIOUS
  <2>2. 0 \in K BY <2>1
  <2>3. ASSUME NEW k \in 0..n, k \in K, k + 1 \in 0..n PROVE k + 1 \in K
    <3>1. PICK p \in Runs(k) : TRUE BY <2>3
    <3>2. k \in Nat /\ k + 1 \in Nat OBVIOUS
    <3> HIDE DEF Runs
    <3>3. Runs(k + 1) # {} BY <1>1, <3>2
    <3>. QED BY <3>2, <3>3
  <2> HIDE DEF Runs, K
  <2>4. 0..n \subseteq K BY <2>2, <2>3, Climb
  <2>. QED BY <2>4 DEF K
<1>3. ASSUME NEW k \in Nat, NEW p \in Runs(k), NEW q \in Runs(k) PROVE p[k] = q[k]
  <2> DEFINE K == {i \in 0..k : p[i] = q[i]}
  <2>1. 0 \in K OBVIOUS
  <2>2. \A i \in 0..k : i \in K /\ i + 1 \in 0..k => i + 1 \in K
    <3> SUFFICES ASSUME NEW i \in 0..k, i \in K, i + 1 \in 0..k PROVE p[i + 1] = q[i + 1]
      OBVIOUS
    <3>1. i + 1 \in 1..k /\ (i + 1) - 1 = i OBVIOUS
    <3>2. p[i + 1] = F[i + 1][p[(i + 1) - 1]] /\ q[i + 1] = F[i + 1][q[(i + 1) - 1]] BY <3>1
    <3>. QED BY <3>1, <3>2
  <2> HIDE DEF Runs, K
  <2>3. 0..k \subseteq K BY <2>1, <2>2, Climb
  <2>. QED BY <2>3 DEF K
<1> DEFINE f == [k \in Nat |-> (CHOOSE p \in Runs(k) : TRUE)[k]]
<1>4. \A k \in Nat : \E p \in Runs(k) : f[k] = p[k]
  <2> HIDE DEF Runs
  <2>. QED BY <1>2
<1>5. f \in [Nat -> S]
  <2>1. \A k \in Nat : f[k] \in S
    <3> TAKE k \in Nat
    <3>1. PICK p \in Runs(k) : f[k] = p[k] BY <1>4
    <3>. QED BY <3>1
  <2> HIDE DEF Runs
  <2>. QED BY <2>1
<1>6. f[0] = x
  <2>1. PICK p \in Runs(0) : f[0] = p[0] BY <1>4
  <2>. QED BY <2>1
<1>7. ASSUME NEW n \in Nat \ {0} PROVE f[n] = F[n][f[n - 1]]
  <2> DEFINE k == n - 1
  <2>1. k \in Nat /\ k + 1 = n OBVIOUS
  <2>2. PICK p \in Runs(k) : f[k] = p[k] BY <1>4, <2>1
  <2>3. PICK r \in Runs(n) : f[n] = r[n] BY <1>4
  <2> DEFINE q == [i \in 0..(k + 1) |-> IF i = k + 1 THEN F[k + 1][p[k]] ELSE p[i]]
  <2> HIDE DEF f, Runs, k
  <2>4. q \in Runs(n) BY <1>1, <2>1
  <2>5. f[n] = q[n] BY <1>3, <2>3, <2>4
  <2>6. q[n] = F[n][p[k]] BY <2>1
  <2>. QED BY <2>2, <2>5, <2>6 DEF k
<1> HIDE DEF f, Runs
<1>. QED BY <1>5, <1>6, <1>7 DEF Iterates

(* Walk goes from place to place along the links. *)
LEMMA WalkSteps ==
  ASSUME NEW link \in [Places -> Places]
  PROVE  Walk(link, 0) = Root /\ \A k \in Nat : Walk(link, k + 1) = link[Walk(link, k)]
<1> DEFINE w == CHOOSE f : f = [k \in Nat |-> IF k = 0 THEN Root ELSE link[f[k - 1]]]
           F == [k \in Nat |-> link]
<1>1. Root \in Places BY DEF Places
<1>0. F \in [Nat -> [Places -> Places]] OBVIOUS
<1> HIDE DEF F
<1>2. PICK f : Iterates(f, Root, F, Places) BY <1>0, <1>1, RecursionExists
<1>3. f \in [Nat -> Places] /\ \A n \in Nat : f[n] = IF n = 0 THEN Root ELSE link[f[n - 1]]
  BY <1>2 DEF F, Iterates
<1>4. f = [n \in Nat |-> IF n = 0 THEN Root ELSE link[f[n - 1]]] BY <1>3
<1>5. w = [k \in Nat |-> IF k = 0 THEN Root ELSE link[w[k - 1]]] BY <1>4
<1>6. \A k \in Nat : Walk(link, k) = w[k] BY DEF Walk
<1> HIDE DEF w
<1>7. w[0] = Root BY <1>5
<1>8. \A k \in Nat : w[k + 1] = link[w[k]]
  <2> TAKE k \in Nat
  <2>1. k + 1 \in Nat /\ k + 1 # 0 /\ (k + 1) - 1 = k OBVIOUS
  <2>2. w[k + 1] = link[w[(k + 1) - 1]] BY <1>5, <2>1
  <2>. QED BY <2>1, <2>2
<1>. QED BY <1>6, <1>7, <1>8

-----------------------------------------------------------------------------
(***************************************************************************)
(* The ring of a sequence of points, and its sections.                     *)
(***************************************************************************)
At(s, i) == IF i \in 1..Len(s) THEN s[i] ELSE Root

Threads(l, s) ==
  /\ l \in Lists
  /\ s \in Seq(Points) /\ IsInjective(s)
  /\ \A i \in 0..Len(s) : l.next[At(s, i)] = At(s, i + 1)
  /\ \A i \in 1..Len(s) + 1 : l.prev[At(s, i)] = At(s, i - 1)
  /\ \A p \in Points \ ToSet(s) : l.next[p] = Root /\ l.prev[p] = Root

(* The first n points of s are its start points, the last m its end points,
   and there are points between them. *)
Sectioned(s, n, m) ==
  /\ n \in Nat /\ m \in Nat /\ n + m < Len(s)
  /\ \A i \in 1..Len(s) : /\ s[i] \in StartPoints <=> i <= n
                          /\ s[i] \in EndPoints <=> i > Len(s) - m

Bounds(l, s) ==
  /\ Sectioned(s, l.starts, l.ends)
  /\ l.first = s[l.starts + 1] /\ l.last = s[Len(s) - l.ends]

Holds(l, s) == Threads(l, s) /\ Bounds(l, s) /\ Len(s) > 1

LEMMA PointSets ==
  /\ IsFiniteSet(Points) /\ Root \notin Points /\ Points \subseteq Places /\ Root \in Places
  /\ Places = Points \cup {Root}
  /\ Cardinality(Points) \in Nat
  /\ Cardinality(StartPoints) \in Nat /\ Cardinality(EndPoints) \in Nat
<1>1. IsFiniteSet(StartPoints) /\ IsFiniteSet(EndPoints) /\ IsFiniteSet(InternalPoints)
  BY PointsAssumption
<1>2. IsFiniteSet(Points) BY <1>1, FS_Union DEF Points
<1>. QED BY <1>1, <1>2, FS_CardinalityType, PointsAssumption DEF Points, Places

LEMMA IntervalSize ==
  ASSUME NEW n \in Nat
  PROVE  IsFiniteSet(1..n) /\ Cardinality(1..n) = n
<1>1. IsFiniteSet(1..n) /\ Cardinality(1..n) = IF 1 > n THEN 0 ELSE n - 1 + 1 BY FS_Interval
<1>. QED BY <1>1

LEMMA SeqFacts ==
  ASSUME NEW s \in Seq(Points), IsInjective(s)
  PROVE  /\ Len(s) \in Nat /\ DOMAIN s = 1..Len(s)
         /\ \A i \in 1..Len(s) : s[i] \in Points /\ s[i] \in ToSet(s) /\ s[i] # Root
         /\ \A i, j \in 1..Len(s) : s[i] = s[j] => i = j
         /\ \A p \in ToSet(s) : p \in Points /\ \E i \in 1..Len(s) : p = s[i]
         /\ \A i \in 1..Len(s) : At(s, i) = s[i]
         /\ At(s, 0) = Root /\ At(s, Len(s) + 1) = Root
         /\ \A i : At(s, i) \in Places
         /\ \A i, j \in 0..Len(s) : At(s, i) = At(s, j) => i = j
         /\ \A i, j \in 1..Len(s) + 1 : At(s, i) = At(s, j) => i = j
         /\ Len(s) <= Cardinality(Points)
<1>1. Len(s) \in Nat /\ DOMAIN s = 1..Len(s) /\ \A i \in 1..Len(s) : s[i] \in Points OBVIOUS
<1>2. \A i \in 1..Len(s) : s[i] \in Points /\ s[i] \in ToSet(s) /\ s[i] # Root
  BY <1>1, PointSets DEF ToSet
<1>3. \A i, j \in 1..Len(s) : s[i] = s[j] => i = j BY <1>1 DEF IsInjective
<1>4. \A p \in ToSet(s) : p \in Points /\ \E i \in 1..Len(s) : p = s[i] BY <1>1 DEF ToSet
<1>5. \A i \in 1..Len(s) : At(s, i) = s[i] BY DEF At
<1>6. At(s, 0) = Root /\ At(s, Len(s) + 1) = Root BY <1>1 DEF At
<1>7. \A i : At(s, i) \in Places BY <1>1, PointSets DEF At
<1>8. \A i, j \in 0..Len(s) : At(s, i) = At(s, j) => i = j
  <2> SUFFICES ASSUME NEW i \in 0..Len(s), NEW j \in 0..Len(s), At(s, i) = At(s, j) PROVE i = j
    OBVIOUS
  <2>1. (i = 0 \/ i \in 1..Len(s)) /\ (j = 0 \/ j \in 1..Len(s)) BY <1>1
  <2>. QED BY <1>2, <1>3, <1>5, <1>6, <2>1
<1>9. \A i, j \in 1..Len(s) + 1 : At(s, i) = At(s, j) => i = j
  <2> SUFFICES ASSUME NEW i \in 1..Len(s) + 1, NEW j \in 1..Len(s) + 1, At(s, i) = At(s, j)
               PROVE  i = j
    OBVIOUS
  <2>1. (i = Len(s) + 1 \/ i \in 1..Len(s)) /\ (j = Len(s) + 1 \/ j \in 1..Len(s)) BY <1>1
  <2>. QED BY <1>2, <1>3, <1>5, <1>6, <2>1
<1>10. Len(s) <= Cardinality(Points)
  <2>1. s \in Injection(1..Len(s), Points) BY <1>1 DEF Injection
  <2>2. Cardinality(1..Len(s)) <= Cardinality(Points) BY <2>1, PointSets, FS_Injection
  <2>3. Cardinality(1..Len(s)) = Len(s) BY <1>1, IntervalSize
  <2>. QED BY <2>2, <2>3
<1>. QED BY <1>1, <1>2, <1>3, <1>4, <1>5, <1>6, <1>7, <1>8, <1>9, <1>10

(* Along the links from the root lie the points of the sequence. *)
LEMMA WalkAlong ==
  ASSUME NEW l, NEW s, Threads(l, s)
  PROVE  \A i \in 0..Len(s) + 1 : /\ Walk(l.next, i) = At(s, i)
                                  /\ Walk(l.prev, i) = At(s, Len(s) + 1 - i)
<1>1. /\ l.next \in [Places -> Places] /\ l.prev \in [Places -> Places]
      /\ s \in Seq(Points) /\ IsInjective(s)
      /\ \A i \in 0..Len(s) : l.next[At(s, i)] = At(s, i + 1)
      /\ \A i \in 1..Len(s) + 1 : l.prev[At(s, i)] = At(s, i - 1)
  BY DEF Threads, Lists
<1>2. Len(s) \in Nat /\ At(s, 0) = Root /\ At(s, Len(s) + 1) = Root BY <1>1, SeqFacts
<1> DEFINE n == Len(s) + 1
           K == {i \in 0..n : Walk(l.next, i) = At(s, i) /\ Walk(l.prev, i) = At(s, n - i)}
<1>3. n \in Nat BY <1>2
<1>4. 0 \in K
  <2>1. Walk(l.next, 0) = Root /\ Walk(l.prev, 0) = Root BY <1>1, WalkSteps
  <2>2. n - 0 = n BY <1>3
  <2>. QED BY <1>2, <1>3, <2>1, <2>2
<1>5. ASSUME NEW k \in 0..n, k \in K, k + 1 \in 0..n PROVE k + 1 \in K
  <2>1. k \in 0..Len(s) /\ n - k \in 1..Len(s) + 1 /\ (n - k) - 1 = n - (k + 1)
    BY <1>2, <1>5
  <2>4. k \in Nat OBVIOUS
  <2>5. /\ Walk(l.next, k + 1) = l.next[Walk(l.next, k)]
        /\ Walk(l.prev, k + 1) = l.prev[Walk(l.prev, k)]
    BY <1>1, <2>4, WalkSteps
  <2>2. Walk(l.next, k + 1) = At(s, k + 1) BY <1>1, <1>5, <2>1, <2>5
  <2>3. Walk(l.prev, k + 1) = At(s, n - (k + 1))
    <3>1. l.prev[At(s, n - k)] = At(s, (n - k) - 1) BY <1>1, <2>1
    <3>. QED BY <1>5, <2>1, <2>5, <3>1
  <2>. QED BY <1>5, <2>2, <2>3
<1> HIDE DEF K
<1>6. 0..n \subseteq K BY <1>3, <1>4, <1>5, Climb
<1>. QED BY <1>6 DEF K

(* The points of the list l in list order. *)
OrderIn(l) ==
  LET n == CHOOSE k \in 0..Cardinality(Points) :
             /\ Walk(l.next, k + 1) = Root
             /\ \A i \in 1..k : Walk(l.next, i) # Root
  IN [i \in 1..n |-> Walk(l.next, i)]

LEMMA OrderOfRing ==
  ASSUME NEW l, NEW s, Threads(l, s)
  PROVE  OrderIn(l) = s
<1> DEFINE w(i) == Walk(l.next, i)
           IsEnd(k) == w(k + 1) = Root /\ \A i \in 1..k : w(i) # Root
<1>1. s \in Seq(Points) /\ IsInjective(s) BY DEF Threads
<1>2. /\ Len(s) \in Nat /\ DOMAIN s = 1..Len(s) /\ Len(s) <= Cardinality(Points)
      /\ \A i \in 1..Len(s) : s[i] # Root /\ At(s, i) = s[i]
      /\ At(s, Len(s) + 1) = Root
  BY <1>1, SeqFacts
<1>3. \A i \in 1..Len(s) : w(i) = s[i]
  <2> TAKE i \in 1..Len(s)
  <2>1. i \in 0..Len(s) + 1 BY <1>2
  <2>. QED BY <1>2, <2>1, WalkAlong
<1>4. w(Len(s) + 1) = Root BY <1>2, WalkAlong
<1>5. Len(s) \in 0..Cardinality(Points) /\ IsEnd(Len(s)) BY <1>2, <1>3, <1>4, PointSets
<1>6. ASSUME NEW k \in 0..Cardinality(Points), IsEnd(k) PROVE k = Len(s)
  <2>0. k \in Nat /\ Len(s) \in Nat BY <1>2, PointSets
  <2>1. CASE k < Len(s)
    <3>1. k + 1 \in 1..Len(s) BY <1>2, <2>1, PointSets
    <3>. QED BY <1>2, <1>3, <1>6, <3>1
  <2>2. CASE k > Len(s)
    <3>1. Len(s) + 1 \in 1..k BY <1>2, <2>2, PointSets
    <3>. QED BY <1>4, <1>6, <3>1
  <2>. QED BY <2>0, <2>1, <2>2
<1> HIDE DEF w
<1>7. Len(s) = CHOOSE k \in 0..Cardinality(Points) : IsEnd(k) BY <1>5, <1>6
<1>8. OrderIn(l) = [i \in 1..Len(s) |-> w(i)] BY <1>7 DEF OrderIn, w
<1>9. s = [i \in 1..Len(s) |-> s[i]] BY <1>1, <1>2
<1>. QED BY <1>3, <1>8, <1>9

(* CountStartAndEndPoints finds the sections. *)
LEMMA CountedBounds ==
  ASSUME NEW l, NEW s, NEW n, NEW m, Threads(l, s), Sectioned(s, n, m)
  PROVE  /\ Threads(Counted(l), s) /\ Bounds(Counted(l), s)
         /\ RunLength(l.next, StartPoints) = n /\ RunLength(l.prev, EndPoints) = m
         /\ Counted(l).starts = n /\ Counted(l).ends = m
<1>1. s \in Seq(Points) /\ IsInjective(s) /\ l \in Lists BY DEF Threads
<1>2. /\ Len(s) \in Nat /\ DOMAIN s = 1..Len(s)
      /\ \A i \in 1..Len(s) : At(s, i) = s[i] /\ s[i] \in Points
      /\ \A i, j \in 1..Len(s) : s[i] = s[j] => i = j
  BY <1>1, SeqFacts
<1>3. /\ n \in Nat /\ m \in Nat /\ n + m < Len(s)
      /\ \A i \in 1..Len(s) : /\ s[i] \in StartPoints <=> i <= n
                              /\ s[i] \in EndPoints <=> i > Len(s) - m
  BY DEF Sectioned
<1>4. \A i \in 1..Len(s) : Walk(l.next, i) = s[i] /\ Walk(l.prev, i) = s[Len(s) + 1 - i]
  <2> TAKE i \in 1..Len(s)
  <2>1. i \in 0..Len(s) + 1 /\ Len(s) + 1 - i \in 1..Len(s) BY <1>2
  <2>. QED BY <1>2, <2>1, WalkAlong
<1>5. n \in 0..Cardinality(StartPoints)
  <2> DEFINE f == [i \in 1..n |-> s[i]]
  <2>1. \A i \in 1..n : i \in 1..Len(s) /\ i <= n BY <1>2, <1>3
  <2>2. f \in Injection(1..n, StartPoints) BY <1>2, <1>3, <2>1 DEF Injection, IsInjective
  <2>3. Cardinality(1..n) <= Cardinality(StartPoints) /\ Cardinality(1..n) = n
    BY <1>3, <2>2, FS_Injection, IntervalSize, PointsAssumption
  <2>. QED BY <1>3, <2>3, PointSets
<1>6. m \in 0..Cardinality(EndPoints)
  <2> DEFINE f == [i \in 1..m |-> s[Len(s) + 1 - i]]
  <2>1. \A i \in 1..m : Len(s) + 1 - i \in 1..Len(s) /\ Len(s) + 1 - i > Len(s) - m BY <1>2, <1>3
  <2>2. \A i \in 1..m : f[i] \in EndPoints BY <1>3, <2>1
  <2>3. \A i, j \in 1..m : f[i] = f[j] => i = j
    <3> TAKE i, j \in 1..m
    <3>1. f[i] = f[j] => Len(s) + 1 - i = Len(s) + 1 - j BY <1>2, <2>1
    <3>. QED BY <1>2, <3>1
  <2>4. f \in Injection(1..m, EndPoints) BY <2>2, <2>3 DEF Injection, IsInjective
  <2>5. Cardinality(1..m) <= Cardinality(EndPoints) /\ Cardinality(1..m) = m
    BY <1>3, <2>4, FS_Injection, IntervalSize, PointsAssumption
  <2>. QED BY <1>3, <2>5, PointSets
<1>7. RunLength(l.next, StartPoints) = n
  <2> DEFINE Is(k) == /\ Walk(l.next, k + 1) \notin StartPoints
                      /\ \A i \in 1..k : Walk(l.next, i) \in StartPoints
  <2>1. Is(n)
    <3>1. n + 1 \in 1..Len(s) /\ ~(n + 1 <= n) BY <1>2, <1>3
    <3>2. \A i \in 1..n : i \in 1..Len(s) /\ i <= n BY <1>2, <1>3
    <3>. QED BY <1>3, <1>4, <3>1, <3>2
  <2>2. ASSUME NEW k \in 0..Cardinality(StartPoints), Is(k) PROVE k = n
    <3>1. CASE k < n
      <4>1. k + 1 \in 1..n BY <1>3, <3>1, PointSets
      <4>. QED BY <2>1, <2>2, <4>1
    <3>2. CASE k > n
      <4>1. n + 1 \in 1..k BY <1>3, <3>2, PointSets
      <4>. QED BY <2>1, <2>2, <4>1
    <3>. QED BY <1>3, <3>1, <3>2, PointSets
  <2> HIDE DEF Is
  <2>3. n = CHOOSE k \in 0..Cardinality(StartPoints) : Is(k) BY <1>5, <2>1, <2>2
  <2>. QED BY <2>3 DEF RunLength, Is
<1>8. RunLength(l.prev, EndPoints) = m
  <2> DEFINE Is(k) == /\ Walk(l.prev, k + 1) \notin EndPoints
                      /\ \A i \in 1..k : Walk(l.prev, i) \in EndPoints
  <2>1. Is(m)
    <3>1. /\ m + 1 \in 1..Len(s) /\ Len(s) + 1 - (m + 1) \in 1..Len(s)
          /\ ~(Len(s) + 1 - (m + 1) > Len(s) - m)
      BY <1>2, <1>3
    <3>2. \A i \in 1..m : /\ i \in 1..Len(s) /\ Len(s) + 1 - i \in 1..Len(s)
                          /\ Len(s) + 1 - i > Len(s) - m
      BY <1>2, <1>3
    <3>. QED BY <1>3, <1>4, <3>1, <3>2
  <2>2. ASSUME NEW k \in 0..Cardinality(EndPoints), Is(k) PROVE k = m
    <3>1. CASE k < m
      <4>1. k + 1 \in 1..m BY <1>3, <3>1, PointSets
      <4>. QED BY <2>1, <2>2, <4>1
    <3>2. CASE k > m
      <4>1. m + 1 \in 1..k BY <1>3, <3>2, PointSets
      <4>. QED BY <2>1, <2>2, <4>1
    <3>. QED BY <1>3, <3>1, <3>2, PointSets
  <2> HIDE DEF Is
  <2>3. m = CHOOSE k \in 0..Cardinality(EndPoints) : Is(k) BY <1>6, <2>1, <2>2
  <2>. QED BY <2>3 DEF RunLength, Is
<1>9. n + 1 \in 1..Len(s) /\ m + 1 \in 1..Len(s) /\ Len(s) + 1 - (m + 1) = Len(s) - m
      /\ Len(s) - m \in 1..Len(s)
  <2>1. Len(s) \in Nat /\ n \in Nat /\ m \in Nat /\ n + m < Len(s) BY <1>2, <1>3
  <2> HIDE DEF Sectioned
  <2>2. \A L \in Nat : n + m < L => n + 1 \in 1..L /\ m + 1 \in 1..L /\ L + 1 - (m + 1) = L - m
                                   /\ L - m \in 1..L
    BY <2>1
  <2>. QED BY <2>1, <2>2
<1>10. Counted(l) = [l EXCEPT !.starts = n, !.first = s[n + 1], !.ends = m, !.last = s[Len(s) - m]]
  <2>1. Walk(l.next, n + 1) = s[n + 1] /\ Walk(l.prev, m + 1) = s[Len(s) - m] BY <1>4, <1>9
  <2>. QED BY <1>7, <1>8, <2>1 DEF Counted
<1>11. s[n + 1] \in Places /\ s[Len(s) - m] \in Places BY <1>2, <1>9, PointSets
<1>12. /\ Counted(l) \in Lists /\ Counted(l).next = l.next /\ Counted(l).prev = l.prev
       /\ Counted(l).starts = n /\ Counted(l).ends = m
       /\ Counted(l).first = s[n + 1] /\ Counted(l).last = s[Len(s) - m]
  BY <1>1, <1>5, <1>6, <1>10, <1>11 DEF Lists
<1>13. Threads(Counted(l), s) BY <1>12 DEF Threads
<1>14. Bounds(Counted(l), s) BY <1>12 DEF Bounds
<1>. QED BY <1>7, <1>8, <1>12, <1>13, <1>14

-----------------------------------------------------------------------------
(***************************************************************************)
(* Points taken out of a sequence, and put in.                             *)
(***************************************************************************)
LEMMA Joined ==
  ASSUME NEW S, NEW a \in Seq(S), NEW b \in Seq(S)
  PROVE  /\ a \o b \in Seq(S) /\ Len(a \o b) = Len(a) + Len(b)
         /\ DOMAIN (a \o b) = 1..(Len(a) + Len(b))
         /\ \A i \in 1..(Len(a) + Len(b)) :
              (a \o b)[i] = IF i <= Len(a) THEN a[i] ELSE b[i - Len(a)]
  OBVIOUS

LEMMA Stretch ==
  ASSUME NEW S, NEW s \in Seq(S), NEW k \in 1..Len(s) + 1
  PROVE  /\ SubSeq(s, k, Len(s)) \in Seq(S) /\ Len(SubSeq(s, k, Len(s))) = Len(s) + 1 - k
         /\ \A i \in 1..Len(s) + 1 - k : SubSeq(s, k, Len(s))[i] = s[k + i - 1]
<1>1. Len(s) \in Nat OBVIOUS
<1>2. CASE k = Len(s) + 1 BY <1>1, <1>2
<1>3. CASE k \in 1..Len(s) BY <1>1, <1>3
<1>. QED BY <1>1, <1>2, <1>3

LEMMA TakenOut ==
  ASSUME NEW s \in Seq(Points), IsInjective(s), NEW k \in 1..Len(s)
  PROVE  LET t == RemoveAt(s, k)
         IN  /\ t \in Seq(Points) /\ IsInjective(t)
             /\ Len(t) = Len(s) - 1
             /\ \A i \in 1..Len(s) - 1 : t[i] = IF i < k THEN s[i] ELSE s[i + 1]
             /\ ToSet(t) = ToSet(s) \ {s[k]}
             /\ \A i \in 0..Len(s) : At(t, i) = IF i < k THEN At(s, i) ELSE At(s, i + 1)
<1> DEFINE t == RemoveAt(s, k)
           n == Len(s)
<1>1. /\ n \in Nat /\ DOMAIN s = 1..n
      /\ \A i \in 1..n : s[i] \in Points
      /\ \A i, j \in 1..n : s[i] = s[j] => i = j
  BY SeqFacts
<1>2. /\ t \in Seq(Points) /\ Len(t) = n - 1 /\ DOMAIN t = 1..(n - 1)
      /\ \A i \in 1..(n - 1) : t[i] = IF i < k THEN s[i] ELSE s[i + 1]
  <2> DEFINE a == SubSeq(s, 1, k - 1)
             b == SubSeq(s, k + 1, n)
  <2>1. a \in Seq(Points) /\ Len(a) = k - 1 /\ \A i \in 1..(k - 1) : a[i] = s[i] BY <1>1
  <2>2. b \in Seq(Points) /\ Len(b) = n - k /\ \A i \in 1..(n - k) : b[i] = s[k + i]
    <3>1. k + 1 \in 1..n + 1 /\ n + 1 - (k + 1) = n - k /\ \A i \in Int : (k + 1) + i - 1 = k + i
      <4>1. n \in Int /\ k \in 1..n BY <1>1
      <4> HIDE DEF n
      <4>. QED BY <4>1
    <3>. QED BY <3>1, Stretch
  <2>3. t = a \o b BY DEF RemoveAt
  <2>4. k \in 1..n OBVIOUS
  <2> HIDE DEF a, b, t, n
  <2>5. t \in Seq(Points) /\ Len(t) = Len(a) + Len(b) /\ DOMAIN t = 1..Len(t)
        /\ \A i \in 1..Len(t) : t[i] = IF i <= Len(a) THEN a[i] ELSE b[i - Len(a)]
    BY <2>1, <2>2, <2>3, Joined
  <2>6. Len(t) = n - 1 BY <1>1, <2>1, <2>2, <2>4, <2>5
  <2>7. ASSUME NEW i \in 1..(n - 1) PROVE t[i] = IF i < k THEN s[i] ELSE s[i + 1]
    <3>1. CASE i < k
      <4>1. i \in 1..(k - 1) /\ i <= k - 1 BY <1>1, <2>4, <3>1
      <4>. QED BY <2>1, <2>5, <2>6, <3>1, <4>1
    <3>2. CASE ~(i < k)
      <4>1. i - (k - 1) \in 1..(n - k) /\ ~(i <= k - 1) /\ k + (i - (k - 1)) = i + 1
        BY <1>1, <2>4, <3>2
      <4>. QED BY <2>1, <2>2, <2>5, <2>6, <3>2, <4>1
    <3>. QED BY <3>1, <3>2
  <2>. QED BY <2>5, <2>6, <2>7
<1> HIDE DEF t, n
<1>3. IsInjective(t)
  <2> SUFFICES ASSUME NEW i \in 1..(n - 1), NEW j \in 1..(n - 1), t[i] = t[j] PROVE i = j
    BY <1>2 DEF IsInjective
  <2>1. i \in 1..n /\ j \in 1..n /\ i + 1 \in 1..n /\ j + 1 \in 1..n BY <1>1
  <2>. QED BY <1>1, <1>2, <2>1
<1>4. ToSet(t) \subseteq ToSet(s) \ {s[k]}
  <2> SUFFICES ASSUME NEW i \in 1..(n - 1) PROVE t[i] \in ToSet(s) \ {s[k]}
    BY <1>2 DEF ToSet
  <2>1. i \in 1..n /\ i + 1 \in 1..n BY <1>1
  <2>2. PICK j \in 1..n : j # k /\ t[i] = s[j]
    <3>1. CASE i < k
      <4>1. t[i] = s[i] /\ i # k BY <1>2, <3>1
      <4>. QED BY <2>1, <4>1
    <3>2. CASE ~(i < k)
      <4>1. i + 1 # k BY <1>1, <3>2
      <4>2. t[i] = s[i + 1] BY <1>2, <3>2
      <4>. QED BY <2>1, <4>1, <4>2
    <3>. QED BY <3>1, <3>2
  <2>3. k \in 1..n BY DEF n
  <2>4. s[j] # s[k] BY <1>1, <2>2, <2>3
  <2>5. s[j] \in ToSet(s) BY SeqFacts DEF n
  <2>. QED BY <2>2, <2>4, <2>5
<1>5. ToSet(s) \ {s[k]} \subseteq ToSet(t)
  <2> SUFFICES ASSUME NEW i \in 1..n, i # k PROVE s[i] \in ToSet(t)
    BY <1>1 DEF ToSet
  <2>1. CASE i < k
    <3>1. i \in 1..(n - 1) BY <1>1, <2>1 DEF n
    <3>. QED BY <1>2, <2>1, <3>1 DEF ToSet
  <2>2. CASE i > k
    <3>1. i - 1 \in 1..(n - 1) /\ ~(i - 1 < k) /\ (i - 1) + 1 = i BY <1>1, <2>2 DEF n
    <3>2. t[i - 1] = s[i] BY <1>2, <3>1
    <3>. QED BY <1>2, <3>1, <3>2 DEF ToSet
  <2>. QED BY <1>1, <2>1, <2>2 DEF n
<1>6. \A i \in 0..n : At(t, i) = IF i < k THEN At(s, i) ELSE At(s, i + 1)
  <2> TAKE i \in 0..n
  <2>1. CASE i = 0 BY <1>1, <1>2, <2>1 DEF At, n
  <2>2. CASE i = n BY <1>1, <1>2, <2>2 DEF At, n
  <2>3. CASE i \in 1..(n - 1) BY <1>1, <1>2, <2>3 DEF At, n
  <2>. QED BY <1>1, <2>1, <2>2, <2>3
<1>. QED BY <1>2, <1>3, <1>4, <1>5, <1>6 DEF t, n

LEMMA PutIn ==
  ASSUME NEW s \in Seq(Points), IsInjective(s), NEW k \in 1..Len(s) + 1,
         NEW p \in Points, p \notin ToSet(s)
  PROVE  LET t == InsertAt(s, k, p)
         IN  /\ t \in Seq(Points) /\ IsInjective(t)
             /\ Len(t) = Len(s) + 1
             /\ \A i \in 1..Len(s) + 1 :
                  t[i] = IF i < k THEN s[i] ELSE IF i = k THEN p ELSE s[i - 1]
             /\ ToSet(t) = ToSet(s) \cup {p}
             /\ \A i \in 0..Len(s) + 2 :
                  At(t, i) = IF i < k THEN At(s, i) ELSE IF i = k THEN p ELSE At(s, i - 1)
<1> DEFINE t == InsertAt(s, k, p)
           n == Len(s)
<1>1. /\ n \in Nat /\ DOMAIN s = 1..n
      /\ \A i \in 1..n : s[i] \in Points /\ s[i] # p
      /\ \A i, j \in 1..n : s[i] = s[j] => i = j
  BY SeqFacts
<1>2. /\ t \in Seq(Points) /\ Len(t) = n + 1 /\ DOMAIN t = 1..(n + 1)
      /\ \A i \in 1..(n + 1) : t[i] = IF i < k THEN s[i] ELSE IF i = k THEN p ELSE s[i - 1]
  <2> DEFINE a == SubSeq(s, 1, k - 1)
             c == a \o <<p>>
             b == SubSeq(s, k, n)
  <2>4. k \in 1..(n + 1) OBVIOUS
  <2>1. a \in Seq(Points) /\ Len(a) = k - 1 /\ \A i \in 1..(k - 1) : a[i] = s[i] BY <1>1
  <2>2. b \in Seq(Points) /\ Len(b) = n + 1 - k /\ \A i \in 1..(n + 1 - k) : b[i] = s[k + i - 1]
    BY <2>4, Stretch
  <2>3. t = c \o b BY DEF InsertAt
  <2> HIDE DEF a, b, t, n
  <2>8. c \in Seq(Points) /\ Len(c) = k /\ c[k] = p /\ \A i \in 1..(k - 1) : c[i] = s[i]
    <3>1. c \in Seq(Points) /\ Len(c) = Len(a) + 1
          /\ \A i \in 1..(Len(a) + 1) : c[i] = IF i <= Len(a) THEN a[i] ELSE p
      BY <2>1
    <3>. QED BY <1>1, <2>1, <2>4, <3>1
  <2> HIDE DEF c
  <2>5. t \in Seq(Points) /\ Len(t) = Len(c) + Len(b) /\ DOMAIN t = 1..Len(t)
        /\ \A i \in 1..Len(t) : t[i] = IF i <= Len(c) THEN c[i] ELSE b[i - Len(c)]
    <3>1. c \in Seq(Points) /\ b \in Seq(Points) BY <2>8, <2>2
    <3>. QED BY <3>1, <2>3, Joined
  <2>6. Len(t) = n + 1 BY <1>1, <2>8, <2>2, <2>4, <2>5
  <2>7. ASSUME NEW i \in 1..(n + 1)
        PROVE  t[i] = IF i < k THEN s[i] ELSE IF i = k THEN p ELSE s[i - 1]
    <3>1. CASE i < k
      <4>1. i \in 1..(k - 1) /\ i <= k BY <1>1, <2>4, <3>1
      <4>. QED BY <2>8, <2>5, <2>6, <3>1, <4>1
    <3>2. CASE i > k
      <4>1. i - k \in 1..(n + 1 - k) /\ ~(i <= k) /\ k + (i - k) - 1 = i - 1 /\ ~(i < k) /\ i # k
        BY <1>1, <2>4, <3>2
      <4>. QED BY <2>8, <2>2, <2>5, <2>6, <4>1
    <3>3. CASE i = k BY <1>1, <2>4, <2>5, <2>6, <2>8, <3>3
    <3>. QED BY <1>1, <2>4, <3>1, <3>2, <3>3
  <2>. QED BY <2>5, <2>6, <2>7
<1>0. k \in 1..(n + 1) OBVIOUS
<1> HIDE DEF t, n
<1>3. IsInjective(t)
  <2> SUFFICES ASSUME NEW i \in 1..(n + 1), NEW j \in 1..(n + 1), t[i] = t[j] PROVE i = j
    BY <1>2 DEF IsInjective
  <2>1. \A h \in 1..(n + 1) : (h < k => h \in 1..n) /\ (h > k => h - 1 \in 1..n) BY <1>0, <1>1
  <2>. QED BY <1>0, <1>1, <1>2, <2>1
<1>4. ToSet(t) \subseteq ToSet(s) \cup {p}
  <2> SUFFICES ASSUME NEW i \in 1..(n + 1) PROVE t[i] \in ToSet(s) \cup {p}
    BY <1>2 DEF ToSet
  <2>1. (i < k => i \in 1..n) /\ (i > k => i - 1 \in 1..n) BY <1>0, <1>1
  <2>. QED BY <1>0, <1>1, <1>2, <2>1 DEF ToSet
<1>5. ToSet(s) \cup {p} \subseteq ToSet(t)
  <2>1. p \in ToSet(t)
    <3>1. t[k] = p BY <1>0, <1>2
    <3>. QED BY <1>0, <1>2, <3>1 DEF ToSet
  <2>2. ASSUME NEW i \in 1..n PROVE s[i] \in ToSet(t)
    <3>1. CASE i < k
      <4>1. i \in 1..(n + 1) BY <1>1
      <4>. QED BY <1>2, <3>1, <4>1 DEF ToSet
    <3>2. CASE ~(i < k)
      <4>1. i + 1 \in 1..(n + 1) /\ ~(i + 1 < k) /\ i + 1 # k /\ (i + 1) - 1 = i
        BY <1>0, <1>1, <3>2
      <4>2. t[i + 1] = s[i] BY <1>2, <4>1
      <4>. QED BY <1>2, <4>1, <4>2 DEF ToSet
    <3>. QED BY <3>1, <3>2
  <2>. QED BY <1>1, <2>1, <2>2 DEF ToSet
<1>6. \A i \in 0..(n + 2) :
        At(t, i) = IF i < k THEN At(s, i) ELSE IF i = k THEN p ELSE At(s, i - 1)
  <2> TAKE i \in 0..(n + 2)
  <2>1. CASE i = 0 BY <1>0, <1>1, <1>2, <2>1 DEF At, n
  <2>2. CASE i = n + 2 BY <1>0, <1>1, <1>2, <2>2 DEF At, n
  <2>3. CASE i \in 1..(n + 1) BY <1>0, <1>1, <1>2, <2>3 DEF At, n
  <2>. QED BY <1>1, <2>1, <2>2, <2>3
<1>. QED BY <1>2, <1>3, <1>4, <1>5, <1>6 DEF t, n

(* DeletePointInList closes the ring without the point. *)
LEMMA UnlinkedThreads ==
  ASSUME NEW l, NEW s, Threads(l, s), NEW k \in 1..Len(s)
  PROVE  LET p == s[k]
             before == l.prev[p]
             after == l.next[p]
             u == [l EXCEPT !.prev = [@ EXCEPT ![after] = before, ![p] = Root],
                            !.next = [@ EXCEPT ![before] = after, ![p] = Root]]
         IN  /\ Threads(u, RemoveAt(s, k))
             /\ before = At(s, k - 1) /\ after = At(s, k + 1)
<1> DEFINE p == s[k]
           n == Len(s)
           t == RemoveAt(s, k)
           before == At(s, k - 1)
           after == At(s, k + 1)
           next == [l.next EXCEPT ![before] = after, ![p] = Root]
           prev == [l.prev EXCEPT ![after] = before, ![p] = Root]
           u == [l EXCEPT !.prev = prev, !.next = next]
<1>1. /\ l \in Lists /\ s \in Seq(Points) /\ IsInjective(s)
      /\ l.next \in [Places -> Places] /\ l.prev \in [Places -> Places]
      /\ \A i \in 0..n : l.next[At(s, i)] = At(s, i + 1)
      /\ \A i \in 1..n + 1 : l.prev[At(s, i)] = At(s, i - 1)
      /\ \A q \in Points \ ToSet(s) : l.next[q] = Root /\ l.prev[q] = Root
  BY DEF Threads, Lists
<1>2. /\ n \in Nat /\ p \in Points /\ p # Root /\ p = At(s, k) /\ p \in ToSet(s)
      /\ \A i : At(s, i) \in Places
      /\ \A i, j \in 0..n : At(s, i) = At(s, j) => i = j
      /\ \A i, j \in 1..n + 1 : At(s, i) = At(s, j) => i = j
      /\ \A q \in ToSet(s) : q \in Points /\ \E i \in 1..n : q = s[i]
      /\ \A i \in 1..n : At(s, i) = s[i]
  BY <1>1, SeqFacts
<1>3. k \in 0..n /\ k \in 1..n + 1 /\ k - 1 \in 0..n /\ k + 1 \in 1..n + 1 BY <1>2
<1>4. l.prev[p] = before /\ l.next[p] = after BY <1>1, <1>2, <1>3
<1>5. /\ t \in Seq(Points) /\ IsInjective(t) /\ Len(t) = n - 1
      /\ ToSet(t) = ToSet(s) \ {p}
      /\ \A i \in 0..n : At(t, i) = IF i < k THEN At(s, i) ELSE At(s, i + 1)
  BY <1>1, TakenOut
<1>6. before # p /\ after # p BY <1>2, <1>3
<1>7. before \in Places /\ after \in Places /\ p \in Places /\ Root \in Places
  BY <1>2, PointSets
<1>8. next \in [Places -> Places] /\ prev \in [Places -> Places] BY <1>1, <1>7
<1>9. /\ next[p] = Root /\ next[before] = after
      /\ \A q \in Places : q # p /\ q # before => next[q] = l.next[q]
      /\ prev[p] = Root /\ prev[after] = before
      /\ \A q \in Places : q # p /\ q # after => prev[q] = l.prev[q]
  BY <1>1, <1>6, <1>7
<1> HIDE DEF next, prev, t, n, p, before, after
<1>10. u \in Lists /\ u.next = next /\ u.prev = prev BY <1>1, <1>8 DEF Lists
<1>11. ASSUME NEW i \in 0..n - 1 PROVE next[At(t, i)] = At(t, i + 1)
  <2>0. i \in 0..n /\ i + 1 \in 0..n BY <1>2
  <2>1. CASE i = k - 1
    <3>1. At(t, i) = before /\ At(t, i + 1) = after
      BY <1>2, <1>3, <1>5, <2>0, <2>1 DEF before, after
    <3>. QED BY <1>9, <3>1
  <2>2. CASE i < k - 1
    <3>1. At(t, i) = At(s, i) /\ At(t, i + 1) = At(s, i + 1) BY <1>2, <1>5, <2>0, <2>2
    <3>2. At(s, i) # p /\ At(s, i) # before BY <1>2, <1>3, <2>0, <2>2 DEF before
    <3>. QED BY <1>1, <1>2, <1>9, <2>0, <3>1, <3>2
  <2>3. CASE i >= k
    <3>1. At(t, i) = At(s, i + 1) /\ At(t, i + 1) = At(s, (i + 1) + 1) BY <1>2, <1>5, <2>0, <2>3
    <3>2. At(s, i + 1) # p /\ At(s, i + 1) # before BY <1>2, <1>3, <2>0, <2>3 DEF before
    <3>. QED BY <1>1, <1>2, <1>9, <2>0, <3>1, <3>2
  <2>. QED BY <1>2, <1>3, <2>1, <2>2, <2>3
<1>12. ASSUME NEW i \in 1..n PROVE prev[At(t, i)] = At(t, i - 1)
  <2>0. i \in 0..n /\ i - 1 \in 0..n /\ i \in 1..n + 1 /\ i + 1 \in 1..n + 1
        /\ (i - 1) + 1 = i /\ (i + 1) - 1 = i BY <1>2
  <2>1. CASE i = k
    <3>1. At(t, i) = after /\ At(t, i - 1) = before
      BY <1>2, <1>3, <1>5, <2>0, <2>1 DEF before, after
    <3>. QED BY <1>9, <3>1
  <2>2. CASE i < k
    <3>1. At(t, i) = At(s, i) /\ At(t, i - 1) = At(s, i - 1) BY <1>2, <1>5, <2>0, <2>2
    <3>2. At(s, i) # p /\ At(s, i) # after BY <1>2, <1>3, <2>0, <2>2 DEF after
    <3>. QED BY <1>1, <1>2, <1>9, <2>0, <3>1, <3>2
  <2>3. CASE i > k
    <3>1. At(t, i) = At(s, i + 1) /\ At(t, i - 1) = At(s, i)
      BY <1>2, <1>5, <2>0, <2>3
    <3>2. At(s, i + 1) # p /\ At(s, i + 1) # after BY <1>2, <1>3, <2>0, <2>3 DEF after
    <3>3. l.prev[At(s, i + 1)] = At(s, i) BY <1>1, <2>0
    <3>. QED BY <1>2, <1>9, <3>1, <3>2, <3>3
  <2>. QED BY <1>2, <1>3, <2>1, <2>2, <2>3
<1>13. ASSUME NEW q \in Points \ ToSet(t) PROVE next[q] = Root /\ prev[q] = Root
  <2>1. CASE q = p BY <1>9, <2>1
  <2>2. CASE q # p
    <3>1. q \notin ToSet(s) /\ q \in Places /\ q # Root BY <1>5, <2>2, PointSets
    <3>2. \A i : At(s, i) = Root \/ At(s, i) \in ToSet(s)
      BY <1>1, SeqFacts DEF At, n
    <3>3. q # before /\ q # after BY <3>1, <3>2 DEF before, after
    <3>. QED BY <1>1, <1>9, <2>2, <3>1, <3>3
  <2>. QED BY <2>1, <2>2
<1>14. Threads(u, t)
  <2>1. (n - 1) + 1 = n BY <1>2
  <2>. QED BY <1>5, <1>10, <1>11, <1>12, <1>13, <2>1 DEF Threads
<1>15. [l EXCEPT !.prev = [@ EXCEPT ![after] = before, ![p] = Root],
                 !.next = [@ EXCEPT ![before] = after, ![p] = Root]] = u
  BY DEF next, prev
<1> HIDE DEF u
<1>. QED BY <1>4, <1>14, <1>15 DEF p, t, before, after

(* The last lines of InsertNextPoint open the ring behind a place. *)
LEMMA LinkedThreads ==
  ASSUME NEW l, NEW s, Threads(l, s), NEW k \in 1..Len(s) + 1,
         NEW p \in Points, p \notin ToSet(s), NEW isFirst \in BOOLEAN, NEW isLast \in BOOLEAN
  PROVE  LET u == LinkedIn(l, p, At(s, k - 1), isFirst, isLast)
         IN  /\ Threads(u, InsertAt(s, k, p))
             /\ u.starts = l.starts /\ u.ends = l.ends
             /\ u.first = IF isFirst THEN p ELSE l.first
             /\ u.last = IF isLast THEN p ELSE l.last
<1> DEFINE n == Len(s)
           t == InsertAt(s, k, p)
           before == At(s, k - 1)
           after == At(s, k)
           next == [l.next EXCEPT ![p] = after, ![before] = p]
           prev == [l.prev EXCEPT ![p] = before, ![after] = p]
           u == LinkedIn(l, p, before, isFirst, isLast)
<1>1. /\ l \in Lists /\ s \in Seq(Points) /\ IsInjective(s)
      /\ l.next \in [Places -> Places] /\ l.prev \in [Places -> Places]
      /\ \A i \in 0..n : l.next[At(s, i)] = At(s, i + 1)
      /\ \A i \in 1..n + 1 : l.prev[At(s, i)] = At(s, i - 1)
      /\ \A q \in Points \ ToSet(s) : l.next[q] = Root /\ l.prev[q] = Root
  BY DEF Threads, Lists
<1>2. /\ n \in Nat /\ p # Root
      /\ \A i : At(s, i) \in Places /\ At(s, i) # p
      /\ \A i, j \in 0..n : At(s, i) = At(s, j) => i = j
      /\ \A i, j \in 1..n + 1 : At(s, i) = At(s, j) => i = j
  <2>1. p # Root BY PointSets
  <2>2. \A i : At(s, i) # p BY <1>1, <2>1, SeqFacts DEF At
  <2>. QED BY <1>1, <2>1, <2>2, SeqFacts
<1>3. k \in Nat /\ k - 1 \in 0..n /\ k \in 1..n + 1 /\ (k - 1) + 1 = k BY <1>2
<1>4. l.next[before] = after BY <1>1, <1>3
<1>5. /\ t \in Seq(Points) /\ IsInjective(t) /\ Len(t) = n + 1
      /\ ToSet(t) = ToSet(s) \cup {p}
      /\ \A i \in 0..n + 2 : At(t, i) = IF i < k THEN At(s, i) ELSE IF i = k THEN p ELSE At(s, i - 1)
  BY <1>1, PutIn
<1>6. before # p /\ after # p BY <1>2
<1>7. before \in Places /\ after \in Places /\ p \in Places BY <1>2, PointSets
<1>8. next \in [Places -> Places] /\ prev \in [Places -> Places] BY <1>1, <1>7
<1>9. /\ next[p] = after /\ next[before] = p
      /\ \A q \in Places : q # p /\ q # before => next[q] = l.next[q]
      /\ prev[p] = before /\ prev[after] = p
      /\ \A q \in Places : q # p /\ q # after => prev[q] = l.prev[q]
  BY <1>1, <1>6, <1>7
<1>10. u = [l EXCEPT !.prev = prev, !.next = next,
                     !.first = IF isFirst THEN p ELSE l.first,
                     !.last = IF isLast THEN p ELSE l.last]
  BY <1>4 DEF LinkedIn
<1> HIDE DEF next, prev, t, n, before, after, u
<1>11. /\ u \in Lists /\ u.next = next /\ u.prev = prev
       /\ u.starts = l.starts /\ u.ends = l.ends
       /\ u.first = IF isFirst THEN p ELSE l.first
       /\ u.last = IF isLast THEN p ELSE l.last
  BY <1>1, <1>7, <1>8, <1>10 DEF Lists
<1>12. ASSUME NEW i \in 0..n + 1 PROVE next[At(t, i)] = At(t, i + 1)
  <2>0. i \in Nat /\ i \in 0..n + 2 /\ i + 1 \in 0..n + 2 BY <1>2
  <2>1. CASE i = k - 1
    <3>1. At(t, i) = before /\ At(t, i + 1) = p BY <1>3, <1>5, <2>0, <2>1 DEF before
    <3>. QED BY <1>9, <3>1
  <2>2. CASE i = k
    <3>1. At(t, i) = p BY <1>5, <2>0, <2>2
    <3>2. i + 1 = k + 1 /\ ~(i + 1 < k) /\ i + 1 # k /\ (i + 1) - 1 = k BY <1>3, <2>2
    <3>3. At(t, i + 1) = after BY <1>5, <2>0, <3>2 DEF after
    <3>. QED BY <1>9, <3>1, <3>3
  <2>3. CASE i < k - 1
    <3>1. i < k /\ i + 1 < k /\ i \in 0..n /\ i # k - 1 BY <1>2, <1>3, <2>0, <2>3
    <3>2. At(t, i) = At(s, i) /\ At(t, i + 1) = At(s, i + 1) BY <1>5, <2>0, <3>1
    <3>3. At(s, i) # p /\ At(s, i) # before BY <1>2, <1>3, <3>1 DEF before
    <3>. QED BY <1>1, <1>2, <1>9, <3>1, <3>2, <3>3
  <2>4. CASE i > k
    <3>1. ~(i < k) /\ i # k /\ ~(i + 1 < k) /\ i + 1 # k /\ i - 1 \in 0..n /\ i - 1 # k - 1
          /\ (i - 1) + 1 = i /\ (i + 1) - 1 = i
      BY <1>2, <1>3, <2>0, <2>4
    <3>2. At(t, i) = At(s, i - 1) /\ At(t, i + 1) = At(s, i) BY <1>5, <2>0, <3>1
    <3>3. At(s, i - 1) # p /\ At(s, i - 1) # before BY <1>2, <1>3, <3>1 DEF before
    <3>4. l.next[At(s, i - 1)] = At(s, i) BY <1>1, <3>1
    <3>. QED BY <1>2, <1>9, <3>2, <3>3, <3>4
  <2>. QED BY <1>3, <2>0, <2>1, <2>2, <2>3, <2>4
<1>13. ASSUME NEW i \in 1..n + 2 PROVE prev[At(t, i)] = At(t, i - 1)
  <2>0. i \in Nat /\ i \in 0..n + 2 /\ i - 1 \in 0..n + 2 BY <1>2
  <2>1. CASE i = k
    <3>1. At(t, i) = p /\ At(t, i - 1) = before BY <1>3, <1>5, <2>0, <2>1 DEF before
    <3>. QED BY <1>9, <3>1
  <2>2. CASE i = k + 1
    <3>2. ~(i < k) /\ i # k /\ i - 1 = k BY <1>3, <2>2
    <3>3. At(t, i) = after /\ At(t, i - 1) = p BY <1>5, <2>0, <3>2 DEF after
    <3>. QED BY <1>9, <3>3
  <2>3. CASE i < k
    <3>1. i - 1 < k /\ i \in 1..n + 1 /\ i # k BY <1>2, <1>3, <2>0, <2>3
    <3>2. At(t, i) = At(s, i) /\ At(t, i - 1) = At(s, i - 1) BY <1>5, <2>0, <2>3, <3>1
    <3>3. At(s, i) # p /\ At(s, i) # after BY <1>2, <1>3, <3>1 DEF after
    <3>. QED BY <1>1, <1>2, <1>9, <3>1, <3>2, <3>3
  <2>4. CASE i > k + 1
    <3>1. ~(i < k) /\ i # k /\ ~(i - 1 < k) /\ i - 1 # k /\ i - 1 \in 1..n + 1
      BY <1>2, <1>3, <2>0, <2>4
    <3>2. At(t, i) = At(s, i - 1) /\ At(t, i - 1) = At(s, (i - 1) - 1) BY <1>5, <2>0, <3>1
    <3>3. At(s, i - 1) # p /\ At(s, i - 1) # after BY <1>2, <1>3, <3>1 DEF after
    <3>4. l.prev[At(s, i - 1)] = At(s, (i - 1) - 1) BY <1>1, <3>1
    <3>. QED BY <1>2, <1>9, <3>2, <3>3, <3>4
  <2>. QED BY <1>3, <2>0, <2>1, <2>2, <2>3, <2>4
<1>14. ASSUME NEW q \in Points \ ToSet(t) PROVE next[q] = Root /\ prev[q] = Root
  <2>1. q # p /\ q \notin ToSet(s) /\ q \in Places /\ q # Root BY <1>5, PointSets
  <2>2. \A i : At(s, i) = Root \/ At(s, i) \in ToSet(s) BY <1>1, SeqFacts DEF At
  <2>3. q # before /\ q # after BY <2>1, <2>2 DEF before, after
  <2>. QED BY <1>1, <1>9, <2>1, <2>3
<1>15. Threads(u, t)
  <2>1. (n + 1) + 1 = n + 2 BY <1>2
  <2>. QED BY <1>5, <1>11, <1>12, <1>13, <1>14, <2>1 DEF Threads
<1>. QED BY <1>11, <1>15 DEF u, t, before

(* In a ring of several points exactly its points are linked. *)
LEMMA LinkedPoints ==
  ASSUME NEW l, NEW s, Threads(l, s), Len(s) > 1, NEW p \in Points
  PROVE  IsLinked(l, p) <=> p \in ToSet(s)
<1>1. /\ s \in Seq(Points) /\ IsInjective(s)
      /\ \A i \in 0..Len(s) : l.next[At(s, i)] = At(s, i + 1)
      /\ \A i \in 1..Len(s) + 1 : l.prev[At(s, i)] = At(s, i - 1)
      /\ \A q \in Points \ ToSet(s) : l.next[q] = Root /\ l.prev[q] = Root
  BY DEF Threads
<1>2. CASE p \notin ToSet(s) BY <1>1, <1>2 DEF IsLinked
<1>3. CASE p \in ToSet(s)
  <2>1. PICK k \in 1..Len(s) : p = s[k] /\ p = At(s, k) BY <1>1, <1>3, SeqFacts
  <2>2. Len(s) \in Nat /\ \A i \in 1..Len(s) : At(s, i) # Root BY <1>1, SeqFacts
  <2>3. CASE k > 1
    <3>1. k - 1 \in 1..Len(s) /\ k \in 1..Len(s) + 1 BY <2>2, <2>3
    <3>2. l.prev[p] # Root BY <1>1, <2>1, <2>2, <3>1
    <3>. QED BY <1>3, <3>2 DEF IsLinked
  <2>4. CASE k = 1
    <3>1. k + 1 \in 1..Len(s) /\ k \in 0..Len(s) BY <2>2, <2>4
    <3>2. l.next[p] # Root BY <1>1, <2>1, <2>2, <3>1
    <3>. QED BY <1>3, <3>2 DEF IsLinked
  <2>. QED BY <2>2, <2>3, <2>4
<1>. QED BY <1>2, <1>3

LEMMA SectionsWithout ==
  ASSUME NEW s \in Seq(Points), IsInjective(s), NEW n, NEW m, Sectioned(s, n, m),
         NEW k \in 1..Len(s), NEW j \in 1..Len(s), j # k, s[j] \in InternalPoints
  PROVE  Sectioned(RemoveAt(s, k), IF s[k] \in StartPoints THEN n - 1 ELSE n,
                                   IF s[k] \in EndPoints THEN m - 1 ELSE m)
<1> DEFINE t == RemoveAt(s, k)
           L == Len(s)
           a == IF s[k] \in StartPoints THEN n - 1 ELSE n
           b == IF s[k] \in EndPoints THEN m - 1 ELSE m
<1>1. L \in Nat /\ n \in Nat /\ m \in Nat /\ n + m < L /\ k \in 1..L /\ j \in 1..L /\ j # k
  BY SeqFacts DEF Sectioned
<1>2. \A i \in 1..L : /\ s[i] \in StartPoints <=> i <= n
                      /\ s[i] \in EndPoints <=> i > L - m
  BY DEF Sectioned
<1>3. Len(t) = L - 1 /\ \A i \in 1..L - 1 : t[i] = IF i < k THEN s[i] ELSE s[i + 1]
  BY TakenOut
<1>4. j > n /\ ~(j > L - m)
  <2>1. s[j] \notin StartPoints /\ s[j] \notin EndPoints BY PointsAssumption
  <2>. QED BY <1>1, <1>2, <2>1
<1>5. (s[k] \in StartPoints <=> k <= n) /\ (s[k] \in EndPoints <=> k > L - m) BY <1>1, <1>2
<1>6. /\ a = IF k <= n THEN n - 1 ELSE n
      /\ b = IF k > L - m THEN m - 1 ELSE m
  BY <1>5
<1> HIDE DEF a, b, t, L
<1>7. a \in Nat /\ b \in Nat /\ a + b < L - 1 BY <1>1, <1>4, <1>6
<1>8. ASSUME NEW i \in 1..L - 1
      PROVE  /\ t[i] \in StartPoints <=> i <= a
             /\ t[i] \in EndPoints <=> i > (L - 1) - b
  <2>1. i \in 1..L /\ i + 1 \in 1..L BY <1>1
  <2>2. CASE i < k
    <3>1. t[i] = s[i] BY <1>3, <2>2
    <3>2. (i <= n <=> i <= a) /\ (i > L - m <=> i > (L - 1) - b) BY <1>1, <1>6, <1>4, <2>2
    <3>. QED BY <1>2, <2>1, <3>1, <3>2
  <2>3. CASE ~(i < k)
    <3>1. t[i] = s[i + 1] BY <1>3, <2>3
    <3>2. (i + 1 <= n <=> i <= a) /\ (i + 1 > L - m <=> i > (L - 1) - b)
      BY <1>1, <1>6, <1>4, <2>3
    <3>. QED BY <1>2, <2>1, <3>1, <3>2
  <2>. QED BY <2>2, <2>3
<1>9. Sectioned(t, a, b) BY <1>3, <1>7, <1>8 DEF Sectioned
<1>. QED BY <1>9 DEF t, a, b

LEMMA SectionsWith ==
  ASSUME NEW s \in Seq(Points), IsInjective(s), NEW n, NEW m, Sectioned(s, n, m),
         NEW p \in InternalPoints, p \notin ToSet(s),
         NEW k \in n + 1 .. Len(s) - m + 1
  PROVE  /\ k \in 1..Len(s) + 1 /\ Sectioned(InsertAt(s, k, p), n, m)
<1> DEFINE t == InsertAt(s, k, p)
           L == Len(s)
<1>0. p \in Points /\ p \notin StartPoints /\ p \notin EndPoints BY PointsAssumption DEF Points
<1>1. L \in Nat /\ n \in Nat /\ m \in Nat /\ n + m < L /\ k \in n + 1 .. L - m + 1
  BY SeqFacts DEF Sectioned
<1>2. \A i \in 1..L : /\ s[i] \in StartPoints <=> i <= n
                      /\ s[i] \in EndPoints <=> i > L - m
  BY DEF Sectioned
<1>3. k \in 1..L + 1
  <2> HIDE DEF L
  <2>. QED BY <1>1
<1>4. Len(t) = L + 1 /\ \A i \in 1..L + 1 : t[i] = IF i < k THEN s[i] ELSE IF i = k THEN p ELSE s[i - 1]
  BY <1>0, <1>3, PutIn
<1> HIDE DEF t, L
<1>5. ASSUME NEW i \in 1..L + 1
      PROVE  /\ t[i] \in StartPoints <=> i <= n
             /\ t[i] \in EndPoints <=> i > (L + 1) - m
  <2>1. CASE i < k
    <3>1. t[i] = s[i] /\ i \in 1..L BY <1>1, <1>4, <2>1
    <3>2. ~(i > L - m) /\ ~(i > (L + 1) - m) BY <1>1, <2>1
    <3>. QED BY <1>2, <3>1, <3>2
  <2>2. CASE i = k
    <3>1. t[i] = p /\ ~(i <= n) /\ ~(i > (L + 1) - m) BY <1>1, <1>4, <2>2
    <3>. QED BY <1>0, <3>1
  <2>3. CASE i > k
    <3>1. t[i] = s[i - 1] /\ i - 1 \in 1..L BY <1>1, <1>4, <2>3
    <3>2. ~(i <= n) /\ ~(i - 1 <= n) /\ (i - 1 > L - m <=> i > (L + 1) - m) BY <1>1, <2>3
    <3>. QED BY <1>2, <3>1, <3>2
  <2>. QED BY <1>1, <2>1, <2>2, <2>3
<1>6. Sectioned(t, n, m) BY <1>1, <1>4, <1>5 DEF Sectioned
<1>. QED BY <1>3, <1>6 DEF t, L

-----------------------------------------------------------------------------
(***************************************************************************)
(* Deleting and placing a point.                                           *)
(***************************************************************************)
(* What lies beside the ring does not touch the ring. *)
Remembering(l, f, g) == [l EXCEPT !.first = f, !.last = g]

LEMMA BesideTheRing ==
  ASSUME NEW l, NEW s, Threads(l, s), NEW f \in Places, NEW g \in Places
  PROVE  /\ Threads(Remembering(l, f, g), s)
         /\ Remembering(l, f, g).first = f /\ Remembering(l, f, g).last = g
         /\ Remembering(l, f, g).starts = l.starts /\ Remembering(l, f, g).ends = l.ends
<1> DEFINE u == Remembering(l, f, g)
<1>1. /\ u \in Lists /\ u.next = l.next /\ u.prev = l.prev
      /\ u.first = f /\ u.last = g /\ u.starts = l.starts /\ u.ends = l.ends
  BY DEF Threads, Lists, Remembering
<1> HIDE DEF u
<1>2. Threads(u, s) BY <1>1 DEF Threads
<1>. QED BY <1>1, <1>2 DEF u

LEMMA DeletedHolds ==
  ASSUME NEW l, NEW s, Holds(l, s), NEW k \in 1..Len(s), NEW j \in 1..Len(s),
         j # k, s[j] \in InternalPoints, Len(s) > 2
  PROVE  Holds(Deleted(l, s[k]), RemoveAt(s, k))
<1> DEFINE p == s[k]
           n == Len(s)
           t == RemoveAt(s, k)
           a == l.starts
           b == l.ends
           before == l.prev[p]
           after == l.next[p]
           u == [l EXCEPT !.prev = [@ EXCEPT ![after] = before, ![p] = Root],
                          !.next = [@ EXCEPT ![before] = after, ![p] = Root]]
           c == IF p \in InternalPoints THEN u ELSE Counted(u)
           f == IF c.first = p THEN after ELSE c.first
           g == IF c.last = p THEN before ELSE c.last
<1>1. /\ Threads(l, s) /\ Sectioned(s, a, b) /\ l.first = s[a + 1] /\ l.last = s[n - b]
      /\ s \in Seq(Points) /\ IsInjective(s) /\ l \in Lists
  BY DEF Holds, Bounds, Threads
<1>2. /\ n \in Nat /\ n > 2 /\ k \in 1..n /\ j \in 1..n
      /\ \A i \in 1..n : s[i] \in Points /\ At(s, i) = s[i]
      /\ \A i, h \in 1..n : s[i] = s[h] => i = h
      /\ \A i : At(s, i) \in Places
  BY <1>1, SeqFacts
<1>3. /\ a \in Nat /\ b \in Nat /\ a + b < n
      /\ \A i \in 1..n : /\ s[i] \in StartPoints <=> i <= a
                         /\ s[i] \in EndPoints <=> i > n - b
  BY <1>1 DEF Sectioned
<1>4. Threads(u, t) /\ before = At(s, k - 1) /\ after = At(s, k + 1) BY <1>1, UnlinkedThreads
<1>5. /\ t \in Seq(Points) /\ IsInjective(t) /\ Len(t) = n - 1
      /\ \A i \in 1..n - 1 : t[i] = IF i < k THEN s[i] ELSE s[i + 1]
      /\ ToSet(t) = ToSet(s) \ {p}
  BY <1>1, TakenOut
<1>6. Sectioned(t, IF p \in StartPoints THEN a - 1 ELSE a, IF p \in EndPoints THEN b - 1 ELSE b)
  BY <1>1, SectionsWithout
<1>7. u.starts = a /\ u.ends = b /\ u.first = l.first /\ u.last = l.last
  BY <1>1 DEF Lists
<1>8. Deleted(l, p) = Remembering(c, f, g) BY DEF Deleted, Remembering
<1>9. before \in Places /\ after \in Places BY <1>2, <1>4
<1>10. j > a /\ j <= n - b
  <2>1. s[j] \notin StartPoints /\ s[j] \notin EndPoints BY PointsAssumption
  <2>. QED BY <1>2, <1>3, <2>1
<1> HIDE DEF u, t, n, a, b, before, after
<1>11. CASE p \in InternalPoints
  <2>1. p \notin StartPoints /\ p \notin EndPoints BY <1>11, PointsAssumption
  <2>2. c = u /\ Sectioned(t, a, b) BY <1>6, <1>11, <2>1
  <2>3. k > a /\ k <= n - b BY <1>2, <1>3, <2>1
  <2>4. a + 1 \in 1..n /\ n - b \in 1..n BY <1>2, <1>3
  <2>5. f = t[a + 1] /\ f \in Places
    <3>0. l.first = p <=> a + 1 = k BY <1>1, <1>2, <2>4
    <3>1. CASE a + 1 = k
      <4>1. a + 1 \in 1..n - 1 /\ ~(a + 1 < k) /\ k + 1 \in 1..n BY <1>2, <1>3, <1>10, <2>3, <3>1
      <4>2. t[a + 1] = s[k + 1] BY <1>5, <3>1, <4>1
      <4>3. f = after BY <1>7, <2>2, <3>0, <3>1
      <4>. QED BY <1>2, <1>4, <1>9, <4>1, <4>2, <4>3
    <3>2. CASE a + 1 # k
      <4>1. a + 1 \in 1..n - 1 /\ a + 1 < k BY <1>2, <1>3, <2>3, <3>2
      <4>2. t[a + 1] = s[a + 1] BY <1>5, <4>1
      <4>3. f = l.first BY <1>7, <2>2, <3>0, <3>2
      <4>. QED BY <1>1, <1>2, <2>4, <4>2, <4>3, PointSets
    <3>. QED BY <3>1, <3>2
  <2>6. g = t[(n - 1) - b] /\ g \in Places
    <3>0. l.last = p <=> n - b = k BY <1>1, <1>2, <2>4
    <3>1. CASE n - b = k
      <4>1. /\ (n - 1) - b \in 1..n - 1 /\ (n - 1) - b < k /\ k - 1 \in 1..n
            /\ (n - 1) - b = k - 1
        BY <1>2, <1>3, <1>10, <2>3, <3>1
      <4>2. t[(n - 1) - b] = s[k - 1] BY <1>5, <3>1, <4>1
      <4>3. g = before BY <1>7, <2>2, <3>0, <3>1
      <4>. QED BY <1>2, <1>4, <1>9, <4>1, <4>2, <4>3
    <3>2. CASE n - b # k
      <4>1. (n - 1) - b \in 1..n - 1 /\ ~((n - 1) - b < k) /\ ((n - 1) - b) + 1 = n - b
        BY <1>2, <1>3, <2>3, <3>2
      <4>2. t[(n - 1) - b] = s[n - b] BY <1>5, <4>1
      <4>3. g = l.last BY <1>7, <2>2, <3>0, <3>2
      <4>. QED BY <1>1, <1>2, <2>4, <4>2, <4>3, PointSets
    <3>. QED BY <3>1, <3>2
  <2> HIDE DEF f, g, c
  <2> DEFINE v == Remembering(c, f, g)
  <2>7. Threads(v, t) /\ v.first = f /\ v.last = g /\ v.starts = a /\ v.ends = b
    <3>1. Threads(c, t) /\ c.starts = a /\ c.ends = b BY <1>4, <1>7, <2>2
    <3>2. f \in Places /\ g \in Places BY <2>5, <2>6
    <3>. QED BY ONLY <3>1, <3>2, BesideTheRing
  <2> HIDE DEF v
  <2>8. Bounds(v, t) BY <1>5, <2>2, <2>5, <2>6, <2>7 DEF Bounds
  <2>9. n - 1 > 1 BY <1>2
  <2>. QED BY <1>5, <1>8, <2>7, <2>8, <2>9 DEF Holds, t, v
<1>12. CASE p \notin InternalPoints
  <2> DEFINE x == IF p \in StartPoints THEN a - 1 ELSE a
             y == IF p \in EndPoints THEN b - 1 ELSE b
  <2>1. c = Counted(u) BY <1>12
  <2> HIDE DEF x, y, f, g, c
  <2>2. Threads(c, t) /\ Bounds(c, t) /\ c.starts = x /\ c.ends = y
    BY <1>4, <1>6, <2>1, CountedBounds DEF x, y
  <2>3. c.first = t[x + 1] /\ c.last = t[Len(t) - y] /\ Sectioned(t, x, y) BY <2>2 DEF Bounds
  <2>4. x + 1 \in 1..Len(t) /\ Len(t) - y \in 1..Len(t)
    <3>1. x \in Nat /\ y \in Nat /\ x + y < Len(t) /\ Len(t) \in Nat BY <1>5, <2>3 DEF Sectioned
    <3>. QED BY <3>1
  <2>5. c.first \in ToSet(t) /\ c.last \in ToSet(t) BY <1>5, <2>3, <2>4, SeqFacts
  <2>6. c.first # p /\ c.last # p BY <1>5, <2>5
  <2>7. c.first \in Places /\ c.last \in Places BY <2>2 DEF Threads, Lists
  <2>8. f = c.first /\ g = c.last BY <2>6 DEF f, g
  <2> DEFINE v == Remembering(c, f, g)
  <2>9. Threads(v, t) /\ v.first = f /\ v.last = g /\ v.starts = x /\ v.ends = y
    <3>1. f \in Places /\ g \in Places BY <2>7, <2>8
    <3>. QED BY ONLY <2>2, <3>1, BesideTheRing
  <2> HIDE DEF v
  <2>10. Bounds(v, t) BY <2>3, <2>8, <2>9 DEF Bounds
  <2>11. n - 1 > 1 BY <1>2
  <2>. QED BY <1>5, <1>8, <2>9, <2>10, <2>11 DEF Holds, t, v
<1>. QED BY <1>11, <1>12

-----------------------------------------------------------------------------
(***************************************************************************)
(* The operators PointOrder uses.                                          *)
(***************************************************************************)
LEMMA Found ==
  ASSUME NEW s \in Seq(Points), IsInjective(s), NEW j \in 1..Len(s)
  PROVE  /\ SelectInSeq(s, LAMBDA v : v = s[j]) = j
         /\ Sequence!SelectInSeq(s, LAMBDA v : v = s[j]) = j
<1> DEFINE I == {i \in 1..Len(s) : s[i] = s[j]}
<1>1. I = {j} BY SeqFacts
<1>2. j = CHOOSE x \in I : \A y \in I : x =< y BY <1>1
<1> HIDE DEF I
<1>3. I # {} BY <1>1
<1>. QED BY <1>2, <1>3 DEF SelectInSeq, Min, Sequence!SelectInSeq, Sequence!Min, I

LEMMA RemovedFirst ==
  ASSUME NEW s \in Seq(Points), IsInjective(s)
  PROVE  /\ \A p : p \notin ToSet(s) => Sequence!RemoveFirst(s, p) = s
         /\ \A k \in 1..Len(s) : Sequence!RemoveFirst(s, s[k]) = RemoveAt(s, k)
<1>1. ASSUME NEW p, p \notin ToSet(s) PROVE Sequence!RemoveFirst(s, p) = s
  <2>1. ~\E i \in 1..Len(s) : s[i] = p BY <1>1, SeqFacts
  <2>. QED BY <2>1 DEF Sequence!RemoveFirst
<1>2. ASSUME NEW k \in 1..Len(s) PROVE Sequence!RemoveFirst(s, s[k]) = RemoveAt(s, k)
  <2>1. Sequence!SelectInSeq(s, LAMBDA v : v = s[k]) = k BY Found
  <2>. QED BY <2>1 DEF Sequence!RemoveFirst, Sequence!RemoveAt, RemoveAt
<1>. QED BY <1>1, <1>2

LEMMA SameSize == \A S : Sequence!Cardinality(S) = Cardinality(S)
BY DEF Cardinality, Sequence!Cardinality

(* The index behind which a point is placed that goes after s[j]. *)
LEMMA BehindSections ==
  ASSUME NEW s \in Seq(Points), IsInjective(s), NEW n, NEW m, Sectioned(s, n, m),
         NEW j \in 1..Len(s)
  PROVE  Sequence!Behind(s, s[j]) = IF s[j] \in StartPoints THEN n
                                    ELSE IF s[j] \in EndPoints THEN Len(s) - m ELSE j
<1>1. Len(s) \in Nat /\ DOMAIN s = 1..Len(s) BY SeqFacts
<1>2. /\ n \in Nat /\ m \in Nat /\ n + m < Len(s)
      /\ \A i \in 1..Len(s) : /\ s[i] \in StartPoints <=> i <= n
                              /\ s[i] \in EndPoints <=> i > Len(s) - m
  BY DEF Sectioned
<1>3. {i \in DOMAIN s : s[i] \in StartPoints} = 1..n
  <2>1. \A i \in 1..n : i \in 1..Len(s) /\ i <= n BY <1>1, <1>2
  <2>. QED BY <1>1, <1>2, <2>1
<1>4. {i \in DOMAIN s : s[i] \notin EndPoints} = 1..(Len(s) - m)
  <2>1. \A i \in 1..(Len(s) - m) : i \in 1..Len(s) /\ ~(i > Len(s) - m) BY <1>1, <1>2
  <2>2. \A i \in 1..Len(s) : ~(i > Len(s) - m) => i \in 1..(Len(s) - m) BY <1>1, <1>2
  <2>. QED BY <1>1, <1>2, <2>1, <2>2
<1>5. Len(s) - m \in Nat BY <1>1, <1>2
<1>6. /\ Cardinality({i \in DOMAIN s : s[i] \in StartPoints}) = n
      /\ Cardinality({i \in DOMAIN s : s[i] \notin EndPoints}) = Len(s) - m
  BY <1>2, <1>3, <1>4, <1>5, IntervalSize
<1>7. Sequence!SelectInSeq(s, LAMBDA v : v = s[j]) = j BY Found
<1>. QED BY <1>6, <1>7, SameSize DEF Sequence!Behind

(* InsertNextPoint, once the point is out of the list. *)
LinkedAfter(l, p, q) ==
  LET isFirst == q \in StartPoints
      isLast == ~isFirst /\ (q \in EndPoints \/ q = l.last)
      before == IF isFirst THEN l.prev[l.first] ELSE IF isLast THEN l.last ELSE q
  IN LinkedIn(l, p, before, isFirst, isLast)

LEMMA LinkedHolds ==
  ASSUME NEW l, NEW s, Holds(l, s), NEW p \in InternalPoints, p \notin ToSet(s),
         NEW j \in 1..Len(s)
  PROVE  LET k == Sequence!Behind(s, s[j]) + 1
         IN  k \in 1..Len(s) + 1 /\ Holds(LinkedAfter(l, p, s[j]), InsertAt(s, k, p))
<1> DEFINE q == s[j]
           n == Len(s)
           a == l.starts
           b == l.ends
           k == Sequence!Behind(s, q) + 1
           isFirst == q \in StartPoints
           isLast == ~isFirst /\ (q \in EndPoints \/ q = l.last)
           before == IF isFirst THEN l.prev[l.first] ELSE IF isLast THEN l.last ELSE q
           t == InsertAt(s, k, p)
           u == LinkedIn(l, p, before, isFirst, isLast)
<1>1. /\ Threads(l, s) /\ Sectioned(s, a, b) /\ l.first = s[a + 1] /\ l.last = s[n - b]
      /\ s \in Seq(Points) /\ IsInjective(s) /\ l \in Lists
      /\ \A i \in 1..n + 1 : l.prev[At(s, i)] = At(s, i - 1)
  BY DEF Holds, Bounds, Threads
<1>2. /\ n \in Nat /\ n > 1 /\ j \in 1..n
      /\ \A i \in 1..n : s[i] \in Points /\ At(s, i) = s[i]
      /\ \A i, h \in 1..n : s[i] = s[h] => i = h
  BY <1>1, SeqFacts DEF Holds
<1>3. /\ a \in Nat /\ b \in Nat /\ a + b < n
      /\ \A i \in 1..n : /\ s[i] \in StartPoints <=> i <= a
                         /\ s[i] \in EndPoints <=> i > n - b
  BY <1>1 DEF Sectioned
<1>4. k = IF isFirst THEN a + 1 ELSE IF q \in EndPoints THEN (n - b) + 1 ELSE j + 1
  BY <1>1, BehindSections
<1>5. n - b \in 1..n /\ a + 1 \in 1..n /\ a + 1 \in 1..n + 1
  <2> HIDE DEF n, a, b
  <2>. QED BY <1>2, <1>3
<1>6. (isFirst <=> j <= a) /\ (q \in EndPoints <=> j > n - b) BY <1>2, <1>3
<1>7. q = l.last <=> j = n - b BY <1>1, <1>2, <1>5
<1>8. l.prev[l.first] = At(s, a)
  <2>1. (a + 1) - 1 = a BY <1>3
  <2>2. l.first = At(s, a + 1) BY <1>1, <1>2, <1>5
  <2> HIDE DEF n, a, b, q
  <2>3. l.prev[At(s, a + 1)] = At(s, (a + 1) - 1) BY <1>1, <1>5
  <2>. QED BY <2>1, <2>2, <2>3
<1>9. isLast <=> j >= n - b
  <2> HIDE DEF n, a, b, q
  <2>. QED BY <1>2, <1>3, <1>6, <1>7
<1> HIDE DEF isFirst, isLast, n, a, b, q, k
<1>10. k = IF j <= a THEN a + 1 ELSE IF j >= n - b THEN (n - b) + 1 ELSE j + 1
  BY <1>2, <1>3, <1>4, <1>6
<1>11. k \in a + 1 .. n - b + 1 BY <1>2, <1>3, <1>10
<1>12. (isFirst <=> k = a + 1) /\ (isLast <=> k = (n - b) + 1) BY <1>2, <1>3, <1>6, <1>9, <1>10
<1>13. before = At(s, k - 1)
  <2>1. CASE isFirst
    <3>1. k - 1 = a BY <1>3, <1>12, <2>1
    <3>. QED BY <1>8, <2>1, <3>1
  <2>2. CASE ~isFirst /\ isLast
    <3>1. k - 1 = n - b BY <1>2, <1>3, <1>12, <2>2
    <3>. QED BY <1>1, <1>2, <1>5, <2>2, <3>1
  <2>3. CASE ~isFirst /\ ~isLast
    <3>1. k - 1 = j BY <1>2, <1>3, <1>6, <1>9, <1>10, <2>3
    <3>. QED BY <1>2, <2>3, <3>1 DEF q
  <2>. QED BY <2>1, <2>2, <2>3
<1>14. p \in Points BY DEF Points
<1>15. k \in 1..n + 1 /\ Sectioned(t, a, b) BY <1>1, <1>11, SectionsWith DEF n
<1>16. isFirst \in BOOLEAN /\ isLast \in BOOLEAN BY DEF isFirst, isLast
<1>17. /\ Threads(u, t) /\ u.starts = a /\ u.ends = b
       /\ u.first = IF isFirst THEN p ELSE l.first
       /\ u.last = IF isLast THEN p ELSE l.last
  <2> HIDE DEF before
  <2>. QED BY <1>1, <1>13, <1>14, <1>15, <1>16, LinkedThreads DEF n, a, b
<1>18. Len(t) = n + 1 /\ \A i \in 1..n + 1 : t[i] = IF i < k THEN s[i] ELSE IF i = k THEN p ELSE s[i - 1]
  BY <1>1, <1>14, <1>15, PutIn DEF n
<1> HIDE DEF t, u, before
<1>19. u.first = t[a + 1]
  <2>1. CASE isFirst BY <1>5, <1>12, <1>17, <1>18, <2>1
  <2>2. CASE ~isFirst
    <3>1. a + 1 < k BY <1>3, <1>11, <1>12, <2>2
    <3>. QED BY <1>1, <1>5, <1>17, <1>18, <2>2, <3>1
  <2>. QED BY <2>1, <2>2
<1>20. u.last = t[(n + 1) - b]
  <2>0. (n + 1) - b \in 1..n + 1 /\ (n + 1) - b = (n - b) + 1 /\ n - b = ((n + 1) - b) - 1
    BY <1>2, <1>3
  <2>1. CASE isLast BY <1>12, <1>17, <1>18, <2>0, <2>1
  <2>2. CASE ~isLast
    <3>1. ~((n + 1) - b < k) /\ (n + 1) - b # k BY <1>2, <1>3, <1>11, <1>12, <2>2
    <3>. QED BY <1>1, <1>17, <1>18, <2>0, <2>2, <3>1
  <2>. QED BY <2>1, <2>2
<1>21. Bounds(u, t) BY <1>15, <1>17, <1>18, <1>19, <1>20 DEF Bounds
<1>22. Holds(u, t) BY <1>2, <1>17, <1>18, <1>21 DEF Holds
<1>23. u = LinkedAfter(l, p, q) BY DEF u, before, isFirst, isLast, LinkedAfter
<1>. QED BY <1>15, <1>22, <1>23 DEF t, q, k, n

-----------------------------------------------------------------------------
(***************************************************************************)
(* What the actions of the list do.                                        *)
(***************************************************************************)
(* The points of other cells stay, so there is always an internal point left
   beside the one that is moved or deleted. *)
LEMMA OthersStay ==
  ASSUME NEW s \in Seq(Points), IsInjective(s), Fixed \subseteq ToSet(s), NEW p, p \notin Fixed
  PROVE  /\ \E j \in 1..Len(s) : s[j] # p /\ s[j] \in InternalPoints
         /\ Len(s) > 1
         /\ p \in ToSet(s) => Len(s) > 2
<1>1. PICK x \in Fixed \cap InternalPoints : Fixed # {x} BY OrderAssumption
<1>2. PICK y \in Fixed : y # x BY <1>1
<1>3. Len(s) \in Nat /\ \A q \in ToSet(s) : \E i \in 1..Len(s) : q = s[i] BY SeqFacts
<1>4. PICK i \in 1..Len(s) : x = s[i] BY <1>1, <1>3
<1>5. PICK j \in 1..Len(s) : y = s[j] BY <1>2, <1>3
<1>6. i # j BY <1>2, <1>4, <1>5
<1>7. ASSUME p \in ToSet(s) PROVE Len(s) > 2
  <2>1. PICK h \in 1..Len(s) : p = s[h] BY <1>3, <1>7
  <2>2. h # i /\ h # j BY <1>1, <1>2, <1>4, <1>5, <2>1
  <2>. QED BY <1>3, <1>6, <2>2
<1>8. Len(s) > 1 BY <1>3, <1>6
<1>9. s[i] # p /\ s[i] \in InternalPoints BY <1>1, <1>4
<1>. QED BY <1>7, <1>8, <1>9

LEMMA DeletedFollows ==
  ASSUME NEW l, NEW s, Holds(l, s), Fixed \subseteq ToSet(s), NEW p \in ToSet(s), p \notin Fixed
  PROVE  /\ Holds(Deleted(l, p), Sequence!RemoveFirst(s, p))
         /\ ToSet(Sequence!RemoveFirst(s, p)) = ToSet(s) \ {p}
<1>1. s \in Seq(Points) /\ IsInjective(s) BY DEF Holds, Threads
<1>2. PICK k \in 1..Len(s) : p = s[k] BY <1>1, SeqFacts
<1>3. PICK j \in 1..Len(s) : s[j] # p /\ s[j] \in InternalPoints BY <1>1, OthersStay
<1>4. Len(s) > 2 BY <1>1, OthersStay
<1>5. Sequence!RemoveFirst(s, p) = RemoveAt(s, k) BY <1>1, <1>2, RemovedFirst
<1>6. Holds(Deleted(l, p), RemoveAt(s, k)) BY <1>2, <1>3, <1>4, DeletedHolds
<1>7. ToSet(RemoveAt(s, k)) = ToSet(s) \ {p} BY <1>1, <1>2, TakenOut
<1>. QED BY <1>5, <1>6, <1>7

(* The sequence s with p after q, as PointOrder places it. *)
PlacedAfter(s, p, q) ==
  LET rest == Sequence!RemoveFirst(s, p)
  IN Sequence!InsertAt(rest, Sequence!Behind(rest, q) + 1, p)

LEMMA InsertedFollows ==
  ASSUME NEW l, NEW s, Holds(l, s), Fixed \subseteq ToSet(s),
         NEW p \in InternalPoints, p \notin Fixed, NEW q \in ToSet(s), p # q
  PROVE  /\ Holds(Inserted(l, p, q), PlacedAfter(s, p, q))
         /\ ToSet(PlacedAfter(s, p, q)) = ToSet(s) \cup {p}
<1> DEFINE base == IF IsLinked(l, p) THEN Deleted(l, p) ELSE l
           r == Sequence!RemoveFirst(s, p)
           k == Sequence!Behind(r, q) + 1
<1>1. s \in Seq(Points) /\ IsInjective(s) /\ Threads(l, s) /\ Len(s) > 1 BY DEF Holds, Threads
<1>2. p \in Points BY DEF Points
<1>3. IsLinked(l, p) <=> p \in ToSet(s) BY <1>1, <1>2, LinkedPoints
<1>4. Holds(base, r) /\ ToSet(r) = ToSet(s) \ {p}
  <2>1. CASE p \in ToSet(s) BY <1>3, <2>1, DeletedFollows
  <2>2. CASE p \notin ToSet(s)
    <3>1. r = s BY <1>1, <2>2, RemovedFirst
    <3>. QED BY <1>3, <2>2, <3>1
  <2>. QED BY <2>1, <2>2
<1> HIDE DEF base, r
<1>5. r \in Seq(Points) /\ IsInjective(r) BY <1>4 DEF Holds, Threads
<1>6. q \in ToSet(r) /\ p \notin ToSet(r) BY <1>4
<1>7. PICK j \in 1..Len(r) : q = r[j] BY <1>5, <1>6, SeqFacts
<1>8. k \in 1..Len(r) + 1 /\ Holds(LinkedAfter(base, p, q), InsertAt(r, k, p))
  BY <1>4, <1>6, <1>7, LinkedHolds
<1>9. Inserted(l, p, q) = LinkedAfter(base, p, q) BY DEF Inserted, LinkedAfter, base
<1>10. PlacedAfter(s, p, q) = InsertAt(r, k, p)
  BY DEF PlacedAfter, r, Sequence!InsertAt, InsertAt
<1>11. ToSet(InsertAt(r, k, p)) = ToSet(r) \cup {p} BY <1>2, <1>5, <1>6, <1>8, PutIn
<1>. QED BY <1>4, <1>8, <1>9, <1>10, <1>11

(* The points of a ring are those a walk from the root comes to. *)
LEMMA WalkStays ==
  ASSUME NEW l, NEW s, Threads(l, s), NEW n \in Nat
  PROVE  Walk(l.next, n) \in ToSet(s) \cup {Root}
<1> DEFINE K == {k \in 0..n : Walk(l.next, k) \in ToSet(s) \cup {Root}}
<1>1. /\ l.next \in [Places -> Places] /\ s \in Seq(Points) /\ IsInjective(s)
      /\ \A i \in 0..Len(s) : l.next[At(s, i)] = At(s, i + 1)
  BY DEF Threads, Lists
<1>2. 0 \in K BY <1>1, WalkSteps
<1>3. ASSUME NEW k \in 0..n, k \in K, k + 1 \in 0..n PROVE k + 1 \in K
  <2>0. k \in Nat OBVIOUS
  <2>1. Walk(l.next, k + 1) = l.next[Walk(l.next, k)] BY <1>1, <2>0, WalkSteps
  <2>2. PICK i \in 0..Len(s) : Walk(l.next, k) = At(s, i)
    <3>1. CASE Walk(l.next, k) = Root BY <1>1, <3>1, SeqFacts
    <3>2. CASE Walk(l.next, k) \in ToSet(s) BY <1>1, <3>2, SeqFacts
    <3>. QED BY <1>3, <3>1, <3>2
  <2>3. Walk(l.next, k + 1) = At(s, i + 1) BY <1>1, <2>1, <2>2
  <2>4. At(s, i + 1) \in ToSet(s) \cup {Root} BY <1>1, SeqFacts DEF At
  <2>. QED BY <1>3, <2>3, <2>4
<1> HIDE DEF K
<1>4. 0..n \subseteq K BY <1>2, <1>3, Climb
<1>. QED BY <1>4 DEF K

LEMMA InListPoints ==
  ASSUME NEW s, Threads(list, s), NEW p \in Points
  PROVE  InList(p) <=> p \in ToSet(s)
<1>1. s \in Seq(Points) /\ IsInjective(s) BY DEF Threads
<1>2. ASSUME p \in ToSet(s) PROVE InList(p)
  <2>1. PICK i \in 1..Len(s) : p = At(s, i) BY <1>1, <1>2, SeqFacts
  <2>2. Len(s) \in Nat /\ Len(s) <= Cardinality(Points) /\ Cardinality(Points) \in Nat
    BY <1>1, SeqFacts, PointSets
  <2>3. i \in 1..Cardinality(Points) /\ i \in 0..Len(s) + 1 BY <2>2
  <2>4. Walk(list.next, i) = p BY <2>1, <2>3, WalkAlong
  <2>. QED BY <2>3, <2>4 DEF InList
<1>3. ASSUME InList(p) PROVE p \in ToSet(s)
  <2>1. PICK n \in 1..Cardinality(Points) : Walk(list.next, n) = p BY <1>3 DEF InList
  <2>2. n \in Nat BY PointSets
  <2>. QED BY <2>1, <2>2, WalkStays, PointSets
<1>. QED BY <1>2, <1>3

-----------------------------------------------------------------------------
(***************************************************************************)
(* The initial list.                                                       *)
(***************************************************************************)
LEMMA SectionsExist ==
  \E n, m : Sectioned(InitialOrder, n, m)
<1> DEFINE s == InitialOrder
           L == Len(s)
           N == {i \in 0..L : i = L \/ s[i + 1] \notin StartPoints}
           E == {i \in 0..L : i = L \/ s[i + 1] \in EndPoints}
<1>1. /\ s \in Seq(Points) /\ IsInjective(s)
      /\ \A i, j \in 1..L : i < j =>
           /\ s[j] \in StartPoints => s[i] \in StartPoints
           /\ s[i] \in EndPoints => s[j] \in EndPoints
  BY OrderAssumption
<1>2. L \in Nat BY <1>1
<1>3. N \subseteq Nat /\ E \subseteq Nat /\ L \in N /\ L \in E BY <1>2
<1> HIDE DEF N, E
<1>4. PICK n \in N : \A j \in N : n <= j BY <1>3, LeastNumber
<1>5. PICK e \in E : \A j \in E : e <= j BY <1>3, LeastNumber
<1>6. PICK x \in 1..L : s[x] \in InternalPoints
  <2>1. PICK p \in Fixed \cap InternalPoints : TRUE BY OrderAssumption
  <2>2. p \in ToSet(s) BY OrderAssumption
  <2>. QED BY <1>1, <2>2, SeqFacts
<1>7. s[x] \notin StartPoints /\ s[x] \notin EndPoints BY <1>6, PointsAssumption
<1> USE DEF N, E
<1>8. n \in 0..L /\ e \in 0..L OBVIOUS
<1> HIDE DEF L, s
<1>9. ASSUME NEW i \in 1..L PROVE s[i] \in StartPoints <=> i <= n
  <2>1. CASE i <= n
    <3>1. i - 1 \in 0..L /\ ~(n <= i - 1) /\ i - 1 # L /\ (i - 1) + 1 = i BY <1>2, <1>8, <2>1
    <3>2. i - 1 \notin N BY <1>4, <3>1
    <3>. QED BY <2>1, <3>1, <3>2
  <2>2. CASE i > n
    <3>1. n + 1 \in 1..L /\ n # L BY <1>2, <1>8, <2>2
    <3>2. s[n + 1] \notin StartPoints BY <1>4, <3>1
    <3>3. n + 1 = i \/ n + 1 < i BY <1>8, <2>2
    <3>. QED BY <1>1, <1>8, <2>2, <3>1, <3>2, <3>3
  <2>. QED BY <1>8, <2>1, <2>2
<1>10. ASSUME NEW i \in 1..L PROVE s[i] \in EndPoints <=> i > e
  <2>1. CASE i <= e
    <3>1. i - 1 \in 0..L /\ ~(e <= i - 1) /\ i - 1 # L /\ (i - 1) + 1 = i BY <1>2, <1>8, <2>1
    <3>2. i - 1 \notin E BY <1>5, <3>1
    <3>. QED BY <1>8, <2>1, <3>1, <3>2
  <2>2. CASE i > e
    <3>1. e + 1 \in 1..L /\ e # L BY <1>2, <1>8, <2>2
    <3>2. s[e + 1] \in EndPoints BY <1>5, <3>1
    <3>3. e + 1 = i \/ e + 1 < i BY <1>8, <2>2
    <3>. QED BY <1>1, <1>8, <2>2, <3>1, <3>2, <3>3
  <2>. QED BY <1>8, <2>1, <2>2
<1>11. ~(x <= n) /\ ~(x > e) BY <1>6, <1>7, <1>9, <1>10
<1>12. L - e \in Nat /\ n + (L - e) < L /\ L - (L - e) = e BY <1>2, <1>6, <1>8, <1>11
<1>13. Sectioned(s, n, L - e) BY <1>8, <1>9, <1>10, <1>12 DEF Sectioned, L
<1>. QED BY <1>13 DEF s

LEMMA InitialHolds == Holds(ListOf(InitialOrder), InitialOrder)
<1> DEFINE s == InitialOrder
           L == Len(s)
           beside(p, places, d) == IF \E i \in places : At(s, i) = p
                                   THEN At(s, (CHOOSE i \in places : At(s, i) = p) + d) ELSE Root
           next == [p \in Places |-> beside(p, 0..L, 1)]
           prev == [p \in Places |-> beside(p, 1..L+1, -1)]
           l == [next |-> next, prev |-> prev,
                 first |-> Root, last |-> Root, starts |-> 0, ends |-> 0]
<1>1. s \in Seq(Points) /\ IsInjective(s) BY OrderAssumption
<1>2. /\ L \in Nat /\ \A i : At(s, i) \in Places
      /\ \A i, j \in 0..L : At(s, i) = At(s, j) => i = j
      /\ \A i, j \in 1..L + 1 : At(s, i) = At(s, j) => i = j
      /\ At(s, 0) = Root /\ At(s, L + 1) = Root
      /\ \A i \in 1..L : At(s, i) \in ToSet(s)
  BY <1>1, SeqFacts
<1>3. ListOf(s) = Counted(l) BY DEF ListOf, At
<1>4. next \in [Places -> Places] /\ prev \in [Places -> Places] BY <1>2, PointSets
<1>5. l \in Lists /\ l.next = next /\ l.prev = prev
  <2>1. 0 \in 0..Cardinality(StartPoints) /\ 0 \in 0..Cardinality(EndPoints) BY PointSets
  <2>. QED BY <1>4, <2>1, PointSets DEF Lists
<1>6. ASSUME NEW i \in 0..L PROVE next[At(s, i)] = At(s, i + 1)
  <2>1. (CHOOSE j \in 0..L : At(s, j) = At(s, i)) = i BY <1>2
  <2>. QED BY <1>2, <2>1
<1>7. ASSUME NEW i \in 1..L + 1 PROVE prev[At(s, i)] = At(s, i - 1)
  <2>1. (CHOOSE j \in 1..L + 1 : At(s, j) = At(s, i)) = i BY <1>2
  <2>2. i + (-1) = i - 1 BY <1>2
  <2>. QED BY <1>2, <2>1, <2>2
<1>8. ASSUME NEW p \in Points \ ToSet(s) PROVE next[p] = Root /\ prev[p] = Root
  <2>1. p # Root /\ p \in Places BY PointSets
  <2>2. \A i \in 0..L : At(s, i) # p
    <3>1. \A i \in 0..L : i = 0 \/ i \in 1..L BY <1>2
    <3>. QED BY <1>2, <1>8, <2>1, <3>1
  <2>3. \A i \in 1..L + 1 : At(s, i) # p
    <3>1. \A i \in 1..L + 1 : i = L + 1 \/ i \in 1..L BY <1>2
    <3>. QED BY <1>2, <1>8, <2>1, <3>1
  <2>. QED BY <2>1, <2>2, <2>3
<1>9. Threads(l, s)
  <2> HIDE DEF l, next, prev
  <2>. QED BY <1>1, <1>5, <1>6, <1>7, <1>8 DEF Threads
<1> HIDE DEF l, next, prev
<1>10. PICK n, m : Sectioned(s, n, m) BY SectionsExist
<1>11. Threads(ListOf(s), s) /\ Bounds(ListOf(s), s) BY <1>3, <1>9, <1>10, CountedBounds
<1>12. Len(s) > 1
  <2>1. PICK x \in Fixed \cap InternalPoints : Fixed # {x} BY OrderAssumption
  <2>2. PICK y \in Fixed : y # x BY <2>1
  <2>3. Fixed \subseteq ToSet(s) BY OrderAssumption
  <2>4. PICK i \in 1..L : x = s[i] BY <1>1, <2>1, <2>3, SeqFacts
  <2>5. PICK j \in 1..L : y = s[j] BY <1>1, <2>2, <2>3, SeqFacts
  <2>. QED BY <1>2, <2>2, <2>4, <2>5
<1>. QED BY <1>11, <1>12 DEF Holds

-----------------------------------------------------------------------------
(***************************************************************************)
(* The invariant: the links are those of the sequence of points, and the   *)
(* points of the cells that buffering leaves alone are in it.              *)
(***************************************************************************)
ListInv == Holds(list, Order) /\ Fixed \subseteq ToSet(Order)

LEMMA OrderIsOrderIn == Order = OrderIn(list) /\ Order' = OrderIn(list')
BY DEF Order, OrderIn

LEMMA HoldsOrder ==
  ASSUME NEW l, NEW s, Holds(l, s)
  PROVE  OrderIn(l) = s
BY OrderOfRing DEF Holds

LEMMA ListInit == Init => ListInv /\ Order = InitialOrder
<1> SUFFICES ASSUME Init PROVE ListInv /\ Order = InitialOrder OBVIOUS
<1>1. Holds(list, InitialOrder) BY InitialHolds DEF Init
<1>2. Order = InitialOrder BY <1>1, HoldsOrder, OrderIsOrderIn
<1>3. Fixed \subseteq ToSet(InitialOrder) BY OrderAssumption
<1>. QED BY <1>1, <1>2, <1>3 DEF ListInv

LEMMA InsertStep ==
  ASSUME ListInv, NEW p \in InternalPoints, NEW q \in Points, InsertNextPoint(p, q)
  PROVE  ListInv' /\ Sequence!Place(p, q)
<1>1. /\ p \notin Fixed /\ p # q /\ InList(q) /\ list' = Inserted(list, p, q)
  BY DEF InsertNextPoint
<1>2. Threads(list, Order) /\ Order \in Seq(Points) /\ IsInjective(Order)
      /\ Holds(list, Order) /\ Fixed \subseteq ToSet(Order)
  BY DEF ListInv, Holds, Threads
<1>3. q \in ToSet(Order) BY <1>1, <1>2, InListPoints
<1>4. /\ Holds(list', PlacedAfter(Order, p, q))
      /\ ToSet(PlacedAfter(Order, p, q)) = ToSet(Order) \cup {p}
  BY <1>1, <1>2, <1>3, InsertedFollows
<1>5. Order' = PlacedAfter(Order, p, q) BY <1>4, HoldsOrder, OrderIsOrderIn
<1>6. Holds(list', Order') /\ Fixed \subseteq ToSet(Order') BY <1>2, <1>4, <1>5
<1>7. ListInv' BY <1>6 DEF ListInv
<1>8. Sequence!Contains(Order, q)
  <2>1. PICK i \in 1..Len(Order) : q = Order[i] BY <1>2, <1>3, SeqFacts
  <2>. QED BY <2>1 DEF Sequence!Contains
<1>9. Sequence!Place(p, q) BY <1>1, <1>5, <1>8 DEF Sequence!Place, PlacedAfter
<1>. QED BY <1>7, <1>9

LEMMA DeleteStep ==
  ASSUME ListInv, NEW p \in Points, DeletePointInList(p)
  PROVE  ListInv' /\ Sequence!TakeOut(p)
<1>1. p \notin Fixed /\ InList(p) /\ list' = Deleted(list, p) BY DEF DeletePointInList
<1>2. Threads(list, Order) /\ Order \in Seq(Points) /\ IsInjective(Order)
      /\ Holds(list, Order) /\ Fixed \subseteq ToSet(Order)
  BY DEF ListInv, Holds, Threads
<1>3. p \in ToSet(Order) BY <1>1, <1>2, InListPoints
<1>4. /\ Holds(list', Sequence!RemoveFirst(Order, p))
      /\ ToSet(Sequence!RemoveFirst(Order, p)) = ToSet(Order) \ {p}
  BY <1>1, <1>2, <1>3, DeletedFollows
<1>5. Order' = Sequence!RemoveFirst(Order, p) BY <1>4, HoldsOrder, OrderIsOrderIn
<1>6. Holds(list', Order') /\ Fixed \subseteq ToSet(Order') BY <1>1, <1>2, <1>4, <1>5
<1>7. ListInv' BY <1>6 DEF ListInv
<1>8. Sequence!Contains(Order, p)
  <2>1. PICK i \in 1..Len(Order) : p = Order[i] BY <1>2, <1>3, SeqFacts
  <2>. QED BY <2>1 DEF Sequence!Contains
<1>9. Sequence!TakeOut(p) BY <1>1, <1>5, <1>8 DEF Sequence!TakeOut
<1>. QED BY <1>7, <1>9

LEMMA ListStep == ListInv /\ [Next]_list => ListInv' /\ [Sequence!Next]_Order
<1> SUFFICES ASSUME ListInv, [Next]_list PROVE ListInv' /\ [Sequence!Next]_Order OBVIOUS
<1>1. ASSUME NEW p \in InternalPoints, NEW q \in Points, InsertNextPoint(p, q)
      PROVE  ListInv' /\ Sequence!Next
  <2>1. ListInv' /\ Sequence!Place(p, q) BY <1>1, InsertStep
  <2>. QED BY <2>1 DEF Sequence!Next, Sequence!Points, Points
<1>2. ASSUME NEW p \in Points, DeletePointInList(p) PROVE ListInv' /\ Sequence!Next
  <2>1. ListInv' /\ Sequence!TakeOut(p) BY <1>2, DeleteStep
  <2>. QED BY <2>1 DEF Sequence!Next, Sequence!Points, Points
<1>3. CASE UNCHANGED list
  <2>1. Order' = Order BY <1>3, OrderIsOrderIn
  <2>. QED BY <1>3, <2>1 DEF ListInv
<1>. QED BY <1>1, <1>2, <1>3 DEF Next

LEMMA ListInvHolds == Spec => []ListInv
<1>1. Init => ListInv BY ListInit
<1>2. ListInv /\ [Next]_list => ListInv' BY ListStep
<1>. QED BY <1>1, <1>2, PTL DEF Spec

(* What the invariant says of the list. *)
LEMMA ListInvCloses == ListInv => RingCloses
<1> SUFFICES ASSUME ListInv PROVE RingCloses OBVIOUS
<1> DEFINE s == Order
<1>1. Threads(list, s) /\ s \in Seq(Points) /\ IsInjective(s) /\ Len(s) > 1
  BY DEF ListInv, Holds, Threads
<1>2. /\ Len(s) \in Nat /\ DOMAIN s = 1..Len(s) /\ \A i \in 1..Len(s) : At(s, i) = s[i]
      /\ At(s, 0) = Root
  BY <1>1, SeqFacts
<1>3. ASSUME NEW i \in 1..Len(s) + 1
      PROVE  Walk(list.prev, i) = IF i > Len(s) THEN Root ELSE s[Len(s) + 1 - i]
  <2>1. Walk(list.prev, i) = At(s, Len(s) + 1 - i)
    <3>1. i \in 0..Len(s) + 1 BY <1>2
    <3>. QED BY <1>1, <3>1, WalkAlong
  <2>2. CASE i > Len(s)
    <3>1. Len(s) + 1 - i = 0 BY <1>2, <2>2
    <3>. QED BY <1>2, <2>1, <2>2, <3>1
  <2>3. CASE ~(i > Len(s))
    <3>1. Len(s) + 1 - i \in 1..Len(s) BY <1>2, <2>3
    <3>. QED BY <1>2, <2>1, <2>3, <3>1
  <2>. QED BY <2>2, <2>3
<1>4. ASSUME NEW p \in Points PROVE p \in {s[i] : i \in 1..Len(s)} <=> IsLinked(list, p)
  <2>1. ToSet(s) = {s[i] : i \in 1..Len(s)} BY <1>2 DEF ToSet
  <2>. QED BY <1>1, <2>1, LinkedPoints
<1>. QED BY <1>3, <1>4 DEF RingCloses

LEMMA ListInvBounds == ListInv => BoundariesRight
<1> SUFFICES ASSUME ListInv PROVE BoundariesRight OBVIOUS
<1> DEFINE s == Order
           a == list.starts
           b == list.ends
<1>1. /\ Threads(list, s) /\ s \in Seq(Points) /\ IsInjective(s) /\ Sectioned(s, a, b)
      /\ list.first = s[a + 1] /\ list.last = s[Len(s) - b]
  BY DEF ListInv, Holds, Threads, Bounds
<1>2. /\ Len(s) \in Nat /\ \A i \in 1..Len(s) : At(s, i) = s[i] /\ s[i] \in Points
  BY <1>1, SeqFacts
<1>3. /\ a \in Nat /\ b \in Nat /\ a + b < Len(s)
      /\ \A i \in 1..Len(s) : /\ s[i] \in StartPoints <=> i <= a
                              /\ s[i] \in EndPoints <=> i > Len(s) - b
  BY <1>1 DEF Sectioned
<1>4. RunLength(list.next, StartPoints) = a /\ RunLength(list.prev, EndPoints) = b
  <2> HIDE DEF s, a, b
  <2>. QED BY <1>1, CountedBounds
<1> HIDE DEF s, a, b
<1>5. /\ a + 1 \in 1..Len(s) /\ a + 1 \in 0..Len(s) + 1
      /\ b + 1 \in 0..Len(s) + 1 /\ Len(s) - b \in 1..Len(s)
      /\ (Len(s) + 1) - (b + 1) = Len(s) - b
  BY <1>2, <1>3
<1>6. Walk(list.next, a + 1) = s[a + 1] BY <1>1, <1>2, <1>5, WalkAlong
<1>7. Walk(list.prev, b + 1) = s[Len(s) - b]
  <2>1. Walk(list.prev, b + 1) = At(s, Len(s) + 1 - (b + 1)) BY <1>1, <1>5, WalkAlong
  <2>2. Walk(list.prev, b + 1) = At(s, Len(s) - b) BY <1>5, <2>1
  <2>3. At(s, Len(s) - b) = s[Len(s) - b] BY <1>2, <1>5
  <2>. QED BY <2>2, <2>3
<1>8. ASSUME NEW i \in a + 1 .. Len(s) - b PROVE s[i] \in InternalPoints
  <2>1. i \in 1..Len(s) /\ ~(i <= a) /\ ~(i > Len(s) - b) BY <1>2, <1>3
  <2>. QED BY <1>2, <1>3, <2>1 DEF Points
<1>. QED BY <1>1, <1>4, <1>6, <1>7, <1>8 DEF BoundariesRight, s, a, b

(***************************************************************************)
(* The list is a list: every link leads to a place, first and last are     *)
(* places, and the numbers of start and end points are numbers of them     *)
(* (HTimingPointsCollection).                                              *)
(***************************************************************************)
THEOREM ListTypeCorrect == Spec => []TypeOK
<1>1. ListInv => TypeOK BY DEF ListInv, Holds, Threads, TypeOK
<1>. QED BY <1>1, ListInvHolds, PTL

(***************************************************************************)
(* Whatever points buffering places and deletes, the ring closes, it is    *)
(* the same backwards, and a point out of it has no links, as              *)
(* VerifyTimingCalculationOrder demands (TimingUtils.cpp:326-398).         *)
(***************************************************************************)
THEOREM ListIsRing == Spec => []RingCloses
BY ListInvHolds, ListInvCloses, PTL

(***************************************************************************)
(* The start points stay at the front and the end points at the back,      *)
(* their numbers are right, and first and last are the internal points     *)
(* beside them (TimingUtils.cpp:400-463), although InsertNextPoint updates *)
(* both incrementally and DeletePointInList recounts only for start and    *)
(* end points.                                                             *)
(***************************************************************************)
THEOREM BoundariesStayRight == Spec => []BoundariesRight
BY ListInvHolds, ListInvBounds, PTL

(***************************************************************************)
(* The linked list implements the sequence of PointOrder: every call of    *)
(* InsertNextPoint and DeletePointInList puts the point where it was asked *)
(* to, or takes it out, and leaves all others in their order.              *)
(***************************************************************************)
THEOREM ListKeepsTheOrder == Spec => KeepsTheOrder
<1>1. Init => Sequence!Init BY ListInit DEF Sequence!Init
<1>2. ListInv /\ [Next]_list => [Sequence!Next]_Order BY ListStep
<1>. QED BY <1>1, <1>2, ListInvHolds, PTL DEF Spec, KeepsTheOrder, Sequence!Spec

-----------------------------------------------------------------------------
(***************************************************************************)
(* What comes before what in a sequence.                                   *)
(***************************************************************************)
Precedes(s, x, y) == \E i, j \in 1..Len(s) : i < j /\ s[i] = x /\ s[j] = y

SameOrder(s, t) == \A x, y \in ToSet(s) \cap ToSet(t) : Precedes(s, x, y) <=> Precedes(t, x, y)

LEMMA PrecedesFacts ==
  ASSUME NEW s \in Seq(Points), IsInjective(s)
  PROVE  /\ \A x, y : Precedes(s, x, y) => x \in ToSet(s) /\ y \in ToSet(s) /\ ~Precedes(s, y, x)
         /\ \A x, y, z : Precedes(s, x, y) /\ Precedes(s, y, z) => Precedes(s, x, z)
         /\ \A i, j \in 1..Len(s) : Precedes(s, s[i], s[j]) <=> i < j
<1>1. /\ Len(s) \in Nat /\ \A i \in 1..Len(s) : s[i] \in ToSet(s)
      /\ \A i, j \in 1..Len(s) : s[i] = s[j] => i = j
  BY SeqFacts
<1>2. \A i, j \in 1..Len(s) : Precedes(s, s[i], s[j]) <=> i < j BY <1>1 DEF Precedes
<1>3. ASSUME NEW x, NEW y, Precedes(s, x, y)
      PROVE  x \in ToSet(s) /\ y \in ToSet(s) /\ ~Precedes(s, y, x)
  <2>1. PICK i, j \in 1..Len(s) : i < j /\ s[i] = x /\ s[j] = y BY <1>3 DEF Precedes
  <2>2. ~(j < i) BY <1>1, <2>1
  <2>. QED BY <1>1, <1>2, <2>1, <2>2
<1>4. ASSUME NEW x, NEW y, NEW z, Precedes(s, x, y), Precedes(s, y, z) PROVE Precedes(s, x, z)
  <2>1. PICK i, j \in 1..Len(s) : i < j /\ s[i] = x /\ s[j] = y BY <1>4 DEF Precedes
  <2>2. PICK h, k \in 1..Len(s) : h < k /\ s[h] = y /\ s[k] = z BY <1>4 DEF Precedes
  <2>3. j = h /\ i < k BY <1>1, <2>1, <2>2
  <2>. QED BY <2>1, <2>2, <2>3 DEF Precedes
<1>. QED BY <1>2, <1>3, <1>4

LEMMA RemovalKeepsOrder ==
  ASSUME NEW s \in Seq(Points), IsInjective(s), NEW k \in 1..Len(s)
  PROVE  SameOrder(s, RemoveAt(s, k))
<1> DEFINE t == RemoveAt(s, k)
           n == Len(s)
<1>1. /\ t \in Seq(Points) /\ IsInjective(t) /\ Len(t) = n - 1
      /\ \A i \in 1..n - 1 : t[i] = IF i < k THEN s[i] ELSE s[i + 1]
  BY TakenOut
<1>2. n \in Nat BY SeqFacts
<1> SUFFICES ASSUME NEW x \in ToSet(s) \cap ToSet(t), NEW y \in ToSet(s) \cap ToSet(t)
             PROVE  Precedes(s, x, y) <=> Precedes(t, x, y)
  BY DEF SameOrder, t
<1> HIDE DEF t
<1>3. PICK i \in 1..Len(t) : x = t[i] BY <1>1, SeqFacts
<1>4. PICK j \in 1..Len(t) : y = t[j] BY <1>1, SeqFacts
<1> DEFINE i2 == IF i < k THEN i ELSE i + 1
           j2 == IF j < k THEN j ELSE j + 1
<1>5. i2 \in 1..n /\ j2 \in 1..n /\ x = s[i2] /\ y = s[j2] BY <1>1, <1>2, <1>3, <1>4
<1>6. i2 < j2 <=> i < j BY <1>1, <1>2
<1> HIDE DEF i2, j2
<1>7. Precedes(s, x, y) <=> i2 < j2 BY <1>5, PrecedesFacts
<1>8. Precedes(t, x, y) <=> i < j BY <1>1, <1>3, <1>4, PrecedesFacts
<1>. QED BY <1>6, <1>7, <1>8

LEMMA InsertionKeepsOrder ==
  ASSUME NEW s \in Seq(Points), IsInjective(s), NEW k \in 1..Len(s) + 1,
         NEW p \in Points, p \notin ToSet(s)
  PROVE  /\ SameOrder(s, InsertAt(s, k, p))
         /\ \A i \in 1..Len(s) : /\ i < k => Precedes(InsertAt(s, k, p), s[i], p)
                                 /\ i >= k => Precedes(InsertAt(s, k, p), p, s[i])
<1> DEFINE t == InsertAt(s, k, p)
           n == Len(s)
           to(i) == IF i < k THEN i ELSE i + 1
<1>1. /\ t \in Seq(Points) /\ IsInjective(t) /\ Len(t) = n + 1
      /\ \A i \in 1..n + 1 : t[i] = IF i < k THEN s[i] ELSE IF i = k THEN p ELSE s[i - 1]
  BY PutIn
<1>2. n \in Nat /\ k \in 1..n + 1 BY SeqFacts
<1> HIDE DEF t, n
<1>3. ASSUME NEW i \in 1..n PROVE to(i) \in 1..Len(t) /\ t[to(i)] = s[i]
  <2>1. CASE i < k
    <3>1. i \in 1..n + 1 BY <1>2
    <3>. QED BY <1>1, <1>2, <2>1, <3>1
  <2>2. CASE ~(i < k)
    <3>1. i + 1 \in 1..n + 1 /\ ~(i + 1 < k) /\ i + 1 # k /\ (i + 1) - 1 = i BY <1>2, <2>2
    <3>. QED BY <1>1, <1>2, <2>2, <3>1
  <2>. QED BY <2>1, <2>2
<1>4. SameOrder(s, t)
  <2> SUFFICES ASSUME NEW x \in ToSet(s), NEW y \in ToSet(s)
               PROVE  Precedes(s, x, y) <=> Precedes(t, x, y)
    BY DEF SameOrder
  <2>1. PICK i \in 1..n : x = s[i] BY SeqFacts DEF n
  <2>2. PICK j \in 1..n : y = s[j] BY SeqFacts DEF n
  <2>3. to(i) < to(j) <=> i < j BY <1>2
  <2>4. Precedes(s, x, y) <=> i < j BY <2>1, <2>2, PrecedesFacts DEF n
  <2>5. Precedes(t, x, y) <=> to(i) < to(j)
    <3>1. to(i) \in 1..Len(t) /\ t[to(i)] = x BY <1>3, <2>1
    <3>2. to(j) \in 1..Len(t) /\ t[to(j)] = y BY <1>3, <2>2
    <3> HIDE DEF to
    <3>. QED BY <1>1, <3>1, <3>2, PrecedesFacts
  <2>. QED BY <2>3, <2>4, <2>5
<1>5. ASSUME NEW i \in 1..n
      PROVE  (i < k => Precedes(t, s[i], p)) /\ (i >= k => Precedes(t, p, s[i]))
  <2>1. t[k] = p /\ k \in 1..Len(t) BY <1>1, <1>2
  <2>2. to(i) \in 1..Len(t) /\ t[to(i)] = s[i] BY <1>3
  <2>3. (i < k => to(i) < k) /\ (i >= k => k < to(i)) BY <1>2
  <2> HIDE DEF to
  <2>4. (to(i) < k => Precedes(t, s[i], p)) /\ (k < to(i) => Precedes(t, p, s[i]))
    BY <2>1, <2>2 DEF Precedes
  <2>. QED BY <2>3, <2>4
<1>. QED BY <1>4, <1>5 DEF t, n

(* A point that comes into the list after q is behind q, and before what is
   behind q and no start point. *)
LEMMA PlacedPrecedes ==
  ASSUME NEW l, NEW s, Holds(l, s), NEW p \in InternalPoints, p \notin ToSet(s),
         NEW q \in ToSet(s), q \notin EndPoints
  PROVE  /\ SameOrder(s, PlacedAfter(s, p, q))
         /\ Precedes(PlacedAfter(s, p, q), q, p)
         /\ \A z \in ToSet(s) \ StartPoints :
              Precedes(s, q, z) => Precedes(PlacedAfter(s, p, q), p, z)
<1> DEFINE k == Sequence!Behind(s, q) + 1
           t == InsertAt(s, k, p)
           a == l.starts
           b == l.ends
<1>1. s \in Seq(Points) /\ IsInjective(s) /\ Sectioned(s, a, b) BY DEF Holds, Threads, Bounds
<1>2. /\ Len(s) \in Nat /\ a \in Nat
      /\ \A i \in 1..Len(s) : s[i] \in StartPoints <=> i <= a
  BY <1>1, SeqFacts DEF Sectioned
<1>3. PICK j \in 1..Len(s) : q = s[j] BY <1>1, SeqFacts
<1>4. k = IF q \in StartPoints THEN a + 1 ELSE j + 1 BY <1>1, <1>3, BehindSections
<1>5. k \in 1..Len(s) + 1 BY <1>3, LinkedHolds
<1>6. PlacedAfter(s, p, q) = t
  <2>1. Sequence!RemoveFirst(s, p) = s BY <1>1, RemovedFirst
  <2>. QED BY <2>1 DEF PlacedAfter, Sequence!InsertAt, InsertAt
<1>7. p \in Points BY DEF Points
<1>8. /\ SameOrder(s, t)
      /\ \A i \in 1..Len(s) : /\ i < k => Precedes(t, s[i], p)
                              /\ i >= k => Precedes(t, p, s[i])
  BY <1>1, <1>5, <1>7, InsertionKeepsOrder
<1> HIDE DEF k, t, a, b
<1>9. j < k BY <1>2, <1>3, <1>4
<1>10. ASSUME NEW z \in ToSet(s) \ StartPoints, Precedes(s, q, z) PROVE Precedes(t, p, z)
  <2>1. PICK i \in 1..Len(s) : z = s[i] BY <1>1, SeqFacts
  <2>2. j < i BY <1>1, <1>3, <1>10, <2>1, PrecedesFacts
  <2>3. ~(i <= a) BY <1>2, <1>10, <2>1
  <2>4. i >= k BY <1>2, <1>4, <2>2, <2>3
  <2>. QED BY <1>8, <2>1, <2>4
<1>. QED BY <1>3, <1>6, <1>8, <1>9, <1>10

(* Two sequences of the same points in the same order are the same. *)
LEMMA OneOrder ==
  ASSUME NEW s \in Seq(Points), IsInjective(s), NEW t \in Seq(Points), IsInjective(t),
         ToSet(s) = ToSet(t), SameOrder(s, t)
  PROVE  s = t
<1> DEFINE K == {i \in 1..Len(s) : i > Len(t) \/ s[i] # t[i]}
<1>1. /\ Len(s) \in Nat /\ Len(t) \in Nat
      /\ \A i \in 1..Len(s) : s[i] \in ToSet(s) /\ \E j \in 1..Len(t) : s[i] = t[j]
      /\ \A i \in 1..Len(t) : t[i] \in ToSet(t) /\ \E j \in 1..Len(s) : t[i] = s[j]
      /\ \A i, j \in 1..Len(s) : s[i] = s[j] => i = j
      /\ \A i, j \in 1..Len(t) : t[i] = t[j] => i = j
  <2>1. \A i \in 1..Len(s) : s[i] \in ToSet(s) BY SeqFacts
  <2>2. \A i \in 1..Len(t) : t[i] \in ToSet(t) BY SeqFacts
  <2>3. \A p \in ToSet(s) : \E j \in 1..Len(s) : p = s[j] BY SeqFacts
  <2>4. \A p \in ToSet(t) : \E j \in 1..Len(t) : p = t[j] BY SeqFacts
  <2>. QED BY <2>1, <2>2, <2>3, <2>4, SeqFacts
<1>2. K = {}
  <2> SUFFICES ASSUME K # {} PROVE FALSE OBVIOUS
  <2>1. K \subseteq Nat BY <1>1
  <2>2. PICK i \in K : \A j \in K : i <= j BY <2>1, LeastNumber
  <2>3. i \in 1..Len(s) /\ (i > Len(t) \/ s[i] # t[i]) OBVIOUS
  <2>4. ASSUME NEW j \in 1..Len(s), j < i PROVE j \in 1..Len(t) /\ s[j] = t[j]
    <3>1. j \notin K BY <2>2, <2>3, <2>4
    <3>. QED BY <1>1, <2>4, <3>1
  <2> HIDE DEF K
  <2>5. PICK j \in 1..Len(t) : s[i] = t[j] BY <1>1, <2>3
  <2>6. ~(j < i)
    <3> SUFFICES ASSUME j < i PROVE FALSE OBVIOUS
    <3>1. j \in 1..Len(s) BY <1>1, <2>3
    <3>2. s[j] = s[i] BY <2>4, <2>5, <3>1
    <3>. QED BY <1>1, <2>3, <3>1, <3>2
  <2>7. i \in 1..Len(t) /\ i < j BY <1>1, <2>3, <2>5, <2>6
  <2>8. PICK h \in 1..Len(s) : t[i] = s[h] BY <1>1, <2>7
  <2>9. ~(h < i)
    <3> SUFFICES ASSUME h < i PROVE FALSE OBVIOUS
    <3>1. h \in 1..Len(t) /\ s[h] = t[h] BY <2>4
    <3>. QED BY <1>1, <2>7, <2>8, <3>1
  <2>10. i < h BY <1>1, <2>3, <2>7, <2>8, <2>9
  <2>11. Precedes(s, s[i], s[h]) BY <2>3, <2>10, PrecedesFacts
  <2>12. ~Precedes(t, t[j], t[i])
    <3>1. ~(j < i) /\ i \in 1..Len(t) BY <2>6, <2>7
    <3>. QED BY <3>1, PrecedesFacts
  <2>13. s[i] \in ToSet(s) /\ s[h] \in ToSet(s) BY <1>1, <2>3
  <2>14. Precedes(s, s[i], s[h]) <=> Precedes(t, s[i], s[h]) BY <2>13 DEF SameOrder
  <2>. QED BY <2>5, <2>8, <2>11, <2>12, <2>14
<1>3. \A i \in 1..Len(s) : i \in 1..Len(t) /\ s[i] = t[i] BY <1>1, <1>2
<1>4. Len(s) = Len(t)
  <2>1. Len(s) <= Len(t)
    <3>1. CASE Len(s) = 0 BY <1>1, <3>1
    <3>2. CASE Len(s) # 0
      <4>1. Len(s) \in 1..Len(s) BY <1>1, <3>2
      <4>. QED BY <1>1, <1>3, <4>1
    <3>. QED BY <3>1, <3>2
  <2>2. ~(Len(s) < Len(t))
    <3> SUFFICES ASSUME Len(s) < Len(t) PROVE FALSE OBVIOUS
    <3>1. Len(s) + 1 \in 1..Len(t) BY <1>1
    <3>2. PICK j \in 1..Len(s) : t[Len(s) + 1] = s[j] BY <1>1, <3>1
    <3>3. t[Len(s) + 1] = t[j] /\ j \in 1..Len(t) BY <1>3, <3>2
    <3>4. Len(s) + 1 = j BY <1>1, <3>1, <3>3
    <3>. QED BY <1>1, <3>4
  <2>. QED BY <1>1, <2>1, <2>2
<1>5. s = [i \in 1..Len(s) |-> s[i]] /\ t = [i \in 1..Len(t) |-> t[i]] OBVIOUS
<1>. QED BY <1>3, <1>4, <1>5

(* A sequence has one list. *)
LEMMA OneList ==
  ASSUME NEW l, NEW m, NEW s, Holds(l, s), Holds(m, s)
  PROVE  l = m
<1>1. /\ l \in Lists /\ m \in Lists /\ s \in Seq(Points) /\ IsInjective(s)
      /\ \A i \in 0..Len(s) : l.next[At(s, i)] = At(s, i + 1) /\ m.next[At(s, i)] = At(s, i + 1)
      /\ \A i \in 1..Len(s) + 1 : l.prev[At(s, i)] = At(s, i - 1) /\ m.prev[At(s, i)] = At(s, i - 1)
      /\ \A p \in Points \ ToSet(s) : /\ l.next[p] = Root /\ l.prev[p] = Root
                                      /\ m.next[p] = Root /\ m.prev[p] = Root
      /\ l.first = s[l.starts + 1] /\ l.last = s[Len(s) - l.ends]
      /\ m.first = s[m.starts + 1] /\ m.last = s[Len(s) - m.ends]
  BY DEF Holds, Threads, Bounds
<1>0. /\ Threads(l, s) /\ Sectioned(s, l.starts, l.ends)
      /\ Threads(m, s) /\ Sectioned(s, m.starts, m.ends)
  BY DEF Holds, Bounds
<1>2. RunLength(l.next, StartPoints) = l.starts /\ RunLength(l.prev, EndPoints) = l.ends
  BY <1>0, CountedBounds
<1>3. RunLength(m.next, StartPoints) = m.starts /\ RunLength(m.prev, EndPoints) = m.ends
  BY <1>0, CountedBounds
<1>4. ASSUME NEW p \in Places PROVE l.next[p] = m.next[p] /\ l.prev[p] = m.prev[p]
  <2>1. CASE p \in Points \ ToSet(s) BY <1>1, <2>1
  <2>2. CASE p = Root
    <3>1. p = At(s, 0) /\ p = At(s, Len(s) + 1) /\ 0 \in 0..Len(s) /\ Len(s) + 1 \in 1..Len(s) + 1
      BY <1>1, <2>2, SeqFacts
    <3>. QED BY <1>1, <3>1
  <2>3. CASE p \in ToSet(s)
    <3>1. PICK i \in 1..Len(s) : p = At(s, i) BY <1>1, <2>3, SeqFacts
    <3>2. i \in 0..Len(s) /\ i \in 1..Len(s) + 1 BY <1>1, SeqFacts
    <3>. QED BY <1>1, <3>1, <3>2
  <2>. QED BY <2>1, <2>2, <2>3, PointSets
<1>5. /\ l.next \in [Places -> Places] /\ l.prev \in [Places -> Places]
      /\ m.next \in [Places -> Places] /\ m.prev \in [Places -> Places]
  BY <1>1 DEF Lists
<1>6. l.next = m.next /\ l.prev = m.prev BY <1>4, <1>5
<1>7. l.starts = m.starts /\ l.ends = m.ends BY <1>2, <1>3, <1>6
<1>8. l.first = m.first /\ l.last = m.last BY <1>1, <1>7
<1>9. \A v \in Lists : v = [next |-> v.next, prev |-> v.prev, first |-> v.first,
                             last |-> v.last, starts |-> v.starts, ends |-> v.ends]
  BY DEF Lists
<1>. QED BY <1>1, <1>6, <1>7, <1>8, <1>9

-----------------------------------------------------------------------------
(***************************************************************************)
(* Repeaters: their pins, their trees, and the list without them.          *)
(***************************************************************************)
PinsOf(B) == {In(b) : b \in B} \cup {Out(b) : b \in B}

LEMMA PinFacts ==
  /\ \A b, c : (In(b) = In(c) <=> b = c) /\ (Out(b) = Out(c) <=> b = c) /\ In(b) # Out(c)
  /\ \A b \in Repeaters : /\ In(b) \in InternalPoints /\ In(b) \notin Fixed
                          /\ Out(b) \in InternalPoints /\ Out(b) \notin Fixed
  /\ IsFiniteSet(Repeaters)
<1>1. \A b, c : (In(b) = In(c) <=> b = c) /\ (Out(b) = Out(c) <=> b = c) /\ In(b) # Out(c)
  BY DEF In, Out
<1>2. \A b \in Repeaters : In(b) \in RepeaterPins /\ Out(b) \in RepeaterPins BY DEF RepeaterPins
<1>3. RepeaterPins \subseteq InternalPoints /\ RepeaterPins \cap Fixed = {} BY NetAssumption
<1>4. IsFiniteSet(Repeaters)
  <2> DEFINE f == [b \in Repeaters |-> In(b)]
  <2>1. f \in Injection(Repeaters, InternalPoints)
    BY <1>1, <1>2, <1>3 DEF Injection, IsInjective
  <2>. QED BY <2>1, FS_Injection, PointsAssumption
<1>. QED BY <1>1, <1>2, <1>3, <1>4

LEMMA ListingOfSet ==
  ASSUME NEW S, IsFiniteSet(S)
  PROVE  SetToSeq(S) \in Seq(S) /\ IsInjective(SetToSeq(S)) /\ ToSet(SetToSeq(S)) = S
<1> DEFINE n == Cardinality(S)
           bs == SetToSeq(S)
<1>1. n \in Nat /\ ExistsBijection(1..n, S) BY FS_CardinalityType
<1>2. PICK f \in Bijection(1..n, S) : TRUE BY <1>1 DEF ExistsBijection
<1>3. f \in [1..n -> S] /\ IsInjective(f) BY <1>2 DEF Bijection, Injection
<1>4. bs \in [1..n -> S] /\ IsInjective(bs) BY <1>3 DEF SetToSeq
<1> HIDE DEF n, bs
<1>5. bs \in Injection(1..n, S) BY <1>4 DEF Injection
<1>6. IsFiniteSet(1..n) /\ Cardinality(1..n) = Cardinality(S) BY <1>1, IntervalSize DEF n
<1>7. bs \in Surjection(1..n, S) BY <1>5, <1>6, FS_Injection
<1>8. bs \in Seq(S) BY <1>1, <1>4
<1>. QED BY <1>4, <1>7, <1>8 DEF Surjection, ToSet, bs

(* What is left of the list of s without the pins of some repeaters. *)
LeftOf(l, s, B) ==
  \E t : Holds(l, t) /\ ToSet(t) = ToSet(s) \ PinsOf(B) /\ SameOrder(s, t)

LEMMA PointRemoved ==
  ASSUME NEW l, NEW s, Holds(l, s), Fixed \subseteq ToSet(s), NEW p \in ToSet(s), p \notin Fixed
  PROVE  \E t : /\ Holds(Deleted(l, p), t) /\ ToSet(t) = ToSet(s) \ {p} /\ SameOrder(s, t)
<1>1. s \in Seq(Points) /\ IsInjective(s) BY DEF Holds, Threads
<1>2. PICK k \in 1..Len(s) : p = s[k] BY <1>1, SeqFacts
<1>3. Sequence!RemoveFirst(s, p) = RemoveAt(s, k) BY <1>1, <1>2, RemovedFirst
<1>4. SameOrder(s, RemoveAt(s, k)) BY <1>1, RemovalKeepsOrder
<1>. QED BY <1>3, <1>4, DeletedFollows

LEMMA RepeaterRemoved ==
  ASSUME NEW l, NEW s, NEW B, B \subseteq Repeaters, LeftOf(l, s, B), Fixed \subseteq ToSet(s),
         NEW b \in Repeaters \ B, In(b) \in ToSet(s), Out(b) \in ToSet(s)
  PROVE  LeftOf(WithoutRepeater(l, b), s, B \cup {b})
<1>1. PICK t : Holds(l, t) /\ ToSet(t) = ToSet(s) \ PinsOf(B) /\ SameOrder(s, t) BY DEF LeftOf
<1>2. /\ In(b) \notin Fixed /\ Out(b) \notin Fixed /\ In(b) # Out(b)
      /\ In(b) \notin PinsOf(B) /\ Out(b) \notin PinsOf(B) /\ PinsOf(B) \cap Fixed = {}
  BY PinFacts DEF PinsOf
<1>3. PinsOf(B \cup {b}) = PinsOf(B) \cup {In(b), Out(b)} BY DEF PinsOf
<1>4. Fixed \subseteq ToSet(t) /\ In(b) \in ToSet(t) /\ Out(b) \in ToSet(t) BY <1>1, <1>2
<1>5. PICK u : /\ Holds(Deleted(l, In(b)), u) /\ ToSet(u) = ToSet(t) \ {In(b)}
               /\ SameOrder(t, u)
  BY <1>1, <1>2, <1>4, PointRemoved
<1>6. Fixed \subseteq ToSet(u) /\ Out(b) \in ToSet(u) BY <1>2, <1>4, <1>5
<1>7. PICK v : /\ Holds(Deleted(Deleted(l, In(b)), Out(b)), v) /\ ToSet(v) = ToSet(u) \ {Out(b)}
               /\ SameOrder(u, v)
  BY <1>2, <1>5, <1>6, PointRemoved
<1>8. ToSet(v) = ToSet(s) \ PinsOf(B \cup {b}) BY <1>1, <1>3, <1>5, <1>7
<1>9. SameOrder(s, v) BY <1>1, <1>5, <1>7 DEF SameOrder
<1>. QED BY <1>7, <1>8, <1>9 DEF LeftOf, WithoutRepeater

LEMMA DeletedInLists ==
  ASSUME NEW l \in Lists, NEW p \in InternalPoints
  PROVE  Deleted(l, p) \in Lists
<1> DEFINE before == l.prev[p]
           after == l.next[p]
           next == [l.next EXCEPT ![before] = after, ![p] = Root]
           prev == [l.prev EXCEPT ![after] = before, ![p] = Root]
           f == IF l.first = p THEN after ELSE l.first
           g == IF l.last = p THEN before ELSE l.last
<1>1. p \in Places /\ Root \in Places BY PointSets DEF Points
<1>2. /\ before \in Places /\ after \in Places
      /\ l.next \in [Places -> Places] /\ l.prev \in [Places -> Places]
      /\ f \in Places /\ g \in Places
  BY <1>1 DEF Lists
<1>3. next \in [Places -> Places] /\ prev \in [Places -> Places] BY <1>1, <1>2
<1>4. Deleted(l, p) = [[l EXCEPT !.prev = prev, !.next = next] EXCEPT !.first = f, !.last = g]
  BY DEF Deleted, Lists
<1> HIDE DEF next, prev, f, g
<1>. QED BY <1>2, <1>3, <1>4 DEF Lists

LEMMA WithoutFollows ==
  ASSUME NEW s, Holds(list, s), Fixed \subseteq ToSet(s),
         NEW B, B \subseteq Repeaters, PinsOf(B) \subseteq ToSet(s)
  PROVE  LeftOf(Without(SetToSeq(B)), s, B)
<1> DEFINE bs == SetToSeq(B)
           N == Len(bs)
<1>1. bs \in Seq(B) /\ IsInjective(bs) /\ ToSet(bs) = B
  <2>1. IsFiniteSet(B) BY PinFacts, FS_Subset
  <2>. QED BY <2>1, ListingOfSet
<1> HIDE DEF bs
<1>2. /\ N \in Nat /\ DOMAIN bs = 1..N
      /\ \A i \in 1..N : bs[i] \in Repeaters
      /\ \A i, j \in 1..N : bs[i] = bs[j] => i = j
  BY <1>1 DEF IsInjective
<1> HIDE DEF N
<1> DEFINE F == [n \in Nat |-> [l \in Lists |-> IF n \in 1..N THEN WithoutRepeater(l, bs[n]) ELSE l]]
           left == CHOOSE f : f = [n \in 0..N |-> IF n = 0 THEN list ELSE WithoutRepeater(f[n - 1], bs[n])]
<1>3. list \in Lists BY DEF Holds, Threads
<1>4. F \in [Nat -> [Lists -> Lists]]
  <2>1. ASSUME NEW l \in Lists, NEW b \in Repeaters PROVE WithoutRepeater(l, b) \in Lists
    BY PinFacts, DeletedInLists DEF WithoutRepeater
  <2>. QED BY <1>2, <2>1
<1> HIDE DEF F
<1>5. PICK f : Iterates(f, list, F, Lists) BY <1>3, <1>4, RecursionExists
<1>6. left = [n \in 0..N |-> IF n = 0 THEN list ELSE WithoutRepeater(left[n - 1], bs[n])]
  <2> DEFINE g == [n \in 0..N |-> f[n]]
  <2>1. g = [n \in 0..N |-> IF n = 0 THEN list ELSE WithoutRepeater(g[n - 1], bs[n])]
    <3>1. f \in [Nat -> Lists] /\ f[0] = list BY <1>5 DEF Iterates
    <3>2. ASSUME NEW n \in 1..N PROVE f[n] = WithoutRepeater(f[n - 1], bs[n]) /\ n - 1 \in 0..N
      <4>1. n \in Nat \ {0} /\ n - 1 \in Nat /\ n - 1 \in 0..N BY <1>2
      <4>2. f[n] = F[n][f[n - 1]] BY <1>5, <4>1 DEF Iterates
      <4>3. f[n - 1] \in Lists BY <3>1, <4>1
      <4>. QED BY <4>1, <4>2, <4>3 DEF F
    <3>3. \A n \in 0..N : n = 0 \/ n \in 1..N BY <1>2
    <3>4. \A n \in 0..N : f[n] = IF n = 0 THEN list ELSE WithoutRepeater(g[n - 1], bs[n])
      BY <3>1, <3>2, <3>3
    <3>. QED BY <3>4
  <2>. QED BY <2>1
<1> HIDE DEF left
<1>7. left[0] = list /\ \A n \in 1..N : left[n] = WithoutRepeater(left[n - 1], bs[n])
  BY <1>2, <1>6
<1>8. Without(bs) = left[N] BY DEF Without, left, N
<1> DEFINE First(n) == {bs[i] : i \in 1..n}
           K == {n \in 0..N : LeftOf(left[n], s, First(n))}
<1>9. 0 \in K
  <2>1. First(0) = {} /\ PinsOf({}) = {} BY DEF PinsOf
  <2>2. LeftOf(list, s, {}) BY <2>1 DEF LeftOf, SameOrder
  <2> HIDE DEF First
  <2>3. LeftOf(left[0], s, First(0)) BY <1>7, <2>1, <2>2
  <2>. QED BY <1>2, <2>3
<1>10. ASSUME NEW n \in 0..N, n \in K, n + 1 \in 0..N PROVE n + 1 \in K
  <2>1. n + 1 \in 1..N /\ (n + 1) - 1 = n /\ \A i \in 1..n : i \in 1..N /\ i # n + 1
    BY <1>2, <1>10
  <2>2. First(n + 1) = First(n) \cup {bs[n + 1]}
    <3>1. 1..(n + 1) = 1..n \cup {n + 1} BY <2>1
    <3>. QED BY <3>1
  <2>3. bs[n + 1] \in Repeaters \ First(n) /\ First(n) \subseteq Repeaters BY <1>2, <2>1
  <2>4. In(bs[n + 1]) \in ToSet(s) /\ Out(bs[n + 1]) \in ToSet(s)
    <3>1. bs[n + 1] \in B BY <1>1, <1>2, <2>1 DEF ToSet
    <3>. QED BY <3>1 DEF PinsOf
  <2>5. left[n + 1] = WithoutRepeater(left[n], bs[n + 1]) BY <1>7, <2>1
  <2>6. LeftOf(left[n], s, First(n)) BY <1>10
  <2> HIDE DEF First
  <2>7. LeftOf(left[n + 1], s, First(n + 1)) BY <2>2, <2>3, <2>4, <2>5, <2>6, RepeaterRemoved
  <2>. QED BY <1>10, <2>7
<1> HIDE DEF K
<1>11. N \in K
  <2>1. 0..N \subseteq K BY <1>2, <1>9, <1>10, Climb
  <2>. QED BY <1>2, <2>1
<1>12. First(N) = B BY <1>1, <1>2 DEF ToSet
<1>. QED BY <1>8, <1>11, <1>12 DEF K, bs

(* Whatever holds the repeaters at p and those behind its own has the tree. *)
LEMMA TreeWithin ==
  ASSUME NEW p, NEW Q, Q \subseteq Used,
         \A b \in Used : source[In(b)] = p => b \in Q,
         \A b \in Used, c \in Q : source[In(b)] = Out(c) => b \in Q
  PROVE  RepeatersBehind(p) \subseteq Q
<1> DEFINE Further(B) == {b \in Used : \/ source[In(b)] = p
                                       \/ \E c \in B : source[In(b)] = Out(c)}
           F == [n \in Nat |-> [B \in SUBSET Used |-> Further(B)]]
           behind == CHOOSE f : f = [n \in Nat |-> IF n = 0 THEN {} ELSE Further(f[n - 1])]
           N == Cardinality(Repeaters)
<1>1. N \in Nat BY PinFacts, FS_CardinalityType
<1>2. F \in [Nat -> [SUBSET Used -> SUBSET Used]] OBVIOUS
<1>3. RepeatersBehind(p) = behind[N] BY DEF RepeatersBehind
<1> HIDE DEF F, N
<1>4. PICK f : Iterates(f, {}, F, SUBSET Used)
  <2>1. {} \in SUBSET Used OBVIOUS
  <2>. QED BY <1>2, <2>1, RecursionExists
<1>5. f = [n \in Nat |-> IF n = 0 THEN {} ELSE Further(f[n - 1])]
  <2>1. f \in [Nat -> SUBSET Used] /\ f[0] = {} BY <1>4 DEF Iterates
  <2>2. ASSUME NEW n \in Nat \ {0} PROVE f[n] = Further(f[n - 1])
    <3>1. n - 1 \in Nat OBVIOUS
    <3>2. f[n] = F[n][f[n - 1]] BY <1>4 DEF Iterates
    <3>3. f[n - 1] \in SUBSET Used BY <2>1, <3>1
    <3>. QED BY <3>2, <3>3 DEF F
  <2> HIDE DEF Further
  <2>. QED BY <2>1, <2>2
<1>6. behind = [n \in Nat |-> IF n = 0 THEN {} ELSE Further(behind[n - 1])] BY <1>5
<1> HIDE DEF behind
<1> DEFINE K == {n \in 0..N : behind[n] \subseteq Q}
<1>7. 0 \in K BY <1>1, <1>6
<1>8. ASSUME NEW n \in 0..N, n \in K, n + 1 \in 0..N PROVE n + 1 \in K
  <2>1. n + 1 \in Nat /\ n + 1 # 0 /\ (n + 1) - 1 = n OBVIOUS
  <2>2. behind[n + 1] = Further(behind[n]) BY <1>6, <2>1
  <2>3. behind[n] \subseteq Q BY <1>8
  <2>. QED BY <1>8, <2>2, <2>3
<1> HIDE DEF K
<1>9. 0..N \subseteq K BY <1>1, <1>7, <1>8, Climb
<1>. QED BY <1>1, <1>3, <1>9 DEF K

-----------------------------------------------------------------------------
(***************************************************************************)
(* The invariant of the repeaters: the list holds the pins of the design   *)
(* and those of the repeaters in use, the pins of the design in the order  *)
(* they had, and what drives a point before it; and however a net was      *)
(* split, every sink still hangs on the source its net began at.           *)
(***************************************************************************)
UsedIn(src) == {b \in Repeaters : In(b) \in DOMAIN src}
ArcsOf(src) == CellArcs \cup {<<In(b), Out(b)>> : b \in UsedIn(src)}
                 \cup {<<src[z], z>> : z \in DOMAIN src}

OrderOf(s, src) ==
  /\ ToSet(s) = Fixed \cup PinsOf(UsedIn(src))
  /\ SameOrder(InitialOrder, s)
  /\ \A a \in ArcsOf(src) : Precedes(s, a[1], a[2])

NetsOf(src, net) ==
  /\ src \in [DOMAIN src -> (Fixed \ EndPoints) \cup {Out(b) : b \in UsedIn(src)}]
  /\ DOMAIN src = DOMAIN NetSource \cup {In(b) : b \in UsedIn(src)}
  /\ net \in [DOMAIN src -> Fixed \ EndPoints]
  /\ \A z \in DOMAIN NetSource : net[z] = NetSource[z]
  /\ \A z \in DOMAIN src : src[z] \in Fixed => net[z] = src[z]
  /\ \A z \in DOMAIN src, b \in UsedIn(src) : src[z] = Out(b) => net[z] = net[In(b)]

RepeaterInv ==
  /\ ListInv
  /\ OrderOf(Order, source)
  /\ \E net : NetsOf(source, net)

LEMMA UsedArcs == Used = UsedIn(source) /\ Arcs = ArcsOf(source)
BY DEF Used, UsedIn, Arcs, ArcsOf

LEMMA RepeaterInit == RInit => RepeaterInv
<1> SUFFICES ASSUME RInit PROVE RepeaterInv OBVIOUS
<1>1. ListInv /\ Order = InitialOrder /\ source = NetSource BY ListInit DEF RInit
<1>2. UsedIn(source) = {}
  <2>1. \A b \in Repeaters : In(b) \notin DOMAIN NetSource BY PinFacts, NetAssumption
  <2>. QED BY <1>1, <2>1 DEF UsedIn
<1>3. OrderOf(Order, source)
  <2>1. ToSet(Order) = Fixed \cup PinsOf(UsedIn(source))
    BY <1>1, <1>2, NetAssumption DEF PinsOf
  <2>2. SameOrder(InitialOrder, Order) BY <1>1 DEF SameOrder
  <2>3. ASSUME NEW a \in ArcsOf(source) PROVE Precedes(Order, a[1], a[2])
    <3>1. a \in CellArcs \cup {<<NetSource[z], z>> : z \in DOMAIN NetSource}
      BY <1>1, <1>2 DEF ArcsOf
    <3>2. PICK i, j \in DOMAIN InitialOrder :
            i < j /\ InitialOrder[i] = a[1] /\ InitialOrder[j] = a[2]
      BY <3>1, NetAssumption
    <3>3. DOMAIN InitialOrder = 1..Len(InitialOrder) BY OrderAssumption
    <3>. QED BY <1>1, <3>2, <3>3 DEF Precedes
  <2>. QED BY <2>1, <2>2, <2>3 DEF OrderOf
<1>4. NetsOf(source, NetSource) BY <1>1, <1>2, NetAssumption DEF NetsOf
<1>. QED BY <1>1, <1>3, <1>4 DEF RepeaterInv

(* What the invariant says of sources and sinks. *)
LEMMA NetEnds ==
  ASSUME RepeaterInv
  PROVE  /\ \A z \in DOMAIN source : z \in ToSet(Order) /\ z \notin StartPoints
         /\ \A z \in DOMAIN source : source[z] \in ToSet(Order) /\ source[z] \notin EndPoints
         /\ \A b \in Used : In(b) \in ToSet(Order) /\ Out(b) \in ToSet(Order)
         /\ \A b \in Repeaters \ Used : In(b) \notin ToSet(Order) /\ Out(b) \notin ToSet(Order)
<1>1. PICK net : NetsOf(source, net) BY DEF RepeaterInv
<1>2. ToSet(Order) = Fixed \cup PinsOf(Used) BY UsedArcs DEF RepeaterInv, OrderOf
<1>3. /\ \A z \in DOMAIN source : source[z] \in (Fixed \ EndPoints) \cup {Out(b) : b \in Used}
      /\ DOMAIN source = DOMAIN NetSource \cup {In(b) : b \in Used}
  BY <1>1, UsedArcs DEF NetsOf
<1>4. \A b \in Used : In(b) \in ToSet(Order) /\ Out(b) \in ToSet(Order) BY <1>2 DEF PinsOf
<1>5. \A b \in Repeaters \ Used : In(b) \notin ToSet(Order) /\ Out(b) \notin ToSet(Order)
  BY <1>2, PinFacts DEF PinsOf
<1>6. \A b \in Repeaters : In(b) \notin StartPoints /\ Out(b) \notin EndPoints
  BY PinFacts, PointsAssumption
<1>7. Used \subseteq Repeaters BY DEF Used
<1>8. DOMAIN NetSource \subseteq Fixed \ StartPoints BY NetAssumption
<1>9. \A z \in DOMAIN source : z \in ToSet(Order) /\ z \notin StartPoints
  BY <1>2, <1>3, <1>4, <1>6, <1>7, <1>8
<1>10. \A z \in DOMAIN source : source[z] \in ToSet(Order) /\ source[z] \notin EndPoints
  BY <1>2, <1>3, <1>4, <1>6, <1>7
<1>. QED BY <1>4, <1>5, <1>9, <1>10

LEMMA InsertRepeaterStep ==
  ASSUME RepeaterInv, NEW b \in Repeaters, NEW p \in Points, NEW behind \in SUBSET SinksOf(p),
         InsertRepeater(b, p, behind)
  PROVE  RepeaterInv'
<1> DEFINE s == Order
           t1 == PlacedAfter(s, In(b), p)
           t == PlacedAfter(t1, Out(b), In(b))
           l1 == Inserted(list, In(b), p)
           src == [z \in DOMAIN source \cup {In(b)} |->
                     IF z = In(b) THEN p ELSE IF z \in behind THEN Out(b) ELSE source[z]]
<1>1. /\ b \notin Used /\ behind # {}
      /\ list' = Inserted(l1, Out(b), In(b)) /\ source' = src
  BY DEF InsertRepeater, WithRepeater
<1>2. /\ Holds(list, s) /\ Fixed \subseteq ToSet(s) /\ OrderOf(s, source)
  BY DEF RepeaterInv, ListInv
<1>3. PICK net : NetsOf(source, net) BY DEF RepeaterInv
<1>4. PICK z0 \in behind : z0 \in DOMAIN source /\ source[z0] = p BY <1>1 DEF SinksOf
<1>5. p \in ToSet(s) /\ p \notin EndPoints BY <1>4, NetEnds
<1>6. /\ In(b) \notin ToSet(s) /\ Out(b) \notin ToSet(s)
      /\ In(b) # Out(b) /\ In(b) \in InternalPoints /\ Out(b) \in InternalPoints
      /\ In(b) \notin Fixed /\ Out(b) \notin Fixed /\ In(b) \notin EndPoints
      /\ In(b) \notin StartPoints
  BY <1>1, NetEnds, PinFacts, PointsAssumption
<1> HIDE DEF s
<1>7. Holds(l1, t1) /\ ToSet(t1) = ToSet(s) \cup {In(b)}
  BY <1>2, <1>5, <1>6, InsertedFollows
<1>8. /\ SameOrder(s, t1) /\ Precedes(t1, p, In(b))
      /\ \A z \in ToSet(s) \ StartPoints : Precedes(s, p, z) => Precedes(t1, In(b), z)
  BY <1>2, <1>5, <1>6, PlacedPrecedes
<1> HIDE DEF t1, l1
<1>9. Fixed \subseteq ToSet(t1) /\ In(b) \in ToSet(t1) /\ Out(b) \notin ToSet(t1)
  BY <1>2, <1>6, <1>7
<1>10. Holds(list', t) /\ ToSet(t) = ToSet(t1) \cup {Out(b)}
  BY <1>1, <1>6, <1>7, <1>9, InsertedFollows
<1>11. /\ SameOrder(t1, t) /\ Precedes(t, In(b), Out(b))
       /\ \A z \in ToSet(t1) \ StartPoints : Precedes(t1, In(b), z) => Precedes(t, Out(b), z)
  BY <1>6, <1>7, <1>9, PlacedPrecedes
<1> HIDE DEF t
<1>12. Order' = t BY <1>10, HoldsOrder, OrderIsOrderIn
<1>13. ListInv' BY <1>9, <1>10, <1>12 DEF ListInv
<1>14. SameOrder(s, t) BY <1>7, <1>8, <1>10, <1>11 DEF SameOrder
<1>15. /\ DOMAIN src = DOMAIN source \cup {In(b)} /\ src[In(b)] = p
       /\ \A z \in DOMAIN source : src[z] = IF z \in behind THEN Out(b) ELSE source[z]
  <2>1. In(b) \notin DOMAIN source BY <1>1 DEF Used
  <2>. QED BY <2>1
<1>16. UsedIn(src) = Used \cup {b} BY <1>15, PinFacts DEF UsedIn, Used
<1> HIDE DEF src
<1>17. \A z \in behind : z \in DOMAIN source /\ source[z] = p BY DEF SinksOf
<1>18. ASSUME NEW x, NEW y, Precedes(s, x, y) PROVE Precedes(t, x, y)
  <2>1. x \in ToSet(s) /\ y \in ToSet(s) BY <1>2, <1>18, PrecedesFacts DEF Holds, Threads
  <2>. QED BY <1>7, <1>10, <1>14, <1>18, <2>1 DEF SameOrder
<1>19. ASSUME NEW a \in ArcsOf(src) PROVE Precedes(t, a[1], a[2])
  <2>1. CASE a \in ArcsOf(source)
    <3>1. Precedes(s, a[1], a[2]) BY <1>2, <2>1 DEF OrderOf
    <3>. QED BY <1>18, <3>1
  <2>2. CASE a = <<In(b), Out(b)>> BY <1>11, <2>2
  <2>3. CASE a = <<p, In(b)>>
    <3>1. p \in ToSet(t1) /\ In(b) \in ToSet(t1) BY <1>5, <1>7
    <3>2. Precedes(t, p, In(b)) BY <1>8, <1>10, <1>11, <3>1 DEF SameOrder
    <3>. QED BY <2>3, <3>2
  <2>4. ASSUME NEW z \in behind, a = <<Out(b), z>> PROVE Precedes(t, a[1], a[2])
    <3>1. z \in DOMAIN source /\ source[z] = p BY <1>17
    <3>2. z \in ToSet(s) \ StartPoints BY <3>1, NetEnds DEF s
    <3>3. <<p, z>> \in ArcsOf(source) BY <3>1 DEF ArcsOf
    <3>4. Precedes(s, p, z) BY <1>2, <3>3 DEF OrderOf
    <3>5. Precedes(t1, In(b), z) BY <1>8, <3>2, <3>4
    <3>6. Precedes(t, Out(b), z) BY <1>7, <1>11, <3>2, <3>5
    <3>. QED BY <2>4, <3>6
  <2>5. \/ a \in ArcsOf(source) \/ a = <<In(b), Out(b)>> \/ a = <<p, In(b)>>
        \/ \E z \in behind : a = <<Out(b), z>>
    <3>1. CASE a \in CellArcs BY <3>1 DEF ArcsOf
    <3>2. CASE a \in {<<In(c), Out(c)>> : c \in UsedIn(src)} BY <1>16, <3>2, UsedArcs DEF ArcsOf
    <3>3. ASSUME NEW z \in DOMAIN src, a = <<src[z], z>>
          PROVE  a \in ArcsOf(source) \/ a = <<p, In(b)>> \/ \E y \in behind : a = <<Out(b), y>>
      <4>1. CASE z = In(b) BY <1>15, <3>3, <4>1
      <4>2. CASE z \in behind BY <1>15, <1>17, <3>3, <4>2
      <4>3. CASE z \in DOMAIN source /\ z \notin behind BY <1>15, <3>3, <4>3 DEF ArcsOf
      <4>. QED BY <1>15, <4>1, <4>2, <4>3
    <3>. QED BY <3>1, <3>2, <3>3 DEF ArcsOf
  <2>. QED BY <2>1, <2>2, <2>3, <2>4, <2>5
<1>20. OrderOf(t, src)
  <2>1. ToSet(t) = Fixed \cup PinsOf(UsedIn(src))
    <3>1. ToSet(s) = Fixed \cup PinsOf(Used) BY <1>2, UsedArcs DEF OrderOf
    <3>2. PinsOf(Used \cup {b}) = PinsOf(Used) \cup {In(b), Out(b)} BY DEF PinsOf
    <3>. QED BY <1>7, <1>10, <1>16, <3>1, <3>2
  <2>2. SameOrder(InitialOrder, t)
    <3>1. ToSet(InitialOrder) \subseteq ToSet(s) BY <1>2, NetAssumption DEF OrderOf
    <3>2. ToSet(s) \subseteq ToSet(t) BY <1>7, <1>10
    <3>3. SameOrder(InitialOrder, s) BY <1>2 DEF OrderOf
    <3>. QED BY <1>14, <3>1, <3>2, <3>3 DEF SameOrder
  <2>. QED BY <1>19, <2>1, <2>2 DEF OrderOf
<1>21. \E m : NetsOf(src, m)
  <2> DEFINE m == [z \in DOMAIN src |-> IF z = In(b) THEN net[z0] ELSE net[z]]
  <2>1. /\ source \in [DOMAIN source -> (Fixed \ EndPoints) \cup {Out(c) : c \in Used}]
        /\ DOMAIN source = DOMAIN NetSource \cup {In(c) : c \in Used}
        /\ net \in [DOMAIN source -> Fixed \ EndPoints]
        /\ \A z \in DOMAIN NetSource : net[z] = NetSource[z]
        /\ \A z \in DOMAIN source : source[z] \in Fixed => net[z] = source[z]
        /\ \A z \in DOMAIN source, c \in Used : source[z] = Out(c) => net[z] = net[In(c)]
    BY <1>3, UsedArcs DEF NetsOf
  <2>2. In(b) \notin DOMAIN source BY <1>1 DEF Used
  <2>3. /\ m \in [DOMAIN src -> Fixed \ EndPoints] /\ m[In(b)] = net[z0]
        /\ \A z \in DOMAIN source : m[z] = net[z]
    BY <1>4, <1>15, <2>1, <2>2
  <2>4. p \in (Fixed \ EndPoints) \cup {Out(c) : c \in Used} BY <1>4, <2>1
  <2>5. src \in [DOMAIN src -> (Fixed \ EndPoints) \cup {Out(c) : c \in UsedIn(src)}]
    <3>1. \A z \in DOMAIN src : src[z] \in (Fixed \ EndPoints) \cup {Out(c) : c \in UsedIn(src)}
      BY <1>15, <1>16, <2>1, <2>4
    <3>2. src = [z \in DOMAIN src |-> src[z]] BY DEF src
    <3>. QED BY <3>1, <3>2
  <2>6. DOMAIN src = DOMAIN NetSource \cup {In(c) : c \in UsedIn(src)}
    BY <1>15, <1>16, <2>1
  <2> HIDE DEF m
  <2>7. \A z \in behind : net[z] = net[z0]
    <3>1. CASE p \in Fixed BY <1>4, <1>17, <2>1, <3>1
    <3>2. ASSUME NEW c \in Used, p = Out(c) PROVE \A z \in behind : net[z] = net[z0]
      BY <1>4, <1>17, <2>1, <3>2
    <3>. QED BY <2>4, <3>1, <3>2
  <2>8. ASSUME NEW z \in DOMAIN src, src[z] \in Fixed PROVE m[z] = src[z]
    <3>1. CASE z = In(b) BY <1>4, <1>15, <2>1, <2>3, <2>8, <3>1
    <3>2. CASE z \in DOMAIN source
      <4>1. z \notin behind BY <1>6, <1>15, <2>8, <3>2
      <4>. QED BY <1>15, <2>1, <2>3, <2>8, <3>2, <4>1
    <3>. QED BY <1>15, <3>1, <3>2
  <2>9. ASSUME NEW z \in DOMAIN src, NEW c \in UsedIn(src), src[z] = Out(c)
        PROVE  m[z] = m[In(c)]
    <3>0. Out(c) # p \/ c \in Used
      <4>1. \A x \in Repeaters : Out(x) \notin Fixed BY PinFacts
      <4>2. c \in Repeaters /\ Used \subseteq Repeaters BY DEF UsedIn, Used
      <4>. QED BY <2>4, <4>1, <4>2, PinFacts
    <3>1. CASE z = In(b)
      <4>1. p = Out(c) /\ c \in Used BY <1>15, <2>9, <3>0, <3>1
      <4>2. net[z0] = net[In(c)] BY <1>4, <2>1, <4>1
      <4>3. In(c) \in DOMAIN source BY <4>1 DEF Used
      <4>. QED BY <2>3, <3>1, <4>2, <4>3
    <3>2. CASE z \in behind
      <4>1. c = b BY <1>15, <1>17, <2>9, <3>2, PinFacts
      <4>. QED BY <1>17, <2>3, <2>7, <3>2, <4>1
    <3>3. CASE z \in DOMAIN source /\ z \notin behind
      <4>1. source[z] = Out(c) BY <1>15, <2>9, <3>3
      <4>2. c \in Used
        <5>1. source[z] \in ToSet(s) BY <3>3, NetEnds DEF s
        <5>2. c # b BY <1>6, <4>1, <5>1
        <5>. QED BY <1>16, <5>2
      <4>3. In(c) \in DOMAIN source BY <4>2 DEF Used
      <4>. QED BY <2>1, <2>3, <3>3, <4>1, <4>2, <4>3
    <3>. QED BY <1>15, <3>1, <3>2, <3>3
  <2>10. \A z \in DOMAIN NetSource : m[z] = NetSource[z] BY <2>1, <2>3
  <2>11. NetsOf(src, m) BY <2>3, <2>5, <2>6, <2>8, <2>9, <2>10 DEF NetsOf
  <2>. QED BY <2>11
<1>. QED BY <1>1, <1>12, <1>13, <1>20, <1>21 DEF RepeaterInv

LEMMA RestoreStep ==
  ASSUME RepeaterInv, NEW p \in Fixed, RestoreBufferedNet(p)
  PROVE  RepeaterInv'
<1> DEFINE s == Order
           RB == RepeatersBehind(p)
           src == [z \in DOMAIN source \ {In(b) : b \in RB} |->
                     IF source[z] \in {Out(b) : b \in RB} THEN p ELSE source[z]]
<1>1. RB # {} /\ list' = Without(SetToSeq(RB)) /\ source' = src
  BY DEF RestoreBufferedNet, Restored, Rejoined
<1>2. /\ Holds(list, s) /\ Fixed \subseteq ToSet(s) /\ s \in Seq(Points) /\ IsInjective(s)
      /\ ToSet(s) = Fixed \cup PinsOf(Used) /\ SameOrder(InitialOrder, s)
      /\ \A a \in Arcs : Precedes(s, a[1], a[2])
  BY UsedArcs DEF RepeaterInv, ListInv, OrderOf, Holds, Threads
<1>3. PICK net : NetsOf(source, net) BY DEF RepeaterInv
<1>4. /\ source \in [DOMAIN source -> (Fixed \ EndPoints) \cup {Out(c) : c \in Used}]
      /\ DOMAIN source = DOMAIN NetSource \cup {In(c) : c \in Used}
      /\ net \in [DOMAIN source -> Fixed \ EndPoints]
      /\ \A z \in DOMAIN NetSource : net[z] = NetSource[z]
      /\ \A z \in DOMAIN source : source[z] \in Fixed => net[z] = source[z]
      /\ \A z \in DOMAIN source, c \in Used : source[z] = Out(c) => net[z] = net[In(c)]
  BY <1>3, UsedArcs DEF NetsOf
<1>5. /\ \A z \in DOMAIN source : Precedes(s, source[z], z)
      /\ \A c \in Used : Precedes(s, In(c), Out(c))
  <2>1. \A z \in DOMAIN source : <<source[z], z>> \in Arcs BY DEF Arcs
  <2>2. \A c \in Used : <<In(c), Out(c)>> \in Arcs BY DEF Arcs
  <2>. QED BY <1>2, <2>1, <2>2
<1>6. \A b \in Used : b \in Repeaters /\ In(b) \in DOMAIN source BY DEF Used
<1> HIDE DEF s, RB
<1>7. \A x, y, z : Precedes(s, x, y) /\ Precedes(s, y, z) => Precedes(s, x, z)
  BY <1>2, PrecedesFacts
<1>8. RB \subseteq {b \in Used : Precedes(s, p, In(b)) /\ net[In(b)] = p}
  <2> DEFINE Q == {b \in Used : Precedes(s, p, In(b)) /\ net[In(b)] = p}
  <2>1. ASSUME NEW b \in Used, source[In(b)] = p PROVE b \in Q
    BY <1>4, <1>5, <1>6, <2>1
  <2>2. ASSUME NEW b \in Used, NEW c \in Q, source[In(b)] = Out(c) PROVE b \in Q
    <3>1. Precedes(s, p, In(c)) /\ Precedes(s, In(c), Out(c)) /\ Precedes(s, Out(c), In(b))
      BY <1>5, <1>6, <2>2
    <3>2. Precedes(s, p, In(b)) BY <1>7, <3>1
    <3>3. net[In(b)] = net[In(c)] BY <1>4, <1>6, <2>2
    <3>. QED BY <3>2, <3>3
  <2>3. Q \subseteq Used OBVIOUS
  <2> HIDE DEF Q
  <2>4. RB \subseteq Q BY <2>1, <2>2, <2>3, TreeWithin DEF RB
  <2>. QED BY <2>4 DEF Q
<1>9. p \notin EndPoints BY <1>1, <1>4, <1>6, <1>8
<1>10. RB \subseteq Repeaters /\ RB \subseteq Used /\ PinsOf(RB) \subseteq ToSet(s)
  BY <1>2, <1>6, <1>8 DEF PinsOf
<1>11. LeftOf(list', s, RB) BY <1>1, <1>2, <1>10, WithoutFollows
<1>12. PICK t : Holds(list', t) /\ ToSet(t) = ToSet(s) \ PinsOf(RB) /\ SameOrder(s, t)
  BY <1>11 DEF LeftOf
<1>13. Order' = t BY <1>12, HoldsOrder, OrderIsOrderIn
<1>14. Fixed \cap PinsOf(RB) = {} BY <1>10, PinFacts DEF PinsOf
<1>15. ListInv' BY <1>2, <1>12, <1>13, <1>14 DEF ListInv
<1>16. /\ DOMAIN src = DOMAIN source \ {In(b) : b \in RB}
       /\ \A z \in DOMAIN src : src[z] = IF source[z] \in {Out(b) : b \in RB} THEN p ELSE source[z]
  OBVIOUS
<1>17. UsedIn(src) = Used \ RB BY <1>16, PinFacts DEF UsedIn, Used
<1>18. src = [z \in DOMAIN src |-> src[z]] OBVIOUS
<1> HIDE DEF src
<1>19. PinsOf(Used \ RB) = PinsOf(Used) \ PinsOf(RB) BY PinFacts DEF PinsOf
<1>20. ToSet(t) = Fixed \cup PinsOf(UsedIn(src)) BY <1>2, <1>12, <1>14, <1>17, <1>19
<1>21. ASSUME NEW x \in ToSet(t), NEW y \in ToSet(t), Precedes(s, x, y) PROVE Precedes(t, x, y)
  BY <1>12, <1>21 DEF SameOrder
<1>22. /\ DOMAIN src = DOMAIN NetSource \cup {In(c) : c \in UsedIn(src)}
       /\ \A z \in DOMAIN src : z \in ToSet(t)
  <2>1. DOMAIN NetSource \subseteq Fixed BY NetAssumption
  <2>2. \A b \in RB : In(b) \notin DOMAIN NetSource BY <1>10, <2>1, PinFacts
  <2>3. DOMAIN src = DOMAIN NetSource \cup {In(c) : c \in UsedIn(src)}
    BY <1>4, <1>16, <1>17, <2>2, PinFacts
  <2>. QED BY <1>20, <2>1, <2>3 DEF PinsOf
<1>23. \A z \in DOMAIN src : src[z] \in (Fixed \ EndPoints) \cup {Out(c) : c \in UsedIn(src)}
  BY <1>4, <1>9, <1>16, <1>17
<1>24. ASSUME NEW a \in ArcsOf(src) PROVE Precedes(t, a[1], a[2])
  <2>1. CASE a \in CellArcs
    <3>1. a[1] \in Fixed /\ a[2] \in Fixed BY <2>1, NetAssumption
    <3>2. Precedes(s, a[1], a[2]) BY <1>2, <2>1 DEF Arcs
    <3>. QED BY <1>20, <1>21, <3>1, <3>2
  <2>2. ASSUME NEW c \in UsedIn(src), a = <<In(c), Out(c)>> PROVE Precedes(t, a[1], a[2])
    <3>1. In(c) \in ToSet(t) /\ Out(c) \in ToSet(t) BY <1>20 DEF PinsOf
    <3>2. Precedes(s, In(c), Out(c)) BY <1>5, <1>17
    <3>3. Precedes(t, In(c), Out(c)) BY <1>21, <3>1, <3>2
    <3>. QED BY <2>2, <3>3
  <2>3. ASSUME NEW z \in DOMAIN src, a = <<src[z], z>> PROVE Precedes(t, a[1], a[2])
    <3>1. z \in ToSet(t) /\ z \in DOMAIN source BY <1>16, <1>22
    <3>2. src[z] \in ToSet(t) BY <1>20, <1>23 DEF PinsOf
    <3>3. Precedes(s, src[z], z)
      <4>1. CASE source[z] \in {Out(b) : b \in RB}
        <5>1. PICK b \in RB : source[z] = Out(b) BY <4>1
        <5>2. Precedes(s, p, In(b)) /\ Precedes(s, In(b), Out(b)) /\ Precedes(s, Out(b), z)
          BY <1>5, <1>8, <3>1, <5>1
        <5>. QED BY <1>7, <1>16, <4>1, <5>2
      <4>2. CASE source[z] \notin {Out(b) : b \in RB} BY <1>5, <1>16, <3>1, <4>2
      <4>. QED BY <4>1, <4>2
    <3>4. Precedes(t, src[z], z) BY <1>21, <3>1, <3>2, <3>3
    <3>. QED BY <2>3, <3>4
  <2>. QED BY <2>1, <2>2, <2>3 DEF ArcsOf
<1>25. SameOrder(InitialOrder, t)
  <2>1. ToSet(InitialOrder) \subseteq ToSet(t) /\ ToSet(InitialOrder) \subseteq ToSet(s)
    BY <1>2, <1>20, NetAssumption
  <2>. QED BY <1>2, <1>12, <2>1 DEF SameOrder
<1>26. OrderOf(t, src) BY <1>20, <1>24, <1>25 DEF OrderOf
<1>27. \E m : NetsOf(src, m)
  <2> DEFINE m == [z \in DOMAIN src |-> net[z]]
  <2>1. m \in [DOMAIN src -> Fixed \ EndPoints] /\ \A z \in DOMAIN src : m[z] = net[z]
    BY <1>4, <1>16
  <2> HIDE DEF m
  <2>2. src \in [DOMAIN src -> (Fixed \ EndPoints) \cup {Out(c) : c \in UsedIn(src)}]
    BY <1>18, <1>23
  <2>3. \A z \in DOMAIN NetSource : m[z] = NetSource[z] BY <1>4, <1>22, <2>1
  <2>4. ASSUME NEW z \in DOMAIN src, src[z] \in Fixed PROVE m[z] = src[z]
    <3>1. CASE source[z] \in {Out(b) : b \in RB}
      <4>1. PICK b \in RB : source[z] = Out(b) BY <3>1
      <4>2. net[z] = net[In(b)] /\ net[In(b)] = p BY <1>4, <1>8, <1>16, <4>1
      <4>. QED BY <1>16, <2>1, <3>1, <4>2
    <3>2. CASE source[z] \notin {Out(b) : b \in RB} BY <1>4, <1>16, <2>1, <2>4, <3>2
    <3>. QED BY <3>1, <3>2
  <2>5. ASSUME NEW z \in DOMAIN src, NEW c \in UsedIn(src), src[z] = Out(c)
        PROVE  m[z] = m[In(c)]
    <3>1. c \in Used /\ c \in Repeaters /\ In(c) \in DOMAIN src BY <1>6, <1>17 DEF UsedIn
    <3>2. src[z] # p BY <2>5, <3>1, PinFacts
    <3>3. source[z] = Out(c) BY <1>16, <2>5, <3>2
    <3>4. net[z] = net[In(c)] BY <1>4, <1>16, <3>1, <3>3
    <3>. QED BY <2>1, <3>1, <3>4
  <2>6. NetsOf(src, m) BY <1>22, <2>1, <2>2, <2>3, <2>4, <2>5 DEF NetsOf
  <2>. QED BY <2>6
<1>. QED BY <1>1, <1>13, <1>15, <1>26, <1>27 DEF RepeaterInv

LEMMA RepeaterStep == RepeaterInv /\ [RNext]_rvars => RepeaterInv'
<1> SUFFICES ASSUME RepeaterInv, [RNext]_rvars PROVE RepeaterInv' OBVIOUS
<1>1. ASSUME NEW b \in Repeaters, NEW p \in Points, NEW behind \in SUBSET SinksOf(p),
             InsertRepeater(b, p, behind)
      PROVE  RepeaterInv'
  BY <1>1, InsertRepeaterStep
<1>2. ASSUME NEW p \in Fixed, RestoreBufferedNet(p) PROVE RepeaterInv'
  BY <1>2, RestoreStep
<1>3. CASE UNCHANGED rvars
  <2>1. list' = list /\ source' = source BY <1>3 DEF rvars
  <2>2. Order' = Order BY <2>1, OrderIsOrderIn
  <2>. QED BY <2>1, <2>2 DEF RepeaterInv, ListInv
<1>. QED BY <1>1, <1>2, <1>3 DEF RNext

(* Timing analysis reads the list and the nets, and leaves them alone. *)
LEMMA TimingLeavesNets == [SNext]_svars => [RNext]_rvars
BY DEF SNext, STA, PropagateArrivals, ArrivalsDone, PropagateRequires, Edit, svars

LEMMA RepeaterInvHolds == SSpec => []RepeaterInv
<1>1. SInit => RepeaterInv BY RepeaterInit DEF SInit
<1>2. RepeaterInv /\ [SNext]_svars => RepeaterInv' BY RepeaterStep, TimingLeavesNets
<1>. QED BY <1>1, <1>2, PTL DEF SSpec

LEMMA RepeaterInvDrives == RepeaterInv => DriversComeFirst
<1> SUFFICES ASSUME RepeaterInv, NEW a \in Arcs PROVE Index(a[1]) # 0 /\ Index(a[1]) < Index(a[2])
  BY DEF DriversComeFirst
<1>1. Order \in Seq(Points) /\ IsInjective(Order) BY DEF RepeaterInv, ListInv, Holds, Threads
<1>2. Precedes(Order, a[1], a[2]) BY UsedArcs DEF RepeaterInv, OrderOf
<1>3. PICK i, j \in 1..Len(Order) : i < j /\ Order[i] = a[1] /\ Order[j] = a[2]
  BY <1>2 DEF Precedes
<1>4. Index(Order[i]) = i /\ Index(Order[j]) = j
  <2>1. SelectInSeq(Order, LAMBDA v : v = Order[i]) = i BY <1>1, Found
  <2>2. SelectInSeq(Order, LAMBDA v : v = Order[j]) = j BY <1>1, Found
  <2>. QED BY <2>1, <2>2 DEF Index
<1>5. Index(a[1]) = i /\ Index(a[2]) = j BY <1>3, <1>4
<1>. QED BY <1>3, <1>5

LEMMA RepeaterInvUndoes == RepeaterInv => RestoringUndoesBuffering
<1> SUFFICES ASSUME RepeaterInv PROVE RestoringUndoesBuffering OBVIOUS
<1>1. /\ Holds(list, Order) /\ Order \in Seq(Points) /\ IsInjective(Order)
      /\ ToSet(Order) = Fixed \cup PinsOf(Used) /\ SameOrder(InitialOrder, Order)
  BY UsedArcs DEF RepeaterInv, ListInv, OrderOf, Holds, Threads
<1>2. {Order[i] : i \in DOMAIN Order}
        = Fixed \cup {In(b) : b \in Used} \cup {Out(b) : b \in Used}
  BY <1>1 DEF ToSet, PinsOf
<1>3. ASSUME Used = {} PROVE list = ListOf(InitialOrder) /\ source = NetSource
  <2>1. ToSet(InitialOrder) = ToSet(Order) BY <1>1, <1>3, NetAssumption DEF PinsOf
  <2>2. InitialOrder \in Seq(Points) /\ IsInjective(InitialOrder) BY OrderAssumption
  <2>3. InitialOrder = Order BY <1>1, <2>1, <2>2, OneOrder
  <2>4. list = ListOf(InitialOrder) BY <1>1, <2>3, InitialHolds, OneList
  <2>5. PICK net : NetsOf(source, net) BY DEF RepeaterInv
  <2>6. /\ source \in [DOMAIN source -> Fixed \ EndPoints]
        /\ DOMAIN source = DOMAIN NetSource
        /\ \A z \in DOMAIN source : source[z] = NetSource[z]
    BY <1>3, <2>5, UsedArcs DEF NetsOf
  <2>7. source = NetSource BY <2>6, NetAssumption
  <2>. QED BY <2>4, <2>7
<1>. QED BY <1>2, <1>3 DEF RestoringUndoesBuffering

(***************************************************************************)
(* However often nets are split by repeaters and put together again, in    *)
(* the list every driver comes before what it drives, so that one pass     *)
(* over the list propagates all delays: a repeater is placed right after   *)
(* the source of its net (VanGinneken2.cpp:430-435), and the sinks that    *)
(* RestoreBufferedNet gives back come after that source.                   *)
(***************************************************************************)
THEOREM DriversStayFirst == SSpec => []DriversComeFirst
BY RepeaterInvHolds, RepeaterInvDrives, PTL

(***************************************************************************)
(* The list holds the pins of the design and of the repeaters in use, and  *)
(* when no repeater is left, the links, the boundaries and the nets are    *)
(* those from before buffering, in whatever order the repeaters came and   *)
(* the nets were restored (NetUtils.cpp:258-294).                          *)
(***************************************************************************)
THEOREM RestoringUndoes == SSpec => []RestoringUndoesBuffering
BY RepeaterInvHolds, RepeaterInvUndoes, PTL

(***************************************************************************)
(* What VerifyTimingCalculationOrder demands (TimingUtils.cpp:326-463)     *)
(* holds while buffering and timing analysis take turns.                   *)
(***************************************************************************)
THEOREM TimedListIsRight == SSpec => [](RingCloses /\ BoundariesRight)
<1>1. RepeaterInv => RingCloses /\ BoundariesRight
  BY ListInvCloses, ListInvBounds DEF RepeaterInv
<1>. QED BY <1>1, RepeaterInvHolds, PTL

-----------------------------------------------------------------------------
(***************************************************************************)
(* Delays, and how far they can add up.                                    *)
(***************************************************************************)
Longest == CHOOSE longest \in 0..DBL_MAX : DelaysWithin(longest)
Reach(k) == k * Longest

(* What a time can be at the point at place k: never reached, or not further
   from zero than k delays. *)
Within(t, k) == t \in Int /\ (t = -DBL_MAX \/ (-Reach(k) <= t /\ t <= Reach(k)))

LEMMA ReachFacts ==
  /\ Longest \in Nat /\ DBL_MAX \in Nat /\ DelaysWithin(Longest)
  /\ \A k \in Nat : Reach(k) \in Nat /\ Reach(k + 1) = Reach(k) + Longest
  /\ \A j, k \in Nat : j <= k => Reach(j) <= Reach(k)
  /\ \A k \in 0..Cardinality(Points) : Reach(k) + Longest < DBL_MAX
<1>1. Longest \in 0..DBL_MAX /\ DelaysWithin(Longest) BY DelaysAssumption DEF Longest
<1>2. DBL_MAX \in Nat BY TimingAssumption
<1>3. Longest \in Nat BY <1>1, <1>2
<1> HIDE DEF Longest
<1>4. \A k \in Nat : k * Longest \in Nat BY <1>3
<1>5. \A k \in Nat : (k + 1) * Longest = k * Longest + Longest BY <1>3
<1>6. ASSUME NEW j \in Nat, NEW k \in Nat, j <= k PROVE j * Longest <= k * Longest
  <2>1. k - j \in Nat BY <1>6
  <2>2. k = j + (k - j) OBVIOUS
  <2>3. k * Longest = j * Longest + (k - j) * Longest BY <1>3
  <2>4. (k - j) * Longest \in Nat BY <1>4, <2>1
  <2>. QED BY <1>3, <1>4, <2>3, <2>4
<1>7. ASSUME NEW k \in 0..Cardinality(Points) PROVE k * Longest + Longest < DBL_MAX
  <2>1. Cardinality(Points) \in Nat /\ k \in Nat BY PointSets
  <2>2. Longest * (Cardinality(Points) + 1) < DBL_MAX BY <1>1 DEF DelaysWithin
  <2>3. Longest * (Cardinality(Points) + 1) = (Cardinality(Points) + 1) * Longest BY <1>3, <2>1
  <2>4. (k + 1) * Longest <= (Cardinality(Points) + 1) * Longest BY <1>6, <2>1
  <2>5. (k + 1) * Longest = k * Longest + Longest BY <1>5, <2>1
  <2>6. (k + 1) * Longest \in Nat /\ (Cardinality(Points) + 1) * Longest \in Nat BY <1>4, <2>1
  <2>. QED BY <1>2, <1>3, <2>2, <2>3, <2>4, <2>5, <2>6
<1>. QED BY <1>1, <1>2, <1>3, <1>4, <1>5, <1>6, <1>7 DEF Reach

LEMMA AfterFacts ==
  ASSUME NEW k \in 0..Cardinality(Points), NEW t, Within(t, k), NEW delay \in -Longest..Longest
  PROVE  /\ Within(After(t, delay), k + 1) /\ -DBL_MAX <= After(t, delay)
         /\ After(t, delay) = -DBL_MAX <=> t = -DBL_MAX
         /\ t # -DBL_MAX => After(t, delay) = t + delay
         /\ \A u : Within(u, k) /\ t <= u => After(t, delay) <= After(u, delay)
<1>1. /\ Longest \in Nat /\ DBL_MAX \in Nat /\ Reach(k) \in Nat
      /\ Reach(k) + Longest < DBL_MAX /\ Reach(k + 1) = Reach(k) + Longest
  BY ReachFacts, PointSets
<1>2. delay \in Int /\ -Longest <= delay /\ delay <= Longest BY <1>1
<1> HIDE DEF Longest, Reach
<1>3. ASSUME NEW u, Within(u, k)
      PROVE  /\ u \in Int
             /\ u = -DBL_MAX => After(u, delay) = -DBL_MAX
             /\ u # -DBL_MAX => /\ After(u, delay) = u + delay
                                /\ -Reach(k) <= u /\ u <= Reach(k)
  BY <1>1, <1>2, <1>3 DEF Within, After
<1>4. \A u : Within(u, k) /\ t <= u => After(t, delay) <= After(u, delay) BY <1>1, <1>2, <1>3
<1>5. /\ After(t, delay) = -DBL_MAX <=> t = -DBL_MAX
      /\ -DBL_MAX <= After(t, delay)
  BY <1>1, <1>2, <1>3
<1>6. Within(After(t, delay), k + 1)
  <2>1. CASE t = -DBL_MAX BY <1>1, <1>3, <2>1 DEF Within
  <2>2. CASE t # -DBL_MAX
    <3>1. After(t, delay) = t + delay /\ -Reach(k) <= t /\ t <= Reach(k) /\ t \in Int BY <1>3, <2>2
    <3>2. -Reach(k + 1) <= t + delay /\ t + delay <= Reach(k + 1) BY <1>1, <1>2, <3>1
    <3>. QED BY <1>2, <3>1, <3>2 DEF Within
  <2>. QED BY <2>1, <2>2
<1>. QED BY <1>3, <1>4, <1>5, <1>6

-----------------------------------------------------------------------------
(***************************************************************************)
(* The arcs of a netlist whose sinks hang on src, with wire delays w.      *)
(***************************************************************************)
PassesOf(src, a, c, d) ==
  IF a[2] \in DOMAIN src THEN c = d
  ELSE CASE Sense(a) = "positive" -> c = d
         [] Sense(a) = "negative" -> c # d
         [] Sense(a) = "non"      -> TRUE

TakesOf(src, w, a, d) == IF a[2] \in DOMAIN src THEN w[a[2]][d] ELSE Delay(a, d)

StartOf(p, d) == IF p \in StartPoints THEN StartTimes[p][d] ELSE -DBL_MAX
EndOf(p, d)   == IF p \in EndPoints THEN EndTimes[p][d] ELSE DBL_MAX

Wires(src) == [DOMAIN src -> {ShortWire, LongWire}]

(* A list, nets and wires as an analysis finds them. *)
Nets(s, src) ==
  /\ s \in Seq(Points) /\ IsInjective(s)
  /\ \A a \in ArcsOf(src) : Precedes(s, a[1], a[2]) /\ a[1] \notin EndPoints /\ a[2] \notin StartPoints
  /\ \A a \in ArcsOf(src) : a = <<a[1], a[2]>>
  /\ \A a \in ArcsOf(src) : IF a[2] \in DOMAIN src THEN a[1] = src[a[2]]
                            ELSE a \in CellArcs \cup {<<In(b), Out(b)>> : b \in UsedIn(src)}
  /\ \A a \in CellArcs \cup {<<In(b), Out(b)>> : b \in UsedIn(src)} : a[2] \notin DOMAIN src

LEMMA ParametersAreRight ==
  /\ Used = UsedIn(source) /\ Arcs = ArcsOf(source)
  /\ \A a, c, d : Passes(a, c, d) = PassesOf(source, a, c, d)
  /\ \A a, d : Takes(a, d) = TakesOf(source, wire, a, d)
BY UsedArcs DEF Passes, PassesOf, Takes, TakesOf, IsSink

LEMMA NetsAreRight ==
  ASSUME RepeaterInv
  PROVE  Nets(Order, source)
<1>1. Order \in Seq(Points) /\ IsInjective(Order) BY DEF RepeaterInv, ListInv, Holds, Threads
<1>2. /\ DOMAIN source = DOMAIN NetSource \cup {In(b) : b \in UsedIn(source)}
      /\ \A z \in DOMAIN source : source[z] \notin EndPoints /\ z \notin StartPoints
  BY NetEnds DEF RepeaterInv, NetsOf
<1>3. \A b \in UsedIn(source) : /\ Out(b) \notin DOMAIN source
                                /\ In(b) \notin EndPoints /\ Out(b) \notin StartPoints
  <2>1. UsedIn(source) \subseteq Repeaters BY DEF UsedIn
  <2>. QED BY <1>2, <2>1, PinFacts, NetAssumption, PointsAssumption
<1>4. \A a \in CellArcs : /\ a = <<a[1], a[2]>> /\ a[2] \notin DOMAIN source
                          /\ a[1] \notin EndPoints /\ a[2] \notin StartPoints
  <2>1. \A b \in UsedIn(source) : In(b) \notin Fixed BY PinFacts DEF UsedIn
  <2>2. CellArcs \subseteq Fixed \X Fixed BY NetAssumption
  <2>. QED BY <1>2, <2>1, <2>2, ArcsAssumption
<1>5. \A a \in ArcsOf(source) : Precedes(Order, a[1], a[2]) BY DEF RepeaterInv, OrderOf
<1>6. \A a \in ArcsOf(source) : /\ a = <<a[1], a[2]>>
                                /\ a[1] \notin EndPoints /\ a[2] \notin StartPoints
  BY <1>2, <1>3, <1>4 DEF ArcsOf
<1>7. \A a \in CellArcs \cup {<<In(b), Out(b)>> : b \in UsedIn(source)} : a[2] \notin DOMAIN source
  BY <1>3, <1>4
<1>8. \A a \in ArcsOf(source) :
        IF a[2] \in DOMAIN source THEN a[1] = source[a[2]]
        ELSE a \in CellArcs \cup {<<In(b), Out(b)>> : b \in UsedIn(source)}
  BY <1>7 DEF ArcsOf
<1>. QED BY <1>1, <1>5, <1>6, <1>7, <1>8 DEF Nets

LEMMA DelayBounds ==
  /\ \A t \in {RepeaterDelay, ShortWire, LongWire}, d \in Dirs : t[d] \in -Longest..Longest
  /\ \A a \in CellArcs, d \in Dirs : CellDelay[a][d] \in -Longest..Longest
  /\ \A p \in StartPoints, d \in Dirs : StartTimes[p][d] \in -Longest..Longest
  /\ \A p \in EndPoints, d \in Dirs : EndTimes[p][d] \in -Longest..Longest
<1>1. \A t \in Range(CellDelay) \cup Range(StartTimes) \cup Range(EndTimes)
              \cup {RepeaterDelay, ShortWire, LongWire}, d \in Dirs : t[d] \in -Longest .. Longest
  BY ReachFacts DEF DelaysWithin
<1>2. \A a \in CellArcs : CellDelay[a] \in Range(CellDelay) BY TimingAssumption DEF Range
<1>3. \A p \in StartPoints : StartTimes[p] \in Range(StartTimes) BY TimingAssumption DEF Range
<1>4. \A p \in EndPoints : EndTimes[p] \in Range(EndTimes) BY TimingAssumption DEF Range
<1>. QED BY <1>1, <1>2, <1>3, <1>4

LEMMA TakesBounds ==
  ASSUME NEW src, NEW w \in Wires(src), NEW a, NEW d \in Dirs
  PROVE  TakesOf(src, w, a, d) \in -Longest..Longest
BY DelayBounds DEF TakesOf, Wires, Delay

-----------------------------------------------------------------------------
(***************************************************************************)
(* Forwards: t is the latest time at which a signal arrives at p, when the *)
(* points before p have the times arr.                                     *)
(***************************************************************************)
TimeMaps == [Points -> [Dirs -> Int]]

IsLatest(src, w, arr, p, d, t) ==
  /\ StartOf(p, d) <= t
  /\ \A a \in ArcsOf(src), c \in Dirs :
       a[2] = p /\ PassesOf(src, a, c, d) => After(arr[a[1]][c], TakesOf(src, w, a, d)) <= t
  /\ \/ t = StartOf(p, d)
     \/ \E a \in ArcsOf(src), c \in Dirs :
          a[2] = p /\ PassesOf(src, a, c, d) /\ t = After(arr[a[1]][c], TakesOf(src, w, a, d))

(* The pass has come to place k of s. *)
ForwardTo(s, src, w, arr, k) ==
  /\ arr \in TimeMaps
  /\ \A i \in 1..Len(s), d \in Dirs :
       i < k => IsLatest(src, w, arr, s[i], d, arr[s[i]][d]) /\ Within(arr[s[i]][d], i)
  /\ \A i \in 1..Len(s), d \in Dirs : i >= k => arr[s[i]][d] = -DBL_MAX

(* Where a signal comes from, or goes to, by the ancestor of a point. *)
SignalAt(a, d) == IF a.inversed THEN Other(d) ELSE d

AncestorMaps == [Points -> [Dirs -> Ancestors]]

(* Ancestor a is where the time t of p comes from; at an end of all ways there is none. *)
IsAncestor(src, w, arr, p, d, t, a) ==
  /\ a.point = Root => t = StartOf(p, d)
  /\ a.point # Root =>
       /\ <<a.point, p>> \in ArcsOf(src) /\ PassesOf(src, <<a.point, p>>, SignalAt(a, d), d)
       /\ t = After(arr[a.point][SignalAt(a, d)], TakesOf(src, w, <<a.point, p>>, d))

AncestorsTo(s, src, w, arr, anc, k) ==
  /\ anc \in AncestorMaps
  /\ \A i \in 1..Len(s), d \in Dirs :
       i < k => IsAncestor(src, w, arr, s[i], d, arr[s[i]][d], anc[s[i]][d])
  /\ \A i \in 1..Len(s), d \in Dirs : i >= k => anc[s[i]][d] = None

LEMMA SignalFacts ==
  ASSUME NEW a \in Ancestors, NEW d \in Dirs
  PROVE  a.point \in Places /\ a.inversed \in BOOLEAN /\ SignalAt(a, d) \in Dirs
BY DEF Ancestors, SignalAt, Other, Dirs

LEMMA ArcPlaces ==
  ASSUME NEW s, NEW src, Nets(s, src), NEW a \in ArcsOf(src)
  PROVE  \E i, j \in 1..Len(s) : i < j /\ a[1] = s[i] /\ a[2] = s[j]
BY DEF Nets, Precedes

LEMMA WithinFacts ==
  /\ \A j, k \in Nat : \A t : j <= k /\ Within(t, j) => Within(t, k)
  /\ \A k \in Nat : Within(-DBL_MAX, k)
  /\ \A k \in Nat \ {0}, t \in -Longest..Longest : Within(t, k)
<1>1. /\ Longest \in Nat /\ DBL_MAX \in Nat /\ \A k \in Nat : Reach(k) \in Nat
      /\ \A j, k \in Nat : j <= k => Reach(j) <= Reach(k)
  BY ReachFacts
<1>2. Reach(0 + 1) = Reach(0) + Longest BY ReachFacts
<1>3. ASSUME NEW k \in Nat \ {0} PROVE Longest <= Reach(k)
  <2>1. Reach(1) <= Reach(k) /\ Reach(1) >= Longest BY <1>1, <1>2
  <2>. QED BY <1>1, <2>1
<1> HIDE DEF Longest, Reach
<1>4. \A k \in Nat \ {0}, t \in -Longest..Longest : Within(t, k) BY <1>1, <1>3 DEF Within
<1>5. \A k \in Nat : Within(-DBL_MAX, k) BY <1>1 DEF Within
<1>6. ASSUME NEW j \in Nat, NEW k \in Nat, NEW t, j <= k, Within(t, j) PROVE Within(t, k)
  <2>1. Reach(j) <= Reach(k) /\ Reach(j) \in Nat /\ Reach(k) \in Nat BY <1>1, <1>6
  <2>. QED BY <1>6, <2>1 DEF Within
<1>. QED BY <1>4, <1>5, <1>6

LEMMA ForwardStep ==
  ASSUME NEW s, NEW src, Nets(s, src), NEW w \in Wires(src),
         NEW k \in 1..Len(s), s[k] \notin StartPoints,
         NEW arr, ForwardTo(s, src, w, arr, k),
         NEW new \in TimeMaps, \A p \in Points : p # s[k] => new[p] = arr[p],
         \A d \in Dirs : IsLatest(src, w, arr, s[k], d, new[s[k]][d])
  PROVE  ForwardTo(s, src, w, new, k + 1)
<1>1. s \in Seq(Points) /\ IsInjective(s) BY DEF Nets
<1>2. /\ Len(s) \in Nat /\ Len(s) <= Cardinality(Points) /\ Cardinality(Points) \in Nat
      /\ \A i \in 1..Len(s) : s[i] \in Points
      /\ \A i, j \in 1..Len(s) : s[i] = s[j] => i = j
  BY <1>1, SeqFacts, PointSets
<1>3. ASSUME NEW i \in 1..Len(s), i <= k, NEW d \in Dirs, NEW t,
             IsLatest(src, w, arr, s[i], d, t)
      PROVE  IsLatest(src, w, new, s[i], d, t)
  <2>1. ASSUME NEW a \in ArcsOf(src), a[2] = s[i] PROVE new[a[1]] = arr[a[1]]
    <3>1. PICK h, j \in 1..Len(s) : h < j /\ a[1] = s[h] /\ a[2] = s[j] BY ArcPlaces
    <3>2. j = i BY <1>2, <2>1, <3>1
    <3>3. h # k BY <1>2, <1>3, <3>1, <3>2
    <3>. QED BY <1>2, <3>1, <3>3
  <2>. QED BY <1>3, <2>1 DEF IsLatest
<1>4. ASSUME NEW d \in Dirs PROVE Within(new[s[k]][d], k)
  <2>1. CASE new[s[k]][d] = StartOf(s[k], d)
    <3>1. k \in Nat BY <1>2
    <3>. QED BY <2>1, <3>1, WithinFacts DEF StartOf
  <2>2. ASSUME NEW a \in ArcsOf(src), NEW c \in Dirs,
               a[2] = s[k], new[s[k]][d] = After(arr[a[1]][c], TakesOf(src, w, a, d))
        PROVE  Within(new[s[k]][d], k)
    <3>1. PICK h, j \in 1..Len(s) : h < j /\ a[1] = s[h] /\ a[2] = s[j] BY ArcPlaces
    <3>0. j = k BY <1>2, <2>2, <3>1
    <3>2. h < k /\ h \in 0..Cardinality(Points) /\ h + 1 \in Nat /\ h + 1 <= k /\ k \in Nat
      BY <1>2, <3>0, <3>1
    <3>3. Within(arr[s[h]][c], h) BY <3>2 DEF ForwardTo
    <3>4. TakesOf(src, w, a, d) \in -Longest..Longest BY TakesBounds
    <3>5. Within(new[s[k]][d], h + 1) BY <2>2, <3>1, <3>2, <3>3, <3>4, AfterFacts
    <3>. QED BY <3>2, <3>5, WithinFacts
  <2>. QED BY <2>1, <2>2 DEF IsLatest
<1>5. ASSUME NEW i \in 1..Len(s), NEW d \in Dirs, i < k + 1
      PROVE  IsLatest(src, w, new, s[i], d, new[s[i]][d]) /\ Within(new[s[i]][d], i)
  <2>1. CASE i = k BY <1>2, <1>3, <1>4, <2>1
  <2>2. CASE i # k
    <3>1. i < k /\ i <= k /\ new[s[i]] = arr[s[i]] BY <1>2, <1>5, <2>2
    <3>2. IsLatest(src, w, arr, s[i], d, arr[s[i]][d]) /\ Within(arr[s[i]][d], i)
      BY <3>1 DEF ForwardTo
    <3>. QED BY <1>3, <3>1, <3>2
  <2>. QED BY <2>1, <2>2
<1>6. \A i \in 1..Len(s), d \in Dirs : i >= k + 1 => new[s[i]][d] = -DBL_MAX
  BY <1>2 DEF ForwardTo
<1>. QED BY <1>5, <1>6 DEF ForwardTo

LEMMA AncestorStep ==
  ASSUME NEW s, NEW src, Nets(s, src), NEW w, NEW k \in 1..Len(s),
         NEW arr, NEW anc, AncestorsTo(s, src, w, arr, anc, k),
         NEW new, \A p \in Points : p # s[k] => new[p] = arr[p],
         NEW newAnc \in AncestorMaps, \A p \in Points : p # s[k] => newAnc[p] = anc[p],
         \A d \in Dirs : IsAncestor(src, w, arr, s[k], d, new[s[k]][d], newAnc[s[k]][d])
  PROVE  AncestorsTo(s, src, w, new, newAnc, k + 1)
<1>1. s \in Seq(Points) /\ IsInjective(s) BY DEF Nets
<1>2. /\ Len(s) \in Nat
      /\ \A i \in 1..Len(s) : s[i] \in Points
      /\ \A i, j \in 1..Len(s) : s[i] = s[j] => i = j
  BY <1>1, SeqFacts
<1>3. ASSUME NEW i \in 1..Len(s), i <= k, NEW d \in Dirs, NEW t, NEW a,
             IsAncestor(src, w, arr, s[i], d, t, a)
      PROVE  IsAncestor(src, w, new, s[i], d, t, a)
  <2>1. ASSUME a.point # Root PROVE new[a.point] = arr[a.point]
    <3>1. <<a.point, s[i]>> \in ArcsOf(src) BY <1>3, <2>1 DEF IsAncestor
    <3>2. PICK h, j \in 1..Len(s) : h < j /\ a.point = s[h] /\ s[i] = s[j] BY <3>1, ArcPlaces
    <3>3. j = i BY <1>2, <3>2
    <3>4. h # k BY <1>2, <1>3, <3>2, <3>3
    <3>. QED BY <1>2, <3>2, <3>4
  <2>. QED BY <1>3, <2>1 DEF IsAncestor
<1>4. ASSUME NEW i \in 1..Len(s), NEW d \in Dirs, i < k + 1
      PROVE  IsAncestor(src, w, new, s[i], d, new[s[i]][d], newAnc[s[i]][d])
  <2>1. CASE i = k BY <1>2, <1>3, <2>1
  <2>2. CASE i # k
    <3>1. i < k /\ i <= k /\ new[s[i]] = arr[s[i]] /\ newAnc[s[i]] = anc[s[i]] BY <1>2, <1>4, <2>2
    <3>2. IsAncestor(src, w, arr, s[i], d, arr[s[i]][d], anc[s[i]][d]) BY <3>1 DEF AncestorsTo
    <3>. QED BY <1>3, <3>1, <3>2
  <2>. QED BY <2>1, <2>2
<1>5. ASSUME NEW i \in 1..Len(s), NEW d \in Dirs, i >= k + 1 PROVE newAnc[s[i]][d] = None
  <2>1. i # k /\ i >= k BY <1>2, <1>5
  <2>. QED BY <1>2, <2>1 DEF AncestorsTo
<1>. QED BY <1>4, <1>5 DEF AncestorsTo

(* The code's choice between the signals at the input of a cell. *)
LEMMA ThroughFacts ==
  ASSUME NEW src, NEW a, a[2] \notin DOMAIN src, NEW time \in [Dirs -> Int], NEW d \in Dirs,
         Sense(a) \in {"positive", "negative", "non"}
  PROVE  /\ \E c \in Dirs : PassesOf(src, a, c, d) /\ Through(a, time, d) = time[c]
                             /\ c = IF Inversed(a, time, d) THEN Other(d) ELSE d
         /\ \A c \in Dirs : PassesOf(src, a, c, d) => time[c] <= Through(a, time, d)
<1>1. /\ Other(d) \in Dirs /\ Other(d) # d /\ \A c \in Dirs : c = d \/ c = Other(d)
  BY DEF Other, Dirs
<1>2. \A c \in Dirs : PassesOf(src, a, c, d) <=> \/ Sense(a) = "positive" /\ c = d
                                                 \/ Sense(a) = "negative" /\ c # d
                                                 \/ Sense(a) = "non"
  BY DEF PassesOf
<1>3. time[d] \in Int /\ time[Other(d)] \in Int BY <1>1
<1>4. CASE Inversed(a, time, d)
  <2>1. Through(a, time, d) = time[Other(d)] BY <1>4 DEF Through
  <2>2. Sense(a) = "negative" \/ (Sense(a) = "non" /\ time[Other(d)] > time[d])
    BY <1>4 DEF Inversed
  <2>3. PassesOf(src, a, Other(d), d) BY <1>1, <1>2, <2>2
  <2>4. \A c \in Dirs : PassesOf(src, a, c, d) => time[c] <= time[Other(d)]
    BY <1>1, <1>2, <1>3, <2>2
  <2>. QED BY <1>1, <1>4, <2>1, <2>3, <2>4
<1>5. CASE ~Inversed(a, time, d)
  <2>1. Through(a, time, d) = time[d] BY <1>5 DEF Through
  <2>2. Sense(a) = "positive" \/ (Sense(a) = "non" /\ ~(time[Other(d)] > time[d]))
    BY <1>5 DEF Inversed
  <2>3. PassesOf(src, a, d, d) BY <1>2, <2>2
  <2>4. \A c \in Dirs : PassesOf(src, a, c, d) => time[c] <= time[d]
    BY <1>1, <1>2, <1>3, <2>2
  <2>. QED BY <1>1, <1>5, <2>1, <2>3, <2>4
<1>. QED BY <1>4, <1>5

(* Going over an arc from a point that the pass has been to. *)
LEMMA OverArc ==
  ASSUME NEW s, NEW src, Nets(s, src), NEW w \in Wires(src), NEW k \in 1..Len(s),
         NEW arr, ForwardTo(s, src, w, arr, k), NEW a \in ArcsOf(src), a[2] = s[k], NEW d \in Dirs
  PROVE  /\ a[1] \in Points /\ a[1] # s[k]
         /\ \A c \in Dirs : /\ arr[a[1]][c] \in Int
                            /\ After(arr[a[1]][c], TakesOf(src, w, a, d)) \in Int
                            /\ -DBL_MAX <= After(arr[a[1]][c], TakesOf(src, w, a, d))
         /\ \A c, e \in Dirs : arr[a[1]][c] <= arr[a[1]][e] =>
              After(arr[a[1]][c], TakesOf(src, w, a, d)) <= After(arr[a[1]][e], TakesOf(src, w, a, d))
<1>1. s \in Seq(Points) /\ IsInjective(s) BY DEF Nets
<1>2. /\ Len(s) \in Nat /\ Len(s) <= Cardinality(Points) /\ Cardinality(Points) \in Nat
      /\ \A i \in 1..Len(s) : s[i] \in Points
      /\ \A i, j \in 1..Len(s) : s[i] = s[j] => i = j
  BY <1>1, SeqFacts, PointSets
<1>3. PICK h, j \in 1..Len(s) : h < j /\ a[1] = s[h] /\ a[2] = s[j] BY ArcPlaces
<1>4. j = k BY <1>2, <1>3
<1>5. h < k /\ h \in 0..Cardinality(Points) BY <1>2, <1>3, <1>4
<1>6. \A c \in Dirs : Within(arr[a[1]][c], h) BY <1>3, <1>5 DEF ForwardTo
<1>7. TakesOf(src, w, a, d) \in -Longest..Longest BY TakesBounds
<1>8. \A c \in Dirs : /\ Within(After(arr[a[1]][c], TakesOf(src, w, a, d)), h + 1)
                      /\ -DBL_MAX <= After(arr[a[1]][c], TakesOf(src, w, a, d))
  BY <1>5, <1>6, <1>7, AfterFacts
<1>9. \A c, e \in Dirs : arr[a[1]][c] <= arr[a[1]][e] =>
        After(arr[a[1]][c], TakesOf(src, w, a, d)) <= After(arr[a[1]][e], TakesOf(src, w, a, d))
  BY <1>5, <1>6, <1>7, AfterFacts
<1>10. a[1] # s[k] BY <1>2, <1>3, <1>5
<1>. QED BY <1>2, <1>3, <1>6, <1>8, <1>9, <1>10 DEF Within

LEMMA SinkArrives ==
  ASSUME NEW s, NEW src, Nets(s, src), NEW w \in Wires(src),
         NEW k \in 1..Len(s), s[k] \in DOMAIN src, s[k] \notin StartPoints,
         NEW arr, ForwardTo(s, src, w, arr, k), NEW d \in Dirs
  PROVE  /\ IsLatest(src, w, arr, s[k], d, After(arr[src[s[k]]][d], w[s[k]][d]))
         /\ After(arr[src[s[k]]][d], w[s[k]][d]) \in Int
         /\ src[s[k]] \in Places
         /\ IsAncestor(src, w, arr, s[k], d, After(arr[src[s[k]]][d], w[s[k]][d]),
                       [point |-> src[s[k]], inversed |-> FALSE])
<1> DEFINE a == <<src[s[k]], s[k]>>
           t == After(arr[a[1]][d], TakesOf(src, w, a, d))
<1>1. a \in ArcsOf(src) BY DEF ArcsOf
<1>2. t = After(arr[src[s[k]]][d], w[s[k]][d]) BY DEF TakesOf
<1>3. t \in Int /\ StartOf(s[k], d) <= t BY <1>1, OverArc DEF StartOf
<1>4. PassesOf(src, a, d, d) BY DEF PassesOf
<1>5. ASSUME NEW b \in ArcsOf(src), NEW c \in Dirs, b[2] = s[k], PassesOf(src, b, c, d)
      PROVE  After(arr[b[1]][c], TakesOf(src, w, b, d)) <= t
  <2>1. b = a BY <1>5 DEF Nets
  <2>2. c = d BY <1>5 DEF PassesOf
  <2>. QED BY <1>3, <2>1, <2>2
<1>6. IsLatest(src, w, arr, s[k], d, t) BY <1>1, <1>3, <1>4, <1>5 DEF IsLatest
<1>7. src[s[k]] \in Points BY <1>1, OverArc
<1>8. IsAncestor(src, w, arr, s[k], d, t, [point |-> src[s[k]], inversed |-> FALSE])
  BY <1>1, <1>4, <1>7, PointSets DEF IsAncestor, SignalAt
<1>. QED BY <1>2, <1>3, <1>6, <1>7, <1>8, PointSets

ArcsInto(src, p) == {a \in CellArcs \cup {<<In(b), Out(b)>> : b \in UsedIn(src)} : a[2] = p}

ThroughTime(arr, a, d) == After(Through(a, arr[a[1]], d), Delay(a, d))

AncestorOf(arr, a, d) ==
  IF ThroughTime(arr, a, d) = -DBL_MAX THEN None
  ELSE [point |-> a[1], inversed |-> Inversed(a, arr[a[1]], d)]

LEMMA CellArcFacts ==
  ASSUME NEW s, NEW src, Nets(s, src), NEW p
  PROVE  \A a \in ArcsInto(src, p) :
           /\ a \in ArcsOf(src) /\ a[2] = p /\ p \notin DOMAIN src /\ a = <<a[1], p>>
           /\ Sense(a) \in {"positive", "negative", "non"}
           /\ \A w, d : TakesOf(src, w, a, d) = Delay(a, d)
<1> TAKE a \in ArcsInto(src, p)
<1>1. a \in ArcsOf(src) /\ a[2] = p BY DEF ArcsInto, ArcsOf
<1>2. p \notin DOMAIN src BY DEF Nets, ArcsInto
<1>3. Sense(a) \in {"positive", "negative", "non"} BY TimingAssumption DEF Sense
<1>. QED BY <1>1, <1>2, <1>3 DEF TakesOf, Nets

LEMMA OutputArrives ==
  ASSUME NEW s, NEW src, Nets(s, src), NEW w \in Wires(src),
         NEW k \in 1..Len(s), s[k] \notin DOMAIN src, s[k] \notin StartPoints,
         NEW arr, ForwardTo(s, src, w, arr, k), NEW d \in Dirs,
         NEW worst \in ArcsInto(src, s[k]),
         \A a \in ArcsInto(src, s[k]) : ThroughTime(arr, a, d) <= ThroughTime(arr, worst, d)
  PROVE  /\ IsLatest(src, w, arr, s[k], d, ThroughTime(arr, worst, d))
         /\ ThroughTime(arr, worst, d) \in Int
         /\ AncestorOf(arr, worst, d) \in Ancestors
         /\ IsAncestor(src, w, arr, s[k], d, ThroughTime(arr, worst, d), AncestorOf(arr, worst, d))
<1> DEFINE t == ThroughTime(arr, worst, d)
<1>1. ASSUME NEW a \in ArcsInto(src, s[k])
      PROVE  /\ \E c \in Dirs : /\ PassesOf(src, a, c, d)
                                /\ ThroughTime(arr, a, d) = After(arr[a[1]][c], TakesOf(src, w, a, d))
                                /\ c = IF Inversed(a, arr[a[1]], d) THEN Other(d) ELSE d
             /\ \A c \in Dirs : PassesOf(src, a, c, d) =>
                  After(arr[a[1]][c], TakesOf(src, w, a, d)) <= ThroughTime(arr, a, d)
             /\ ThroughTime(arr, a, d) \in Int /\ -DBL_MAX <= ThroughTime(arr, a, d)
  <2>1. /\ a \in ArcsOf(src) /\ a[2] = s[k] /\ TakesOf(src, w, a, d) = Delay(a, d)
        /\ Sense(a) \in {"positive", "negative", "non"}
    BY CellArcFacts
  <2>2. a[1] \in Points BY <2>1, OverArc
  <2>3. arr[a[1]] \in [Dirs -> Int] BY <2>2 DEF ForwardTo, TimeMaps
  <2>0. a[2] \notin DOMAIN src BY <2>1
  <2>4. PICK e \in Dirs : /\ PassesOf(src, a, e, d) /\ Through(a, arr[a[1]], d) = arr[a[1]][e]
                          /\ e = IF Inversed(a, arr[a[1]], d) THEN Other(d) ELSE d
    <3>1. Sense(a) \in {"positive", "negative", "non"} BY <2>1
    <3>2. \A time \in [Dirs -> Int] :
            \E e \in Dirs : /\ PassesOf(src, a, e, d) /\ Through(a, time, d) = time[e]
                            /\ e = IF Inversed(a, time, d) THEN Other(d) ELSE d
      BY <2>0, <3>1, ThroughFacts
    <3>. QED BY <2>3, <3>2
  <2>5. \A c \in Dirs : PassesOf(src, a, c, d) => arr[a[1]][c] <= arr[a[1]][e]
    BY <2>0, <2>1, <2>3, <2>4, ThroughFacts
  <2>6. ThroughTime(arr, a, d) = After(arr[a[1]][e], TakesOf(src, w, a, d))
    BY <2>1, <2>4 DEF ThroughTime
  <2>7. \A c \in Dirs : PassesOf(src, a, c, d) =>
          After(arr[a[1]][c], TakesOf(src, w, a, d)) <= ThroughTime(arr, a, d)
    BY <2>1, <2>5, <2>6, OverArc
  <2>8. ThroughTime(arr, a, d) \in Int /\ -DBL_MAX <= ThroughTime(arr, a, d) BY <2>1, <2>6, OverArc
  <2>. QED BY <2>4, <2>6, <2>7, <2>8
<1>2. t \in Int /\ StartOf(s[k], d) <= t BY <1>1 DEF StartOf
<1>3. ASSUME NEW a \in ArcsOf(src), NEW c \in Dirs, a[2] = s[k], PassesOf(src, a, c, d)
      PROVE  After(arr[a[1]][c], TakesOf(src, w, a, d)) <= t
  <2>1. a \in ArcsInto(src, s[k]) BY <1>3 DEF Nets, ArcsInto
  <2>2. After(arr[a[1]][c], TakesOf(src, w, a, d)) <= ThroughTime(arr, a, d) BY <1>1, <1>3, <2>1
  <2>3. After(arr[a[1]][c], TakesOf(src, w, a, d)) \in Int BY <1>3, OverArc
  <2>. QED BY <1>1, <1>2, <2>1, <2>2, <2>3
<1>4. worst \in ArcsOf(src) /\ worst[2] = s[k] BY CellArcFacts
<1>5. PICK c \in Dirs : /\ PassesOf(src, worst, c, d) /\ t = After(arr[worst[1]][c], TakesOf(src, w, worst, d))
                        /\ c = IF Inversed(worst, arr[worst[1]], d) THEN Other(d) ELSE d
  BY <1>1
<1>6. IsLatest(src, w, arr, s[k], d, t) BY <1>2, <1>3, <1>4, <1>5 DEF IsLatest
<1>7. worst[1] \in Points /\ worst = <<worst[1], s[k]>> BY <1>4, OverArc DEF Nets
<1>8. Inversed(worst, arr[worst[1]], d) \in BOOLEAN BY DEF Inversed
<1>9. CASE t = -DBL_MAX
  <2>1. AncestorOf(arr, worst, d) = None BY <1>9 DEF AncestorOf
  <2>2. t = StartOf(s[k], d) BY <1>9 DEF StartOf
  <2>3. None \in Ancestors /\ None.point = Root BY PointSets DEF None, Ancestors
  <2>4. IsAncestor(src, w, arr, s[k], d, t, None) BY <2>2, <2>3 DEF IsAncestor
  <2>. QED BY <1>2, <1>6, <2>1, <2>3, <2>4
<1>10. CASE t # -DBL_MAX
  <2> DEFINE a == [point |-> worst[1], inversed |-> Inversed(worst, arr[worst[1]], d)]
  <2>1. AncestorOf(arr, worst, d) = a BY <1>10 DEF AncestorOf
  <2>2. a \in Ancestors BY <1>7, <1>8, PointSets DEF Ancestors
  <2>3. a.point # Root /\ SignalAt(a, d) = c BY <1>5, <1>7, PointSets DEF SignalAt
  <2>4. a.point = worst[1] OBVIOUS
  <2> HIDE DEF a, t
  <2>5. IsAncestor(src, w, arr, s[k], d, t, a) BY <1>4, <1>5, <1>7, <2>3, <2>4 DEF IsAncestor
  <2>. QED BY <1>2, <1>6, <2>1, <2>2, <2>5 DEF t
<1>. QED BY <1>9, <1>10

LEMMA ArrivalStep ==
  ASSUME RepeaterInv, wire \in Wires(source), PropagateArrivals,
         NEW k \in 1..Len(Order), at = Order[k], Order[k] \notin StartPoints,
         ForwardTo(Order, source, wire, arrival, k),
         AncestorsTo(Order, source, wire, arrival, arrivalAncestor, k)
  PROVE  /\ ForwardTo(Order, source, wire, arrival', k + 1)
         /\ AncestorsTo(Order, source, wire, arrival', arrivalAncestor', k + 1)
<1> DEFINE s == Order
           src == source
           w == wire
           arr == arrival
           anc == arrivalAncestor
           p == s[k]
<1>1. Nets(s, src) BY NetsAreRight
<1>2. s \in Seq(Points) BY <1>1 DEF Nets
<1>3. p \in Points BY <1>2
<1>4. arr \in TimeMaps /\ anc \in AncestorMaps BY DEF ForwardTo, AncestorsTo
<1>5. /\ \/ IsSink(p) /\ ArriveAtSink(p)
         \/ ~ IsSink(p) /\ ArcsTo(p) # {} /\ ArriveAtOutput(p)
         \/ ~ IsSink(p) /\ ArcsTo(p) = {} /\ UNCHANGED <<arrival, arrivalAncestor>>
  BY DEF PropagateArrivals
<1>6. /\ IsSink(p) <=> p \in DOMAIN src
      /\ ArcsTo(p) = ArcsInto(src, p)
      /\ \A a, d : ArrivalThrough(a, d) = ThroughTime(arr, a, d)
  BY UsedArcs DEF IsSink, ArcsTo, ArcsInto, ArrivalThrough, ThroughTime
<1> HIDE DEF s, src, w, arr, anc, p
<1>7. ASSUME NEW times \in [Dirs -> Int], NEW ancestors \in [Dirs -> Ancestors],
             \A d \in Dirs : /\ IsLatest(src, w, arr, p, d, times[d])
                             /\ IsAncestor(src, w, arr, p, d, times[d], ancestors[d]),
             arrival' = [arr EXCEPT ![p] = times],
             arrivalAncestor' = [anc EXCEPT ![p] = ancestors]
      PROVE  /\ ForwardTo(Order, source, wire, arrival', k + 1)
             /\ AncestorsTo(Order, source, wire, arrival', arrivalAncestor', k + 1)
  <2>1. arrival' \in TimeMaps /\ arrival'[p] = times BY <1>3, <1>4, <1>7 DEF TimeMaps
  <2>2. \A q \in Points : q # p => arrival'[q] = arr[q] BY <1>4, <1>7 DEF TimeMaps
  <2>3. arrivalAncestor' \in AncestorMaps /\ arrivalAncestor'[p] = ancestors
    BY <1>3, <1>4, <1>7 DEF AncestorMaps
  <2>4. \A q \in Points : q # p => arrivalAncestor'[q] = anc[q] BY <1>4, <1>7 DEF AncestorMaps
  <2>5. ForwardTo(s, src, w, arrival', k + 1)
    BY <1>1, <1>7, <2>1, <2>2, ForwardStep DEF s, src, w, arr, p
  <2>6. AncestorsTo(s, src, w, arrival', arrivalAncestor', k + 1)
    <3>1. \A d \in Dirs : IsAncestor(src, w, arr, s[k], d, arrival'[s[k]][d], arrivalAncestor'[s[k]][d])
      BY <1>7, <2>1, <2>3 DEF p
    <3>2. AncestorsTo(s, src, w, arr, anc, k) /\ k \in 1..Len(s) BY DEF s, src, w, arr, anc
    <3>3. \A q \in Points : q # s[k] => arrival'[q] = arr[q] /\ arrivalAncestor'[q] = anc[q]
      BY <2>2, <2>4 DEF p
    <3>. QED BY <1>1, <2>3, <3>1, <3>2, <3>3, AncestorStep
  <2>. QED BY <2>5, <2>6 DEF s, src, w
<1>8. CASE IsSink(p) /\ ArriveAtSink(p)
  <2> DEFINE times == [d \in Dirs |-> After(arr[src[p]][d], w[p][d])]
             ancestors == [d \in Dirs |-> [point |-> src[p], inversed |-> FALSE]]
  <2>1. /\ arrival' = [arr EXCEPT ![p] = times]
        /\ arrivalAncestor' = [anc EXCEPT ![p] = ancestors]
    BY <1>8 DEF ArriveAtSink, ArriveFrom, arr, anc, src, w
  <2>2. \A d \in Dirs : /\ IsLatest(src, w, arr, p, d, times[d]) /\ times[d] \in Int
                        /\ src[p] \in Places
                        /\ IsAncestor(src, w, arr, p, d, times[d], ancestors[d])
    BY <1>1, <1>6, <1>8, SinkArrives DEF s, src, w, arr, p
  <2>3. times \in [Dirs -> Int] /\ ancestors \in [Dirs -> Ancestors] BY <2>2 DEF Ancestors
  <2> HIDE DEF times, ancestors
  <2>. QED BY <1>7, <2>1, <2>2, <2>3
<1>9. CASE ~ IsSink(p) /\ ArcsTo(p) # {} /\ ArriveAtOutput(p)
  <2>1. PICK worst \in [Dirs -> ArcsTo(p)] :
          /\ \A d \in Dirs, a \in ArcsTo(p) : ArrivalThrough(a, d) <= ArrivalThrough(worst[d], d)
          /\ arrival' = [arrival EXCEPT ![p] = [d \in Dirs |-> ArrivalThrough(worst[d], d)]]
          /\ arrivalAncestor' = [arrivalAncestor EXCEPT ![p] =
               [d \in Dirs |-> IF ArrivalThrough(worst[d], d) = -DBL_MAX THEN None
                               ELSE [point |-> worst[d][1],
                                     inversed |-> Inversed(worst[d], arrival[worst[d][1]], d)]]]
    BY <1>9 DEF ArriveAtOutput, ArriveFrom
  <2> DEFINE times == [d \in Dirs |-> ThroughTime(arr, worst[d], d)]
             ancestors == [d \in Dirs |-> AncestorOf(arr, worst[d], d)]
  <2>2. arrival' = [arr EXCEPT ![p] = times] BY <1>6, <2>1 DEF arr
  <2>3. arrivalAncestor' = [anc EXCEPT ![p] = ancestors]
    BY <1>6, <2>1 DEF arr, anc, AncestorOf
  <2>4. ASSUME NEW d \in Dirs
        PROVE  /\ IsLatest(src, w, arr, p, d, times[d]) /\ times[d] \in Int
               /\ ancestors[d] \in Ancestors
               /\ IsAncestor(src, w, arr, p, d, times[d], ancestors[d])
    <3>1. worst[d] \in ArcsInto(src, p) BY <1>6, <2>1
    <3>2. \A a \in ArcsInto(src, p) : ThroughTime(arr, a, d) <= ThroughTime(arr, worst[d], d)
      BY <1>6, <2>1
    <3>. QED BY <1>1, <1>6, <1>9, <3>1, <3>2, OutputArrives DEF s, src, w, arr, p
  <2>5. times = [d \in Dirs |-> times[d]] /\ ancestors = [d \in Dirs |-> ancestors[d]] OBVIOUS
  <2> HIDE DEF times, ancestors
  <2>6. times \in [Dirs -> Int] /\ ancestors \in [Dirs -> Ancestors] BY <2>4, <2>5
  <2>. QED BY <1>7, <2>2, <2>3, <2>4, <2>6
<1>10. CASE ~ IsSink(p) /\ ArcsTo(p) = {} /\ UNCHANGED <<arrival, arrivalAncestor>>
  <2>1. /\ arrival' = [arr EXCEPT ![p] = arr[p]]
        /\ arrivalAncestor' = [anc EXCEPT ![p] = anc[p]]
    BY <1>3, <1>4, <1>10 DEF arr, anc, TimeMaps, AncestorMaps
  <2>2. arr[p] \in [Dirs -> Int] /\ anc[p] \in [Dirs -> Ancestors]
    BY <1>3, <1>4 DEF TimeMaps, AncestorMaps
  <2>3. \A a \in ArcsOf(src) : a[2] # p BY <1>1, <1>6, <1>10 DEF Nets, ArcsInto
  <2>4. p \notin StartPoints BY DEF s, p
  <2>5. ASSUME NEW d \in Dirs PROVE arr[p][d] = StartOf(p, d) /\ anc[p][d] = None
    <3>1. Len(s) \in Nat /\ k \in 1..Len(s) /\ k >= k BY <1>2 DEF s
    <3>2. arr[p][d] = -DBL_MAX /\ anc[p][d] = None
      BY <3>1 DEF ForwardTo, AncestorsTo, s, p, arr, anc
    <3>. QED BY <2>4, <3>2 DEF StartOf
  <2>6. \A d \in Dirs : IsLatest(src, w, arr, p, d, arr[p][d])
    BY <2>2, <2>3, <2>5 DEF IsLatest
  <2>7. \A d \in Dirs : IsAncestor(src, w, arr, p, d, arr[p][d], anc[p][d])
    BY <2>5 DEF IsAncestor, None
  <2>. QED BY <1>7, <2>1, <2>2, <2>6, <2>7
<1>. QED BY <1>5, <1>8, <1>9, <1>10

-----------------------------------------------------------------------------
(***************************************************************************)
(* Backwards: t is the earliest time at which a signal is required at p by *)
(* the points behind place k, when these have the times req.               *)
(***************************************************************************)
BehindPlace(s, k, q) == \E j \in 1..Len(s) : j > k /\ q = s[j]

IsEarliest(s, src, w, req, p, c, k, t) ==
  /\ t <= EndOf(p, c)
  /\ \A a \in ArcsOf(src), d \in Dirs :
       a[1] = p /\ BehindPlace(s, k, a[2]) /\ PassesOf(src, a, c, d) =>
         t <= Before(req[a[2]][d], TakesOf(src, w, a, d))
  /\ \/ t = EndOf(p, c)
     \/ \E a \in ArcsOf(src), d \in Dirs :
          /\ a[1] = p /\ BehindPlace(s, k, a[2]) /\ PassesOf(src, a, c, d)
          /\ t = Before(req[a[2]][d], TakesOf(src, w, a, d))

(* The pass has come to place k of s. *)
BackwardTo(s, src, w, req, k) ==
  /\ req \in TimeMaps
  /\ \A i \in 1..Len(s), c \in Dirs : IsEarliest(s, src, w, req, s[i], c, k, req[s[i]][c])

(* Ancestor a is the point that asks for the time t of p. *)
IsAsker(s, src, w, req, p, c, k, t, a) ==
  /\ a.point = Root => t = EndOf(p, c)
  /\ a.point # Root =>
       /\ <<p, a.point>> \in ArcsOf(src) /\ BehindPlace(s, k, a.point)
       /\ PassesOf(src, <<p, a.point>>, c, SignalAt(a, c))
       /\ t = Before(req[a.point][SignalAt(a, c)], TakesOf(src, w, <<p, a.point>>, SignalAt(a, c)))

AskersTo(s, src, w, req, anc, k) ==
  /\ anc \in AncestorMaps
  /\ \A i \in 1..Len(s), c \in Dirs :
       IsAsker(s, src, w, req, s[i], c, k, req[s[i]][c], anc[s[i]][c])

(* times are what p asks of the points that it has arcs from. *)
Asked(src, w, req, p, times, ancestors) ==
  \A a \in ArcsOf(src), c \in Dirs : a[2] = p =>
    /\ times[a[1]][c] \in Int
    /\ \A d \in Dirs : PassesOf(src, a, c, d) =>
         times[a[1]][c] <= Before(req[p][d], TakesOf(src, w, a, d))
    /\ \E d \in Dirs : /\ PassesOf(src, a, c, d)
                       /\ times[a[1]][c] = Before(req[p][d], TakesOf(src, w, a, d))
                       /\ ancestors[a[1]][c] \in Ancestors /\ ancestors[a[1]][c].point = p
                       /\ d = SignalAt(ancestors[a[1]][c], c)

Sources(src, p) == {a[1] : a \in {b \in ArcsOf(src) : b[2] = p}}

LEMMA BeforeIsInt ==
  ASSUME NEW t \in Int, NEW src, NEW w \in Wires(src), NEW a, NEW d \in Dirs
  PROVE  Before(t, TakesOf(src, w, a, d)) \in Int
<1>1. TakesOf(src, w, a, d) \in -Longest..Longest /\ Longest \in Nat BY TakesBounds, ReachFacts
<1>. QED BY <1>1 DEF Before, After

(* new is req with the sources of p lowered to what p asks of them. *)
Lowered(src, p, req, times, new) ==
  \A q \in Points, c \in Dirs :
    new[q][c] = IF q \in Sources(src, p) /\ times[q][c] < req[q][c] THEN times[q][c] ELSE req[q][c]

LEMMA BackwardStep ==
  ASSUME NEW s, NEW src, Nets(s, src), NEW w \in Wires(src), NEW k \in 1..Len(s),
         NEW req, BackwardTo(s, src, w, req, k),
         NEW times, NEW ancestors, Asked(src, w, req, s[k], times, ancestors),
         NEW new \in TimeMaps, Lowered(src, s[k], req, times, new)
  PROVE  BackwardTo(s, src, w, new, k - 1)
<1>1. s \in Seq(Points) /\ IsInjective(s) BY DEF Nets
<1>2. /\ Len(s) \in Nat
      /\ \A i \in 1..Len(s) : s[i] \in Points
      /\ \A i, j \in 1..Len(s) : s[i] = s[j] => i = j
  BY <1>1, SeqFacts
<1>0. \A q \in Points, c \in Dirs :
        new[q][c] = IF q \in Sources(src, s[k]) /\ times[q][c] < req[q][c] THEN times[q][c] ELSE req[q][c]
  BY DEF Lowered
<1>3. req \in TimeMaps BY DEF BackwardTo
<1>4. \A q \in Points, c \in Dirs : req[q][c] \in Int /\ new[q][c] \in Int BY <1>3 DEF TimeMaps
<1>5. ASSUME NEW j \in 1..Len(s), j >= k, NEW c \in Dirs PROVE new[s[j]][c] = req[s[j]][c]
  <2>1. s[j] \notin Sources(src, s[k])
    <3> SUFFICES ASSUME NEW a \in ArcsOf(src), a[2] = s[k] PROVE a[1] # s[j] BY DEF Sources
    <3>1. PICK h, i \in 1..Len(s) : h < i /\ a[1] = s[h] /\ a[2] = s[i] BY ArcPlaces
    <3>2. i = k BY <1>2, <3>1
    <3>. QED BY <1>2, <1>5, <3>1, <3>2
  <2>. QED BY <1>0, <1>2, <2>1
<1>6. ASSUME NEW a \in ArcsOf(src), BehindPlace(s, k - 1, a[2])
      PROVE  /\ \A d \in Dirs : new[a[2]][d] = req[a[2]][d]
             /\ a[2] = s[k] \/ BehindPlace(s, k, a[2])
  <2>1. PICK j \in 1..Len(s) : j > k - 1 /\ a[2] = s[j] BY <1>6 DEF BehindPlace
  <2>2. j >= k BY <1>2, <2>1
  <2>3. j = k \/ j > k BY <1>2, <2>2
  <2>. QED BY <1>5, <2>1, <2>2, <2>3 DEF BehindPlace
<1>7. \A q : q = s[k] \/ BehindPlace(s, k, q) => BehindPlace(s, k - 1, q) BY <1>2 DEF BehindPlace
<1>8. ASSUME NEW p \in Points, NEW c \in Dirs,
             IsEarliest(s, src, w, req, p, c, k, req[p][c])
      PROVE  IsEarliest(s, src, w, new, p, c, k - 1, new[p][c])
  <2>1. CASE p \notin Sources(src, s[k])
    <3>1. new[p][c] = req[p][c] BY <1>0, <2>1
    <3>2. \A a \in ArcsOf(src) : a[1] = p => a[2] # s[k] BY <2>1 DEF Sources
    <3>3. \A a \in ArcsOf(src) : a[1] = p => (BehindPlace(s, k - 1, a[2]) <=> BehindPlace(s, k, a[2]))
      BY <1>6, <1>7, <3>2
    <3>. QED BY <1>6, <1>8, <3>1, <3>3 DEF IsEarliest
  <2>2. CASE p \in Sources(src, s[k])
    <3>1. PICK b \in ArcsOf(src) : b[1] = p /\ b[2] = s[k] BY <2>2 DEF Sources
    <3>2. \A a \in ArcsOf(src) : a[1] = p /\ a[2] = s[k] => a = b BY <3>1 DEF Nets
    <3>3. /\ times[p][c] \in Int
          /\ \A d \in Dirs : PassesOf(src, b, c, d) =>
               times[p][c] <= Before(req[s[k]][d], TakesOf(src, w, b, d))
          /\ \E d \in Dirs : /\ PassesOf(src, b, c, d)
                             /\ times[p][c] = Before(req[s[k]][d], TakesOf(src, w, b, d))
      BY <3>1 DEF Asked
    <3>4. /\ new[p][c] = IF times[p][c] < req[p][c] THEN times[p][c] ELSE req[p][c]
          /\ new[p][c] <= times[p][c] /\ new[p][c] <= req[p][c] /\ new[p][c] \in Int
          /\ req[p][c] \in Int
      BY <1>0, <1>4, <2>2, <3>3
    <3>5. ASSUME NEW a \in ArcsOf(src), NEW d \in Dirs,
                 a[1] = p, BehindPlace(s, k - 1, a[2]), PassesOf(src, a, c, d)
          PROVE  new[p][c] <= Before(new[a[2]][d], TakesOf(src, w, a, d))
      <4>1. new[a[2]][d] = req[a[2]][d] BY <1>6, <3>5
      <4>2. a[2] \in Points BY <1>2, <3>5 DEF BehindPlace
      <4>3. Before(req[a[2]][d], TakesOf(src, w, a, d)) \in Int BY <1>4, <4>2, BeforeIsInt
      <4>4. CASE a[2] = s[k]
        <5>1. a = b BY <3>2, <3>5, <4>4
        <5>2. times[p][c] <= Before(req[a[2]][d], TakesOf(src, w, a, d)) BY <3>3, <3>5, <4>4, <5>1
        <5>. QED BY <3>3, <3>4, <4>1, <4>3, <5>2
      <4>5. CASE BehindPlace(s, k, a[2])
        <5>1. req[p][c] <= Before(req[a[2]][d], TakesOf(src, w, a, d))
          BY <1>8, <3>5, <4>5 DEF IsEarliest
        <5>. QED BY <3>4, <4>1, <4>3, <5>1
      <4>. QED BY <1>6, <3>5, <4>4, <4>5
    <3>6. new[p][c] <= EndOf(p, c)
      <4>1. req[p][c] <= EndOf(p, c) BY <1>8 DEF IsEarliest
      <4>2. EndOf(p, c) \in Int
        <5>1. DBL_MAX \in Nat BY TimingAssumption
        <5>2. p \in EndPoints => EndTimes[p][c] \in -DBL_MAX .. DBL_MAX
          BY TimingAssumption DEF Times
        <5>. QED BY <5>1, <5>2 DEF EndOf
      <4>. QED BY <3>4, <4>1, <4>2
    <3>7. \/ new[p][c] = EndOf(p, c)
          \/ \E a \in ArcsOf(src), d \in Dirs :
               /\ a[1] = p /\ BehindPlace(s, k - 1, a[2]) /\ PassesOf(src, a, c, d)
               /\ new[p][c] = Before(new[a[2]][d], TakesOf(src, w, a, d))
      <4>1. CASE new[p][c] = times[p][c]
        <5>1. PICK d \in Dirs : /\ PassesOf(src, b, c, d)
                                /\ times[p][c] = Before(req[s[k]][d], TakesOf(src, w, b, d))
          BY <3>3
        <5>2. BehindPlace(s, k - 1, b[2]) /\ new[b[2]][d] = req[s[k]][d] BY <1>6, <1>7, <3>1
        <5>. QED BY <3>1, <4>1, <5>1, <5>2
      <4>2. CASE new[p][c] = req[p][c]
        <5>1. CASE req[p][c] = EndOf(p, c) BY <4>2, <5>1
        <5>2. ASSUME NEW a \in ArcsOf(src), NEW d \in Dirs,
                     a[1] = p, BehindPlace(s, k, a[2]), PassesOf(src, a, c, d),
                     req[p][c] = Before(req[a[2]][d], TakesOf(src, w, a, d))
              PROVE  \E a1 \in ArcsOf(src), d1 \in Dirs :
                       /\ a1[1] = p /\ BehindPlace(s, k - 1, a1[2]) /\ PassesOf(src, a1, c, d1)
                       /\ new[p][c] = Before(new[a1[2]][d1], TakesOf(src, w, a1, d1))
          <6>1. BehindPlace(s, k - 1, a[2]) BY <1>7, <5>2
          <6>2. new[a[2]][d] = req[a[2]][d] BY <1>6, <6>1
          <6>. QED BY <4>2, <5>2, <6>1, <6>2
        <5>. QED BY <1>8, <5>1, <5>2 DEF IsEarliest
      <4>. QED BY <3>4, <4>1, <4>2
    <3>. QED BY <3>5, <3>6, <3>7 DEF IsEarliest
  <2>. QED BY <2>1, <2>2
<1>. QED BY <1>2, <1>8 DEF BackwardTo

LEMMA AskerStep ==
  ASSUME NEW s, NEW src, Nets(s, src), NEW w, NEW k \in 1..Len(s),
         NEW req, NEW anc, AskersTo(s, src, w, req, anc, k),
         NEW times, NEW ancestors, Asked(src, w, req, s[k], times, ancestors), NEW new, NEW newAnc,
         \A q \in Points, c \in Dirs :
           IF q \in Sources(src, s[k]) /\ times[q][c] < req[q][c]
           THEN new[q][c] = times[q][c] /\ newAnc[q][c] = ancestors[q][c]
           ELSE new[q][c] = req[q][c] /\ newAnc[q][c] = anc[q][c],
         newAnc = [q \in Points |-> [c \in Dirs |-> newAnc[q][c]]]
  PROVE  AskersTo(s, src, w, new, newAnc, k - 1)
<1>1. s \in Seq(Points) /\ IsInjective(s) BY DEF Nets
<1>2. /\ Len(s) \in Nat
      /\ \A i \in 1..Len(s) : s[i] \in Points /\ s[i] # Root
  BY <1>1, SeqFacts
<1>0. \A i, j \in 1..Len(s) : s[i] = s[j] => i = j BY <1>1, SeqFacts
<1>3. anc \in AncestorMaps BY DEF AskersTo
<1>4. ASSUME NEW q, BehindPlace(s, k - 1, q), NEW c \in Dirs PROVE new[q][c] = req[q][c]
  <2>1. PICK j \in 1..Len(s) : j > k - 1 /\ q = s[j] BY <1>4 DEF BehindPlace
  <2>2. q \notin Sources(src, s[k])
    <3> SUFFICES ASSUME NEW a \in ArcsOf(src), a[2] = s[k] PROVE a[1] # q BY DEF Sources
    <3>1. PICK h, i \in 1..Len(s) : h < i /\ a[1] = s[h] /\ a[2] = s[i] BY ArcPlaces
    <3>2. s[i] = s[k] BY <3>1
    <3>3. i = k BY <1>0, <3>2
    <3>4. h # j BY <1>2, <2>1, <3>1, <3>3
    <3>5. s[h] # s[j] BY <1>0, <3>4
    <3>. QED BY <2>1, <3>1, <3>5
  <2>. QED BY <1>2, <2>1, <2>2
<1>5. \A q : q = s[k] \/ BehindPlace(s, k, q) => BehindPlace(s, k - 1, q) BY <1>2 DEF BehindPlace
<1>6. ASSUME NEW q \in Points, NEW c \in Dirs
      PROVE  /\ newAnc[q][c] \in Ancestors
             /\ IsAsker(s, src, w, req, q, c, k, req[q][c], anc[q][c]) =>
                  IsAsker(s, src, w, new, q, c, k - 1, new[q][c], newAnc[q][c])
  <2>1. CASE q \in Sources(src, s[k]) /\ times[q][c] < req[q][c]
    <3>1. PICK b \in ArcsOf(src) : b[1] = q /\ b[2] = s[k] BY <2>1 DEF Sources
    <3>2. b = <<q, s[k]>> BY <3>1 DEF Nets
    <3>3. PICK d \in Dirs : /\ PassesOf(src, b, c, d)
                            /\ times[q][c] = Before(req[s[k]][d], TakesOf(src, w, b, d))
                            /\ ancestors[q][c] \in Ancestors /\ ancestors[q][c].point = s[k]
                            /\ d = SignalAt(ancestors[q][c], c)
      BY <3>1 DEF Asked
    <3>4. new[q][c] = times[q][c] /\ newAnc[q][c] = ancestors[q][c] BY <2>1
    <3>5. BehindPlace(s, k - 1, s[k]) /\ new[s[k]][d] = req[s[k]][d] BY <1>4, <1>5
    <3>6. s[k] # Root BY <1>2
    <3>. QED BY <3>1, <3>2, <3>3, <3>4, <3>5, <3>6 DEF IsAsker
  <2>2. CASE ~(q \in Sources(src, s[k]) /\ times[q][c] < req[q][c])
    <3>1. new[q][c] = req[q][c] /\ newAnc[q][c] = anc[q][c] BY <2>2
    <3>2. anc[q][c] \in Ancestors BY <1>3 DEF AncestorMaps
    <3>3. SignalAt(anc[q][c], c) \in Dirs BY <3>2, SignalFacts
    <3>. QED BY <1>4, <1>5, <3>1, <3>2, <3>3 DEF IsAsker
  <2>. QED BY <2>1, <2>2
<1>7. newAnc \in AncestorMaps BY <1>6 DEF AncestorMaps
<1>. QED BY <1>2, <1>6, <1>7 DEF AskersTo

LEMMA PassesBothWays ==
  ASSUME NEW src, NEW a, NEW c, NEW d, Sense(a) \in {"positive", "negative", "non"}
  PROVE  PassesOf(src, a, c, d) <=> PassesOf(src, a, d, c)
<1>1. CASE a[2] \in DOMAIN src BY <1>1 DEF PassesOf
<1>2. CASE a[2] \notin DOMAIN src
  <2>1. CASE Sense(a) = "positive" BY <1>2, <2>1 DEF PassesOf
  <2>2. CASE Sense(a) = "negative" BY <1>2, <2>2 DEF PassesOf
  <2>3. CASE Sense(a) = "non" BY <1>2, <2>3 DEF PassesOf
  <2>. QED BY <2>1, <2>2, <2>3
<1>. QED BY <1>1, <1>2

SinkTimes(src, w, req, p) == [q \in {src[p]} |-> [d \in Dirs |-> Before(req[p][d], w[p][d])]]
SinkAncestors(src, p) == [q \in {src[p]} |-> [d \in Dirs |-> [point |-> p, inversed |-> FALSE]]]

LEMMA SinkAsks ==
  ASSUME NEW s, NEW src, Nets(s, src), NEW w \in Wires(src), NEW p \in DOMAIN src, p \in Points,
         NEW req \in TimeMaps
  PROVE  /\ Sources(src, p) = {src[p]}
         /\ Asked(src, w, req, p, SinkTimes(src, w, req, p), SinkAncestors(src, p))
<1> DEFINE a == <<src[p], p>>
           times == SinkTimes(src, w, req, p)
           ancestors == SinkAncestors(src, p)
<1>1. a \in ArcsOf(src) BY DEF ArcsOf
<1>2. \A b \in ArcsOf(src) : b[2] = p => b = a BY DEF Nets
<1>3. Sources(src, p) = {src[p]} BY <1>1, <1>2 DEF Sources
<1>4. \A d \in Dirs : TakesOf(src, w, a, d) = w[p][d] BY DEF TakesOf
<1>5. \A c, d \in Dirs : PassesOf(src, a, c, d) <=> c = d BY DEF PassesOf
<1>6. \A d \in Dirs : Before(req[p][d], w[p][d]) \in Int
  <2> TAKE d \in Dirs
  <2>1. req[p][d] \in Int BY DEF TimeMaps
  <2>2. Before(req[p][d], TakesOf(src, w, a, d)) \in Int BY <2>1, BeforeIsInt
  <2>. QED BY <1>4, <2>2
<1>7. \A c \in Dirs : times[a[1]][c] = Before(req[p][c], w[p][c]) BY DEF SinkTimes
<1>8. \A c \in Dirs : /\ ancestors[a[1]][c] \in Ancestors /\ ancestors[a[1]][c].point = p
                      /\ c = SignalAt(ancestors[a[1]][c], c)
  BY PointSets DEF SinkAncestors, Ancestors, SignalAt
<1> HIDE DEF times, ancestors, a
<1>9. Asked(src, w, req, p, times, ancestors) BY <1>2, <1>4, <1>5, <1>6, <1>7, <1>8 DEF Asked
<1>. QED BY <1>3, <1>9 DEF times, ancestors

LeadOf(req, a) == [d \in Dirs |-> -Before(req[a[2]][d], Delay(a, d))]

OutputTimes(src, req, p) ==
  [q \in {a[1] : a \in ArcsInto(src, p)} |->
     [d \in Dirs |-> -Through(<<q, p>>, LeadOf(req, <<q, p>>), d)]]
OutputAncestors(src, req, p) ==
  [q \in {a[1] : a \in ArcsInto(src, p)} |-> [d \in Dirs |->
     [point |-> p, inversed |-> Inversed(<<q, p>>, LeadOf(req, <<q, p>>), d)]]]

LEMMA OutputAsks ==
  ASSUME NEW s, NEW src, Nets(s, src), NEW w \in Wires(src), NEW p \in Points, p \notin DOMAIN src,
         NEW req \in TimeMaps
  PROVE  /\ Sources(src, p) = {a[1] : a \in ArcsInto(src, p)}
         /\ Asked(src, w, req, p, OutputTimes(src, req, p), OutputAncestors(src, req, p))
<1> DEFINE inputs == {a[1] : a \in ArcsInto(src, p)}
           times == OutputTimes(src, req, p)
           ancestors == OutputAncestors(src, req, p)
<1>1. \A a \in ArcsOf(src) : a[2] = p => a \in ArcsInto(src, p) BY DEF Nets, ArcsInto
<1>2. \A a \in ArcsInto(src, p) : a \in ArcsOf(src) /\ a[2] = p BY CellArcFacts
<1>3. Sources(src, p) = inputs BY <1>1, <1>2 DEF Sources
<1>4. ASSUME NEW a \in ArcsOf(src), NEW c \in Dirs, a[2] = p
      PROVE  /\ times[a[1]][c] \in Int
             /\ \A d \in Dirs : PassesOf(src, a, c, d) =>
                  times[a[1]][c] <= Before(req[p][d], TakesOf(src, w, a, d))
             /\ \E d \in Dirs : /\ PassesOf(src, a, c, d)
                                /\ times[a[1]][c] = Before(req[p][d], TakesOf(src, w, a, d))
                                /\ ancestors[a[1]][c] \in Ancestors /\ ancestors[a[1]][c].point = p
                                /\ d = SignalAt(ancestors[a[1]][c], c)
  <2> DEFINE lead == LeadOf(req, a)
  <2>1. a \in ArcsInto(src, p) BY <1>1, <1>4
  <2>2. /\ a = <<a[1], p>> /\ Sense(a) \in {"positive", "negative", "non"}
        /\ \A d : TakesOf(src, w, a, d) = Delay(a, d)
    BY <2>1, CellArcFacts
  <2>3. times[a[1]][c] = -Through(a, lead, c) BY <2>1, <2>2 DEF OutputTimes
  <2>4. \A d \in Dirs : Before(req[p][d], TakesOf(src, w, a, d)) \in Int
    <3> TAKE d \in Dirs
    <3>1. req[p][d] \in Int BY DEF TimeMaps
    <3>. QED BY <3>1, BeforeIsInt
  <2>5. \A d \in Dirs : lead[d] = -Before(req[p][d], TakesOf(src, w, a, d))
    BY <1>4, <2>2 DEF LeadOf
  <2>6. lead \in [Dirs -> Int]
    <3>1. lead = [d \in Dirs |-> lead[d]] BY DEF LeadOf
    <3>2. \A d \in Dirs : lead[d] \in Int BY <2>4, <2>5
    <3> HIDE DEF lead
    <3>. QED BY <3>1, <3>2
  <2>7. a[2] \notin DOMAIN src BY <1>4
  <2>8. ancestors[a[1]][c] = [point |-> p, inversed |-> Inversed(a, lead, c)]
    BY <2>1, <2>2 DEF OutputAncestors
  <2> HIDE DEF lead, times, ancestors
  <2>9. PICK e \in Dirs : /\ PassesOf(src, a, e, c) /\ Through(a, lead, c) = lead[e]
                          /\ e = IF Inversed(a, lead, c) THEN Other(c) ELSE c
    <3>1. \A time \in [Dirs -> Int] :
            \E e \in Dirs : /\ PassesOf(src, a, e, c) /\ Through(a, time, c) = time[e]
                            /\ e = IF Inversed(a, time, c) THEN Other(c) ELSE c
      BY <2>2, <2>7, ThroughFacts
    <3>. QED BY <2>6, <3>1
  <2>10. \A d \in Dirs : PassesOf(src, a, d, c) => lead[d] <= lead[e]
    BY <2>2, <2>6, <2>7, <2>9, ThroughFacts
  <2>11. times[a[1]][c] = Before(req[p][e], TakesOf(src, w, a, e))
    BY <2>3, <2>4, <2>5, <2>9
  <2>12. \A d \in Dirs : PassesOf(src, a, c, d) =>
           times[a[1]][c] <= Before(req[p][d], TakesOf(src, w, a, d))
    <3> SUFFICES ASSUME NEW d \in Dirs, PassesOf(src, a, c, d)
                 PROVE  times[a[1]][c] <= Before(req[p][d], TakesOf(src, w, a, d))
      OBVIOUS
    <3>1. lead[d] <= lead[e] BY <2>2, <2>10, PassesBothWays
    <3>2. lead[d] = -Before(req[p][d], TakesOf(src, w, a, d)) BY <2>5
    <3>3. lead[e] = -Before(req[p][e], TakesOf(src, w, a, e)) BY <2>5
    <3>. QED BY <2>4, <2>11, <3>1, <3>2, <3>3
  <2>13. PassesOf(src, a, c, e) BY <2>2, <2>9, PassesBothWays
  <2>14. Inversed(a, lead, c) \in BOOLEAN BY DEF Inversed
  <2>15. /\ ancestors[a[1]][c] \in Ancestors /\ ancestors[a[1]][c].point = p
         /\ e = SignalAt(ancestors[a[1]][c], c)
    BY <2>8, <2>9, <2>14, PointSets DEF Ancestors, SignalAt
  <2>. QED BY <2>4, <2>11, <2>12, <2>13, <2>15
<1>5. Asked(src, w, req, p, times, ancestors) BY <1>4 DEF Asked
<1>. QED BY <1>3, <1>5

LEMMA RequiredStep ==
  ASSUME RepeaterInv, wire \in Wires(source), PropagateRequires,
         NEW k \in 1..Len(Order), at = Order[k],
         BackwardTo(Order, source, wire, required, k),
         AskersTo(Order, source, wire, required, requiredAncestor, k)
  PROVE  /\ BackwardTo(Order, source, wire, required', k - 1)
         /\ AskersTo(Order, source, wire, required', requiredAncestor', k - 1)
<1>1. Nets(Order, source) BY NetsAreRight
<1>2. at \in Points BY <1>1 DEF Nets
<1>3. required \in TimeMaps BY DEF BackwardTo
<1>4. /\ IsSink(at) <=> at \in DOMAIN source
      /\ ArcsTo(at) = ArcsInto(source, at)
      /\ \A a : Lead(a) = LeadOf(required, a)
  BY UsedArcs DEF IsSink, ArcsTo, ArcsInto, Lead, LeadOf
<1>5. ASSUME NEW times, NEW ancestors, RequireOf(times, ancestors),
             DOMAIN times = Sources(source, at),
             Asked(source, wire, required, at, times, ancestors)
      PROVE  /\ BackwardTo(Order, source, wire, required', k - 1)
             /\ AskersTo(Order, source, wire, required', requiredAncestor', k - 1)
  <2>1. /\ required' = [q \in Points |-> [d \in Dirs |->
                         IF q \in Sources(source, at) /\ times[q][d] < required[q][d] THEN times[q][d]
                         ELSE required[q][d]]]
        /\ requiredAncestor' = [q \in Points |-> [d \in Dirs |->
                         IF q \in Sources(source, at) /\ times[q][d] < required[q][d]
                         THEN ancestors[q][d] ELSE requiredAncestor[q][d]]]
    BY <1>5 DEF RequireOf
  <2>2. \A q \in Points, c \in Dirs :
          required'[q][c] = IF q \in Sources(source, at) /\ times[q][c] < required[q][c]
                            THEN times[q][c] ELSE required[q][c]
    BY <2>1
  <2>3. \A q \in Sources(source, at), c \in Dirs : times[q][c] \in Int BY <1>5 DEF Asked, Sources
  <2>4. \A q \in Points, c \in Dirs : required[q][c] \in Int BY <1>3 DEF TimeMaps
  <2>5. required' \in TimeMaps BY <2>1, <2>3, <2>4 DEF TimeMaps
  <2>0. Asked(source, wire, required, Order[k], times, ancestors) BY <1>5
  <2>6. BackwardTo(Order, source, wire, required', k - 1)
    <3>1. Lowered(source, Order[k], required, times, required') BY <2>2 DEF Lowered
    <3>2. k \in 1..Len(Order) /\ BackwardTo(Order, source, wire, required, k) BY <1>1
    <3>3. \A new \in TimeMaps : Lowered(source, Order[k], required, times, new)
                               => BackwardTo(Order, source, wire, new, k - 1)
      BY <1>1, <2>0, <3>2, BackwardStep
    <3>. QED BY <2>5, <3>1, <3>3
  <2>7. \A q \in Points, c \in Dirs :
          requiredAncestor'[q][c] = IF q \in Sources(source, at) /\ times[q][c] < required[q][c]
                                    THEN ancestors[q][c] ELSE requiredAncestor[q][c]
    BY <2>1
  <2>8. requiredAncestor' = [q \in Points |-> [c \in Dirs |-> requiredAncestor'[q][c]]] BY <2>1
  <2>9. \A q \in Points, c \in Dirs :
           IF q \in Sources(source, Order[k]) /\ times[q][c] < required[q][c]
           THEN required'[q][c] = times[q][c] /\ requiredAncestor'[q][c] = ancestors[q][c]
           ELSE required'[q][c] = required[q][c] /\ requiredAncestor'[q][c] = requiredAncestor[q][c]
    BY <2>2, <2>7
  <2>10. AskersTo(Order, source, wire, required', requiredAncestor', k - 1)
    <3>1. /\ k \in 1..Len(Order)
          /\ AskersTo(Order, source, wire, required, requiredAncestor, k)
      BY <1>1
    <3>2. \A new, newAnc :
            /\ \A q \in Points, c \in Dirs :
                 IF q \in Sources(source, Order[k]) /\ times[q][c] < required[q][c]
                 THEN new[q][c] = times[q][c] /\ newAnc[q][c] = ancestors[q][c]
                 ELSE new[q][c] = required[q][c] /\ newAnc[q][c] = requiredAncestor[q][c]
            /\ newAnc = [q \in Points |-> [c \in Dirs |-> newAnc[q][c]]]
            => AskersTo(Order, source, wire, new, newAnc, k - 1)
      BY <1>1, <2>0, <3>1, AskerStep
    <3>. QED BY <2>8, <2>9, <3>2
  <2>. QED BY <2>6, <2>10
<1>6. CASE IsSink(at)
  <2> DEFINE times == SinkTimes(source, wire, required, at)
             ancestors == SinkAncestors(source, at)
  <2>1. RequireOf(times, ancestors)
    BY <1>6 DEF PropagateRequires, RequireOfSource, SinkTimes, SinkAncestors
  <2>2. DOMAIN times = {source[at]} BY DEF SinkTimes
  <2>3. /\ Sources(source, at) = {source[at]}
        /\ Asked(source, wire, required, at, times, ancestors)
    BY <1>1, <1>2, <1>3, <1>4, <1>6, SinkAsks
  <2> HIDE DEF times, ancestors
  <2>. QED BY <1>5, <2>1, <2>2, <2>3
<1>7. CASE ~IsSink(at)
  <2> DEFINE inputs == {a[1] : a \in ArcsInto(source, at)}
             times == OutputTimes(source, required, at)
             ancestors == OutputAncestors(source, required, at)
  <2>1. RequireOf(times, ancestors)
    BY <1>4, <1>7 DEF PropagateRequires, RequireOfInputs, OutputTimes, OutputAncestors
  <2>2. DOMAIN times = inputs BY DEF OutputTimes
  <2>3. /\ Sources(source, at) = inputs
        /\ Asked(source, wire, required, at, times, ancestors)
    BY <1>1, <1>2, <1>3, <1>4, <1>7, OutputAsks
  <2> HIDE DEF times, inputs, ancestors
  <2>. QED BY <1>5, <2>1, <2>2, <2>3
<1>. QED BY <1>6, <1>7

-----------------------------------------------------------------------------
(***************************************************************************)
(* The stages of an analysis.                                              *)
(***************************************************************************)
LEMMA PlacesOfPass ==
  ASSUME RepeaterInv
  PROVE  /\ Len(Order) \in Nat /\ list.starts \in Nat /\ list.starts < Len(Order)
         /\ \A i \in 1..Len(Order) : /\ Order[i] \in Points /\ Order[i] # Root
                                     /\ At(Order, i) = Order[i]
                                     /\ list.next[Order[i]] = At(Order, i + 1)
                                     /\ list.prev[Order[i]] = At(Order, i - 1)
                                     /\ Order[i] \in StartPoints <=> i <= list.starts
         /\ \A i, j \in 1..Len(Order) : Order[i] = Order[j] => i = j
         /\ list.first = Order[list.starts + 1]
         /\ list.prev[Root] = Order[Len(Order)]
         /\ At(Order, Len(Order) + 1) = Root
         /\ \A p \in Points : InList(p) <=> \E i \in 1..Len(Order) : p = Order[i]
<1>1. Threads(list, Order) /\ Bounds(list, Order) BY DEF RepeaterInv, ListInv, Holds
<1>2. Order \in Seq(Points) /\ IsInjective(Order) BY <1>1 DEF Threads
<1>3. /\ Len(Order) \in Nat
      /\ \A i \in 1..Len(Order) : Order[i] \in Points /\ Order[i] \in ToSet(Order) /\ Order[i] # Root
      /\ \A i, j \in 1..Len(Order) : Order[i] = Order[j] => i = j
      /\ \A p \in ToSet(Order) : p \in Points /\ \E i \in 1..Len(Order) : p = Order[i]
      /\ \A i \in 1..Len(Order) : At(Order, i) = Order[i]
      /\ At(Order, Len(Order) + 1) = Root
  BY <1>2, SeqFacts
<1>4. Sectioned(Order, list.starts, list.ends) /\ list.first = Order[list.starts + 1]
  BY <1>1 DEF Bounds
<1>5. /\ list.starts \in Nat /\ list.starts < Len(Order)
      /\ \A i \in 1..Len(Order) : Order[i] \in StartPoints <=> i <= list.starts
  BY <1>3, <1>4 DEF Sectioned
<1>6. /\ \A i \in 0..Len(Order) : list.next[At(Order, i)] = At(Order, i + 1)
      /\ \A i \in 1..Len(Order) + 1 : list.prev[At(Order, i)] = At(Order, i - 1)
  BY <1>1 DEF Threads
<1>7. \A i \in 1..Len(Order) : /\ list.next[Order[i]] = At(Order, i + 1)
                               /\ list.prev[Order[i]] = At(Order, i - 1)
  <2> TAKE i \in 1..Len(Order)
  <2>1. i \in 0..Len(Order) /\ i \in 1..Len(Order) + 1 /\ At(Order, i) = Order[i] BY <1>3
  <2>. QED BY <1>6, <2>1
<1>8. list.prev[Root] = Order[Len(Order)]
  <2>1. /\ Len(Order) + 1 \in 1..Len(Order) + 1 /\ Len(Order) \in 1..Len(Order)
        /\ Len(Order) + 1 - 1 = Len(Order)
    BY <1>3, <1>5
  <2>. QED BY <1>3, <1>6, <2>1
<1>9. \A p \in Points : InList(p) <=> \E i \in 1..Len(Order) : p = Order[i]
  BY <1>1, <1>3, InListPoints
<1>. QED BY <1>3, <1>4, <1>5, <1>7, <1>8, <1>9

Arrived(k) ==
  /\ ForwardTo(Order, source, wire, arrival, k)
  /\ AncestorsTo(Order, source, wire, arrival, arrivalAncestor, k)

Demanded(k) ==
  /\ BackwardTo(Order, source, wire, required, k)
  /\ AskersTo(Order, source, wire, required, requiredAncestor, k)

(* The pass forwards begins at the first internal point, the pass backwards
   ends there. *)
TimingInv ==
  /\ stage \in {"edited", "arrivals", "requires", "timed"}
  /\ stage # "edited" => wire \in Wires(source)
  /\ stage = "arrivals" => \E k \in list.starts + 1 .. Len(Order) + 1 :
                             at = At(Order, k) /\ Arrived(k) /\ Demanded(Len(Order))
  /\ stage = "requires" => \E k \in list.starts + 1 .. Len(Order) :
                             at = Order[k] /\ Arrived(Len(Order) + 1) /\ Demanded(k)
  /\ stage = "timed" => Arrived(Len(Order) + 1) /\ Demanded(list.starts)

LEMMA AnalysisBegins == RepeaterInv /\ STA => TimingInv'
<1> SUFFICES ASSUME RepeaterInv, STA PROVE TimingInv' OBVIOUS
<1>0. PICK k \in 1..Len(Order) : k = list.starts + 1 BY PlacesOfPass
<1>1. Nets(Order, source) BY NetsAreRight
<1>2. list' = list /\ source' = source /\ Order' = Order BY OrderIsOrderIn DEF STA, rvars
<1>3. stage' = "arrivals" /\ wire' \in Wires(source) BY DEF STA, Wires
<1>4. k \in list.starts + 1 .. Len(Order) + 1 BY <1>0, PlacesOfPass
<1>5. at' = At(Order, k) BY <1>0, PlacesOfPass DEF STA
<1>6. DBL_MAX \in Nat /\ -DBL_MAX \in Int BY TimingAssumption
<1>7. arrival' \in TimeMaps
  <2>1. \A p \in StartPoints : StartTimes[p] \in [Dirs -> Int]
    BY <1>6, TimingAssumption DEF Times
  <2>2. \A p : Always(IF InList(p) THEN -DBL_MAX ELSE 0) \in [Dirs -> Int] BY <1>6 DEF Always
  <2>. QED BY <2>1, <2>2 DEF STA, TimeMaps
<1>8. required' \in TimeMaps
  <2>1. \A p \in EndPoints : EndTimes[p] \in [Dirs -> Int]
    BY <1>6, TimingAssumption DEF Times
  <2>2. \A p : Always(IF InList(p) THEN DBL_MAX ELSE 0) \in [Dirs -> Int] BY <1>6 DEF Always
  <2>. QED BY <2>1, <2>2 DEF STA, TimeMaps
<1>9. ASSUME NEW i \in 1..Len(Order), NEW d \in Dirs
      PROVE  /\ arrival'[Order[i]][d] = StartOf(Order[i], d)
             /\ required'[Order[i]][d] = EndOf(Order[i], d)
  <2>1. Order[i] \in Points /\ InList(Order[i]) BY PlacesOfPass
  <2>. QED BY <2>1 DEF STA, StartOf, EndOf, Always
<1>10. ASSUME NEW i \in 1..Len(Order), NEW d \in Dirs, i < k
       PROVE  /\ IsLatest(source, wire', arrival', Order[i], d, arrival'[Order[i]][d])
              /\ Within(arrival'[Order[i]][d], i)
  <2>1. Order[i] \in StartPoints /\ i \in Nat \ {0} BY <1>0, <1>10, PlacesOfPass
  <2>2. \A a \in ArcsOf(source) : a[2] # Order[i] BY <1>1, <2>1 DEF Nets
  <2>3. StartOf(Order[i], d) \in -Longest..Longest BY <2>1, DelayBounds DEF StartOf
  <2>4. arrival'[Order[i]][d] \in Int BY <1>7, <2>1 DEF TimeMaps, Points
  <2>. QED BY <1>9, <2>1, <2>2, <2>3, <2>4, WithinFacts DEF IsLatest
<1>11. ASSUME NEW i \in 1..Len(Order), NEW d \in Dirs, i >= k
       PROVE  arrival'[Order[i]][d] = -DBL_MAX
  <2>1. Order[i] \notin StartPoints BY <1>0, <1>11, PlacesOfPass
  <2>. QED BY <1>9, <2>1 DEF StartOf
<1>12. ForwardTo(Order, source, wire', arrival', k) BY <1>7, <1>10, <1>11 DEF ForwardTo
<1>13. BackwardTo(Order, source, wire', required', Len(Order))
  <2>1. \A q : ~BehindPlace(Order, Len(Order), q) BY PlacesOfPass DEF BehindPlace
  <2>2. \A i \in 1..Len(Order), c \in Dirs : required'[Order[i]][c] \in Int
    BY <1>8, PlacesOfPass DEF TimeMaps
  <2>. QED BY <1>8, <1>9, <2>1, <2>2 DEF BackwardTo, IsEarliest
<1>14. /\ \A p \in Points, d \in Dirs : arrivalAncestor'[p][d] = None /\ requiredAncestor'[p][d] = None
       /\ arrivalAncestor' \in AncestorMaps /\ requiredAncestor' \in AncestorMaps
       /\ None.point = Root
  BY PointSets DEF STA, AncestorMaps, Ancestors, None
<1>15. AncestorsTo(Order, source, wire', arrival', arrivalAncestor', k)
  <2>1. ASSUME NEW i \in 1..Len(Order), NEW d \in Dirs
        PROVE  /\ arrivalAncestor'[Order[i]][d] = None
               /\ IsAncestor(source, wire', arrival', Order[i], d, arrival'[Order[i]][d],
                             arrivalAncestor'[Order[i]][d])
    <3>1. arrivalAncestor'[Order[i]][d] = None BY <1>14, PlacesOfPass
    <3>. QED BY <1>9, <1>14, <3>1 DEF IsAncestor
  <2>. QED BY <1>14, <2>1 DEF AncestorsTo
<1>16. AskersTo(Order, source, wire', required', requiredAncestor', Len(Order))
  <2>1. ASSUME NEW i \in 1..Len(Order), NEW d \in Dirs
        PROVE  IsAsker(Order, source, wire', required', Order[i], d, Len(Order), required'[Order[i]][d],
                       requiredAncestor'[Order[i]][d])
    <3>1. requiredAncestor'[Order[i]][d] = None BY <1>14, PlacesOfPass
    <3>. QED BY <1>9, <1>14, <3>1 DEF IsAsker
  <2>. QED BY <1>14, <2>1 DEF AskersTo
<1>17. at' = At(Order', k) /\ Arrived(k)' /\ Demanded(Len(Order))'
  BY <1>2, <1>5, <1>12, <1>13, <1>15, <1>16 DEF Arrived, Demanded
<1>. QED BY <1>2, <1>3, <1>4, <1>17 DEF TimingInv, Wires

LEMMA ArrivalPass == RepeaterInv /\ TimingInv /\ PropagateArrivals => TimingInv'
<1> SUFFICES ASSUME RepeaterInv, TimingInv, PropagateArrivals PROVE TimingInv' OBVIOUS
<1>1. /\ list' = list /\ source' = source /\ Order' = Order /\ wire' = wire
      /\ required' = required /\ requiredAncestor' = requiredAncestor
      /\ stage = "arrivals" /\ stage' = "arrivals"
      /\ at # Root /\ at' = list.next[at]
  BY OrderIsOrderIn DEF PropagateArrivals, rvars
<1>2. PICK k \in list.starts + 1 .. Len(Order) + 1 :
        at = At(Order, k) /\ Arrived(k) /\ Demanded(Len(Order))
  BY <1>1 DEF TimingInv
<1>3. wire \in Wires(source) BY <1>1 DEF TimingInv
<1>4. k \in 1..Len(Order) /\ ~(k <= list.starts) BY <1>1, <1>2, PlacesOfPass DEF At
<1>5. at = Order[k] /\ Order[k] \notin StartPoints BY <1>2, <1>4, PlacesOfPass
<1>6. /\ ForwardTo(Order, source, wire, arrival', k + 1)
      /\ AncestorsTo(Order, source, wire, arrival', arrivalAncestor', k + 1)
  BY <1>2, <1>3, <1>4, <1>5, ArrivalStep DEF Arrived
<1>7. at' = At(Order, k + 1) BY <1>1, <1>4, <1>5, PlacesOfPass
<1>8. k + 1 \in list.starts + 1 .. Len(Order) + 1 BY <1>2, <1>4, PlacesOfPass
<1>9. Arrived(k + 1)' /\ Demanded(Len(Order))'
  BY <1>1, <1>2, <1>6 DEF Arrived, Demanded
<1>. QED BY <1>1, <1>3, <1>7, <1>8, <1>9 DEF TimingInv

LEMMA PassTurns == RepeaterInv /\ TimingInv /\ ArrivalsDone => TimingInv'
<1> SUFFICES ASSUME RepeaterInv, TimingInv, ArrivalsDone PROVE TimingInv' OBVIOUS
<1>1. /\ list' = list /\ source' = source /\ Order' = Order /\ wire' = wire
      /\ arrival' = arrival /\ required' = required
      /\ arrivalAncestor' = arrivalAncestor /\ requiredAncestor' = requiredAncestor
      /\ stage = "arrivals" /\ stage' = "requires"
      /\ at = Root /\ at' = list.prev[Root]
  BY OrderIsOrderIn DEF ArrivalsDone, rvars, results
<1>2. PICK k \in list.starts + 1 .. Len(Order) + 1 :
        at = At(Order, k) /\ Arrived(k) /\ Demanded(Len(Order))
  BY <1>1 DEF TimingInv
<1>3. wire \in Wires(source) BY <1>1 DEF TimingInv
<1>4. k = Len(Order) + 1
  <2>1. k \notin 1..Len(Order) BY <1>1, <1>2, PlacesOfPass
  <2>. QED BY <1>2, <2>1, PlacesOfPass
<1>5. at' = Order[Len(Order)] /\ Len(Order) \in list.starts + 1 .. Len(Order)
  BY <1>1, PlacesOfPass
<1>6. Arrived(Len(Order) + 1)' /\ Demanded(Len(Order))'
  BY <1>1, <1>2, <1>4 DEF Arrived, Demanded
<1>. QED BY <1>1, <1>3, <1>5, <1>6 DEF TimingInv

LEMMA RequiredPass == RepeaterInv /\ TimingInv /\ PropagateRequires => TimingInv'
<1> SUFFICES ASSUME RepeaterInv, TimingInv, PropagateRequires PROVE TimingInv' OBVIOUS
<1>1. /\ list' = list /\ source' = source /\ Order' = Order /\ wire' = wire
      /\ arrival' = arrival /\ arrivalAncestor' = arrivalAncestor /\ stage = "requires"
  BY OrderIsOrderIn DEF PropagateRequires, rvars
<1>2. PICK k \in list.starts + 1 .. Len(Order) :
        at = Order[k] /\ Arrived(Len(Order) + 1) /\ Demanded(k)
  BY <1>1 DEF TimingInv
<1>3. wire \in Wires(source) BY <1>1 DEF TimingInv
<1>4. k \in 1..Len(Order) BY <1>2, PlacesOfPass
<1>5. /\ BackwardTo(Order, source, wire, required', k - 1)
      /\ AskersTo(Order, source, wire, required', requiredAncestor', k - 1)
  BY <1>2, <1>3, <1>4, RequiredStep DEF Demanded
<1>6. /\ Arrived(Len(Order) + 1)'
      /\ \A j : j = k - 1 => /\ BackwardTo(Order', source', wire', required', j)
                             /\ AskersTo(Order', source', wire', required', requiredAncestor', j)
  BY <1>1, <1>2, <1>5 DEF Arrived
<1>7. CASE at = list.first
  <2>1. k = list.starts + 1
    <3>1. list.starts + 1 \in 1..Len(Order) BY PlacesOfPass
    <3>. QED BY <1>2, <1>4, <1>7, <3>1, PlacesOfPass
  <2>2. list.starts = k - 1 BY <2>1, PlacesOfPass
  <2>3. stage' = "timed" BY <1>7 DEF PropagateRequires
  <2>4. Demanded(list.starts)' BY <1>1, <1>6, <2>2 DEF Demanded
  <2>. QED BY <1>1, <1>3, <1>6, <2>3, <2>4 DEF TimingInv
<1>8. CASE at # list.first
  <2>1. k # list.starts + 1 BY <1>2, <1>8, PlacesOfPass
  <2>2. k - 1 \in list.starts + 1 .. Len(Order) /\ k - 1 \in 1..Len(Order)
    BY <1>2, <2>1, PlacesOfPass
  <2>3. stage' = "requires" /\ at' = list.prev[at] BY <1>1, <1>8 DEF PropagateRequires
  <2>4. at' = Order[k - 1] BY <1>2, <1>4, <2>2, <2>3, PlacesOfPass
  <2>5. Demanded(k - 1)' BY <1>6 DEF Demanded
  <2>. QED BY <1>1, <1>3, <1>6, <2>2, <2>3, <2>4, <2>5 DEF TimingInv
<1>. QED BY <1>7, <1>8

LEMMA TimingStep == RepeaterInv /\ TimingInv /\ [SNext]_svars => TimingInv'
<1> SUFFICES ASSUME RepeaterInv, TimingInv, [SNext]_svars PROVE TimingInv' OBVIOUS
<1>1. CASE STA BY <1>1, AnalysisBegins
<1>2. CASE PropagateArrivals BY <1>2, ArrivalPass
<1>3. CASE ArrivalsDone BY <1>3, PassTurns
<1>4. CASE PropagateRequires BY <1>4, RequiredPass
<1>5. CASE Edit
  <2>1. stage' = "edited" BY <1>5 DEF Edit
  <2>. QED BY <2>1 DEF TimingInv
<1>6. CASE UNCHANGED svars
  <2>1. /\ list' = list /\ source' = source /\ Order' = Order /\ wire' = wire
        /\ arrival' = arrival /\ required' = required
        /\ arrivalAncestor' = arrivalAncestor /\ requiredAncestor' = requiredAncestor
        /\ stage' = stage /\ at' = at
    BY <1>6, OrderIsOrderIn DEF svars, rvars, results
  <2>. QED BY <2>1 DEF TimingInv, Arrived, Demanded
<1>. QED BY <1>1, <1>2, <1>3, <1>4, <1>5, <1>6 DEF SNext

LEMMA TimingInvHolds == SSpec => []TimingInv
<1>1. SInit => TimingInv BY DEF SInit, TimingInv
<1>2. RepeaterInv /\ TimingInv /\ [SNext]_svars => TimingInv' BY TimingStep
<1>. QED BY <1>1, <1>2, RepeaterInvHolds, PTL DEF SSpec

-----------------------------------------------------------------------------
(***************************************************************************)
(* After both passes.                                                      *)
(***************************************************************************)
LEMMA LargestIsMax ==
  ASSUME NEW S \in SUBSET Int, NEW t \in S, \A u \in S : u <= t
  PROVE  Max(S) = t
<1>1. \E x \in S : \A y \in S : x >= y OBVIOUS
<1>2. Max(S) \in S /\ \A y \in S : Max(S) >= y BY <1>1 DEF Max
<1>3. Max(S) \in Int /\ t \in Int /\ Max(S) >= t /\ Max(S) <= t BY <1>2
<1>. QED BY <1>3

LEMMA SmallestIsMin ==
  ASSUME NEW S \in SUBSET Int, NEW t \in S, \A u \in S : t <= u
  PROVE  Min(S) = t
<1>1. \E x \in S : \A y \in S : x =< y OBVIOUS
<1>2. Min(S) \in S /\ \A y \in S : Min(S) <= y BY <1>1 DEF Min
<1>3. Min(S) \in Int /\ t \in Int /\ Min(S) <= t /\ Min(S) >= t BY <1>2
<1>. QED BY <1>3

LEMMA BoundsAreInt ==
  ASSUME NEW p, NEW d \in Dirs
  PROVE  StartOf(p, d) \in Int /\ EndOf(p, d) \in Int
BY TimingAssumption DEF StartOf, EndOf, Times

LEMMA TimingInvWorst == RepeaterInv /\ TimingInv => TimesAreWorst
<1> SUFFICES ASSUME RepeaterInv, TimingInv, stage = "timed",
                    NEW p \in Points, InList(p), NEW d \in Dirs
             PROVE  arrival[p][d] = Latest(p, d) /\ required[p][d] = Earliest(p, d)
  BY DEF TimesAreWorst
<1>1. PICK i \in 1..Len(Order) : p = Order[i] BY PlacesOfPass
<1>2. wire \in Wires(source) /\ Arrived(Len(Order) + 1) /\ Demanded(list.starts) BY DEF TimingInv
<1>3. Nets(Order, source) BY NetsAreRight
<1>4. arrival \in TimeMaps /\ required \in TimeMaps
  BY <1>2 DEF Arrived, Demanded, ForwardTo, BackwardTo
<1>5. ASSUME NEW a \in Arcs
      PROVE  /\ a \in ArcsOf(source) /\ a[1] \in Points /\ a[2] \in Points
             /\ BehindPlace(Order, list.starts, a[2])
  <2>1. a \in ArcsOf(source) BY <1>5, ParametersAreRight
  <2>2. PICK h, j \in 1..Len(Order) : h < j /\ a[1] = Order[h] /\ a[2] = Order[j]
    BY <1>3, <2>1, ArcPlaces
  <2>3. Order[j] \notin StartPoints BY <1>3, <2>1, <2>2 DEF Nets
  <2>4. j > list.starts /\ a[1] \in Points /\ a[2] \in Points
    <3>1. Order[h] \in Points /\ Order[j] \in Points BY PlacesOfPass
    <3>2. ~(j <= list.starts) /\ list.starts \in Nat /\ Len(Order) \in Nat BY <2>3, PlacesOfPass
    <3>. QED BY <2>2, <3>1, <3>2
  <2>5. BehindPlace(Order, list.starts, a[2]) BY <2>2, <2>4 DEF BehindPlace
  <2>. QED BY <2>1, <2>4, <2>5
<1>6. /\ \A a, c : Passes(a, c, d) = PassesOf(source, a, c, d)
      /\ \A a, c : Takes(a, c) = TakesOf(source, wire, a, c)
      /\ \A a : a \in Arcs <=> a \in ArcsOf(source)
      /\ \A a, c : Passes(a, d, c) = PassesOf(source, a, d, c)
  BY ParametersAreRight
<1>7. arrival[p][d] = Latest(p, d)
  <2> DEFINE S == {IF p \in StartPoints THEN StartTimes[p][d] ELSE -DBL_MAX}
      \cup UNION {{After(arrival[a[1]][c], Takes(a, d)) : c \in {c \in Dirs : Passes(a, c, d)}}
                    : a \in {a \in Arcs : a[2] = p}}
  <2>1. \A u : u \in S <=>
           \/ u = StartOf(p, d)
           \/ \E a \in ArcsOf(source), c \in Dirs :
                a[2] = p /\ PassesOf(source, a, c, d) /\ u = After(arrival[a[1]][c], TakesOf(source, wire, a, d))
    BY <1>6 DEF StartOf
  <2> HIDE DEF S
  <2>2. IsLatest(source, wire, arrival, p, d, arrival[p][d])
    <3>1. i < Len(Order) + 1 BY PlacesOfPass
    <3>. QED BY <1>1, <1>2, <3>1 DEF Arrived, ForwardTo
  <2>3. arrival[p][d] \in S BY <2>1, <2>2 DEF IsLatest
  <2>4. \A u \in S : u <= arrival[p][d] BY <2>1, <2>2 DEF IsLatest
  <2>5. S \in SUBSET Int
    <3> SUFFICES ASSUME NEW u \in S PROVE u \in Int OBVIOUS
    <3>1. CASE u = StartOf(p, d) BY <3>1, BoundsAreInt
    <3>2. ASSUME NEW a \in ArcsOf(source), NEW c \in Dirs,
                 u = After(arrival[a[1]][c], TakesOf(source, wire, a, d))
          PROVE  u \in Int
      <4>1. arrival[a[1]][c] \in Int BY <1>4, <1>5, <1>6 DEF TimeMaps
      <4>2. TakesOf(source, wire, a, d) \in Int BY <1>2, TakesBounds, ReachFacts
      <4>. QED BY <3>2, <4>1, <4>2 DEF After
    <3>. QED BY <2>1, <3>1, <3>2
  <2>6. Max(S) = arrival[p][d] BY <2>3, <2>4, <2>5, LargestIsMax
  <2>. QED BY <2>6 DEF Latest, S
<1>8. required[p][d] = Earliest(p, d)
  <2> DEFINE S == {IF p \in EndPoints THEN EndTimes[p][d] ELSE DBL_MAX}
      \cup UNION {{Before(required[a[2]][c], Takes(a, c)) : c \in {c \in Dirs : Passes(a, d, c)}}
                    : a \in {a \in Arcs : a[1] = p}}
  <2>1. \A u : u \in S <=>
           \/ u = EndOf(p, d)
           \/ \E a \in ArcsOf(source), c \in Dirs :
                /\ a[1] = p /\ BehindPlace(Order, list.starts, a[2]) /\ PassesOf(source, a, d, c)
                /\ u = Before(required[a[2]][c], TakesOf(source, wire, a, c))
    BY <1>5, <1>6 DEF EndOf
  <2> HIDE DEF S
  <2>2. IsEarliest(Order, source, wire, required, p, d, list.starts, required[p][d])
    BY <1>1, <1>2 DEF Demanded, BackwardTo
  <2>3. required[p][d] \in S BY <2>1, <2>2 DEF IsEarliest
  <2>4. \A u \in S : required[p][d] <= u BY <2>1, <2>2 DEF IsEarliest
  <2>5. S \in SUBSET Int
    <3> SUFFICES ASSUME NEW u \in S PROVE u \in Int OBVIOUS
    <3>1. CASE u = EndOf(p, d) BY <3>1, BoundsAreInt
    <3>2. ASSUME NEW a \in ArcsOf(source), NEW c \in Dirs,
                 u = Before(required[a[2]][c], TakesOf(source, wire, a, c))
          PROVE  u \in Int
      <4>1. required[a[2]][c] \in Int BY <1>4, <1>5, <1>6 DEF TimeMaps
      <4>. QED BY <1>2, <3>2, <4>1, BeforeIsInt
    <3>. QED BY <2>1, <3>1, <3>2
  <2>6. Min(S) = required[p][d] BY <2>3, <2>4, <2>5, SmallestIsMin
  <2>. QED BY <2>6 DEF Earliest, S
<1>. QED BY <1>7, <1>8

(***************************************************************************)
(* After every analysis the times of all points in the list are those of   *)
(* the longest ways, whatever buffering did to the nets and the list       *)
(* before: one pass over the list in each direction is enough, for every   *)
(* design (DelayPropagation.cpp, PropagateArrivals and PropagateRequires). *)
(***************************************************************************)
THEOREM TimesAlwaysWorst == SSpec => []TimesAreWorst
BY RepeaterInvHolds, TimingInvHolds, TimingInvWorst, PTL

-----------------------------------------------------------------------------
(***************************************************************************)
(* Critical paths: sequences that go from ancestor to ancestor.            *)
(***************************************************************************)
Visits == [point : Points, dir : Dirs]
AncestorAt(anc, v) == anc[v.point][v.dir]

Longer(anc, q) ==
  LET v == Last(q)
      a == anc[v.point][v.dir]
  IN IF a.point = Root THEN q ELSE Append(q, NextVisit(v, a))

LEMMA LongerFacts ==
  ASSUME NEW anc \in AncestorMaps, NEW q \in Seq(Visits), q # <<>>
  PROVE  /\ Longer(anc, q) \in Seq(Visits) /\ Longer(anc, q) # <<>>
         /\ Last(q) = q[Len(q)] /\ Last(q) \in Visits /\ AncestorAt(anc, Last(q)) \in Ancestors
         /\ AncestorAt(anc, Last(q)).point = Root => Longer(anc, q) = q
         /\ AncestorAt(anc, Last(q)).point # Root =>
              Longer(anc, q) = Append(q, NextVisit(Last(q), AncestorAt(anc, Last(q))))
<1>1. Len(q) \in Nat /\ Len(q) # 0 /\ Last(q) = q[Len(q)] BY DEF Last
<1>2. Last(q) \in Visits BY <1>1
<1>3. Last(q).point \in Points /\ Last(q).dir \in Dirs BY <1>2 DEF Visits
<1>4. AncestorAt(anc, Last(q)) \in Ancestors BY <1>3 DEF AncestorAt, AncestorMaps
<1>5. CASE AncestorAt(anc, Last(q)).point = Root
  <2>1. Longer(anc, q) = q BY <1>5 DEF Longer, AncestorAt
  <2>. QED BY <1>1, <1>2, <1>4, <1>5, <2>1
<1>6. CASE AncestorAt(anc, Last(q)).point # Root
  <2> DEFINE v == NextVisit(Last(q), AncestorAt(anc, Last(q)))
  <2>1. Longer(anc, q) = Append(q, v) BY <1>6 DEF Longer, AncestorAt
  <2>2. AncestorAt(anc, Last(q)).point \in Points BY <1>4, <1>6, PointSets DEF Ancestors
  <2>3. v \in Visits BY <1>3, <2>2 DEF NextVisit, Visit, Visits, Other, Dirs
  <2> HIDE DEF v
  <2>4. Append(q, v) \in Seq(Visits) /\ Append(q, v) # <<>> BY <2>3
  <2>. QED BY <1>1, <1>2, <1>4, <1>6, <2>1, <2>4 DEF v
<1>. QED BY <1>5, <1>6

LEMMA PathSteps ==
  ASSUME NEW anc \in AncestorMaps, NEW p \in Points, NEW d \in Dirs
  PROVE  \E path : /\ path \in [Nat -> {q \in Seq(Visits) : q # <<>>}]
                   /\ path[0] = <<Visit(p, d)>>
                   /\ \A n \in Nat : path[n + 1] = Longer(anc, path[n])
                   /\ ExtractPath(anc, p, d) = path[Cardinality(Points)]
<1> DEFINE S == {q \in Seq(Visits) : q # <<>>}
           x == <<Visit(p, d)>>
           F == [k \in Nat |-> [q \in S |-> Longer(anc, q)]]
           w == CHOOSE f : f = [n \in Nat |->
                  IF n = 0 THEN <<Visit(p, d)>>
                  ELSE LET before == f[n - 1]
                           v == Last(before)
                           a == anc[v.point][v.dir]
                       IN IF a.point = Root THEN before ELSE Append(before, NextVisit(v, a))]
<1>1. x \in S BY DEF Visit, Visits
<1>2. \A q \in S : Longer(anc, q) \in S BY LongerFacts
<1>3. F \in [Nat -> [S -> S]] BY <1>2
<1>4. \A k \in Nat, q \in S : F[k][q] = Longer(anc, q) OBVIOUS
<1> HIDE DEF F, S, x
<1>5. PICK f : Iterates(f, x, F, S) BY <1>1, <1>3, RecursionExists
<1>6. f \in [Nat -> S] /\ f[0] = x BY <1>5 DEF Iterates
<1>7. \A n \in Nat : n # 0 => n - 1 \in Nat /\ f[n] = Longer(anc, f[n - 1])
  <2> SUFFICES ASSUME NEW n \in Nat, n # 0 PROVE n - 1 \in Nat /\ f[n] = Longer(anc, f[n - 1])
    OBVIOUS
  <2>1. n - 1 \in Nat OBVIOUS
  <2>2. f[n] = F[n][f[n - 1]] BY <1>5 DEF Iterates
  <2>3. f[n - 1] \in S BY <1>6, <2>1
  <2>. QED BY <1>4, <2>1, <2>2, <2>3
<1>8. f = [n \in Nat |-> IF n = 0 THEN <<Visit(p, d)>> ELSE Longer(anc, f[n - 1])]
  BY <1>6, <1>7 DEF x
<1>9. w = [n \in Nat |-> IF n = 0 THEN <<Visit(p, d)>> ELSE Longer(anc, w[n - 1])]
  BY <1>8 DEF Longer
<1>10. ExtractPath(anc, p, d) = w[Cardinality(Points)] BY DEF ExtractPath
<1> HIDE DEF w
<1>11. w[0] = x BY <1>9 DEF x
<1>12. \A n \in Nat : w[n + 1] = Longer(anc, w[n])
  <2> TAKE n \in Nat
  <2>1. n + 1 \in Nat /\ n + 1 # 0 /\ (n + 1) - 1 = n OBVIOUS
  <2>2. w[n + 1] = Longer(anc, w[(n + 1) - 1]) BY <1>9, <2>1
  <2>. QED BY <2>1, <2>2
<1>13. \A n \in Nat : w[n] \in S
  <2> SUFFICES ASSUME NEW n \in Nat PROVE w[n] \in S OBVIOUS
  <2> DEFINE K == {k \in Nat : w[k] \in S}
  <2>1. 0 \in K BY <1>1, <1>11
  <2>2. \A k \in 0..n : k \in K /\ k + 1 \in 0..n => k + 1 \in K BY <1>2, <1>12
  <2> HIDE DEF K
  <2>3. 0..n \subseteq K BY <2>1, <2>2, Climb
  <2>. QED BY <2>3 DEF K
<1>14. w \in [Nat -> S]
  <2>1. w = [n \in Nat |-> w[n]] BY <1>9
  <2>. QED BY <1>13, <2>1
<1>. QED BY <1>10, <1>11, <1>12, <1>14 DEF S, x

(* q goes from v along the ancestors, and stays in Good. *)
Chain(anc, Good, q, v) ==
  /\ q \in Seq(Good) /\ Len(q) \in Nat \ {0} /\ q[1] = v
  /\ \A i \in 1..(Len(q) - 1) : /\ AncestorAt(anc, q[i]).point # Root
                                /\ q[i + 1] = NextVisit(q[i], AncestorAt(anc, q[i]))

(* When ancestors lead down in rank, as many steps as there are points are enough. *)
LEMMA Extracted ==
  ASSUME NEW anc \in AncestorMaps, NEW Good \in SUBSET Visits,
         NEW rank \in [Good -> 1..Cardinality(Points)],
         NEW p \in Points, NEW d \in Dirs, Visit(p, d) \in Good,
         \A v \in Good : AncestorAt(anc, v).point # Root =>
           /\ NextVisit(v, AncestorAt(anc, v)) \in Good
           /\ rank[NextVisit(v, AncestorAt(anc, v))] < rank[v]
  PROVE  /\ Chain(anc, Good, ExtractPath(anc, p, d), Visit(p, d))
         /\ AncestorAt(anc, Last(ExtractPath(anc, p, d))).point = Root
<1> DEFINE N == Cardinality(Points)
           v0 == Visit(p, d)
           Ends(q) == AncestorAt(anc, Last(q)).point = Root
<1>1. PICK path : /\ path \in [Nat -> {q \in Seq(Visits) : q # <<>>}]
                  /\ path[0] = <<v0>>
                  /\ \A n \in Nat : path[n + 1] = Longer(anc, path[n])
                  /\ ExtractPath(anc, p, d) = path[N]
  BY PathSteps
<1>2. N \in Nat BY PointSets
<1> HIDE DEF N, v0
<1> DEFINE K == {n \in Nat : /\ Chain(anc, Good, path[n], v0)
                             /\ Ends(path[n]) \/ rank[Last(path[n])] <= N - n}
<1>3. 0 \in K
  <2>1. v0 \in Good BY DEF v0
  <2>2. Chain(anc, Good, path[0], v0) BY <1>1, <2>1 DEF Chain
  <2>3. Last(path[0]) = v0 BY <1>1 DEF Last
  <2>4. rank[v0] <= N - 0 BY <1>2, <2>1 DEF N
  <2>. QED BY <2>2, <2>3, <2>4
<1>4. ASSUME NEW n \in Nat, n \in K PROVE n + 1 \in K
  <2> DEFINE q == path[n]
             a == AncestorAt(anc, Last(q))
             v == NextVisit(Last(q), a)
  <2>1. q \in Seq(Visits) /\ q # <<>> BY <1>1
  <2>2. Chain(anc, Good, q, v0) /\ (Ends(q) \/ rank[Last(q)] <= N - n) BY <1>4
  <2>3. path[n + 1] = Longer(anc, q) BY <1>1
  <2>4. Last(q) = q[Len(q)] /\ Len(q) \in Nat \ {0} /\ q \in Seq(Good) BY <2>1, <2>2, LongerFacts DEF Chain
  <2>5. Last(q) \in Good BY <2>4
  <2>6. CASE Ends(q)
    <3>1. path[n + 1] = q BY <2>1, <2>3, <2>6, LongerFacts
    <3>. QED BY <2>2, <2>6, <3>1
  <2>7. CASE ~Ends(q)
    <3>1. path[n + 1] = Append(q, v) BY <2>1, <2>3, <2>7, LongerFacts
    <3>2. v \in Good /\ rank[v] < rank[Last(q)] BY <2>5, <2>7
    <3>3. rank[v] \in 1..N /\ rank[Last(q)] \in 1..N BY <2>5, <3>2 DEF N
    <3> HIDE DEF v
    <3>4. /\ Append(q, v) \in Seq(Good) /\ Len(Append(q, v)) = Len(q) + 1
          /\ \A i \in 1..Len(q) : Append(q, v)[i] = q[i]
          /\ Append(q, v)[Len(q) + 1] = v
      BY <2>4, <3>2
    <3>5. ASSUME NEW i \in 1..(Len(q) + 1 - 1)
          PROVE  /\ AncestorAt(anc, Append(q, v)[i]).point # Root
                 /\ Append(q, v)[i + 1] = NextVisit(Append(q, v)[i], AncestorAt(anc, Append(q, v)[i]))
      <4>1. i \in 1..Len(q) BY <2>4
      <4>2. CASE i = Len(q)
        <5>1. Append(q, v)[i] = Last(q) /\ Append(q, v)[i + 1] = v BY <2>4, <3>4, <4>1, <4>2
        <5>. QED BY <2>7, <5>1 DEF v
      <4>3. CASE i # Len(q)
        <5>1. i \in 1..(Len(q) - 1) /\ i + 1 \in 1..Len(q) BY <2>4, <4>1, <4>3
        <5>2. Append(q, v)[i] = q[i] /\ Append(q, v)[i + 1] = q[i + 1] BY <3>4, <5>1, <4>1
        <5>. QED BY <2>2, <5>1, <5>2 DEF Chain
      <4>. QED BY <4>2, <4>3
    <3>6. Append(q, v)[1] = v0 BY <2>2, <2>4, <3>4 DEF Chain
    <3>7. Last(Append(q, v)) = v BY <3>4 DEF Last
    <3>8. rank[v] <= N - (n + 1) BY <1>2, <2>2, <2>7, <3>2, <3>3
    <3>9. PICK r : r = Append(q, v) OBVIOUS
    <3>10. r \in Seq(Good) /\ Len(r) = Len(q) + 1 /\ r[1] = v0 /\ Last(r) = v /\ path[n + 1] = r
      BY <3>1, <3>4, <3>6, <3>7, <3>9
    <3>11. \A i \in 1..(Len(q) + 1 - 1) : /\ AncestorAt(anc, r[i]).point # Root
                                          /\ r[i + 1] = NextVisit(r[i], AncestorAt(anc, r[i]))
      BY <3>5, <3>9
    <3>12. Chain(anc, Good, r, v0)
      <4>1. Len(r) \in Nat \ {0} BY <2>4, <3>10
      <4>. QED BY <3>10, <3>11, <4>1 DEF Chain
    <3>13. Chain(anc, Good, path[n + 1], v0) /\ rank[Last(path[n + 1])] <= N - (n + 1)
      BY <3>8, <3>10, <3>12
    <3>. QED BY <3>13
  <2>. QED BY <2>6, <2>7
<1> HIDE DEF K
<1>5. \A n \in 0..N : n \in K /\ n + 1 \in 0..N => n + 1 \in K BY <1>2, <1>4
<1>6. 0..N \subseteq K BY <1>2, <1>3, <1>5, Climb
<1>7. N \in K BY <1>2, <1>6
<1>8. Chain(anc, Good, path[N], v0) /\ (Ends(path[N]) \/ rank[Last(path[N])] <= N - N) BY <1>7 DEF K
<1>9. Ends(path[N])
  <2>1. Last(path[N]) \in Good BY <1>8 DEF Chain, Last
  <2>2. rank[Last(path[N])] \in 1..N BY <2>1 DEF N
  <2>. QED BY <1>2, <1>8, <2>2
<1>. QED BY <1>1, <1>8, <1>9 DEF v0

(* time says when a signal is at each point of a path of n points. *)
RunsAlong(path, n, time) ==
  /\ time \in [1..n -> Int] /\ time[1] = StartTimes[path[1].point][path[1].dir]
  /\ \A j \in 1..(n - 1) : time[j + 1] = time[j] + Takes(Step(path, j), path[j + 1].dir)

LEMMA TimeIsAlong ==
  ASSUME NEW path, NEW n \in Nat \ {0}, Len(path) = n, NEW time, RunsAlong(path, n, time)
  PROVE  TimeAlong(path, n) = time[n]
<1>0. /\ time \in [1..n -> Int] /\ time[1] = StartTimes[path[1].point][path[1].dir]
      /\ \A j \in 1..(n - 1) : time[j + 1] = time[j] + Takes(Step(path, j), path[j + 1].dir)
  BY DEF RunsAlong
<1> DEFINE w == CHOOSE f : f = [j \in 1..Len(path) |->
                  IF j = 1 THEN StartTimes[path[1].point][path[1].dir]
                  ELSE f[j - 1] + Takes(Step(path, j - 1), path[j].dir)]
<1>1. TimeAlong(path, n) = w[n] BY DEF TimeAlong
<1>2. \A j \in 1..n : time[j] = IF j = 1 THEN StartTimes[path[1].point][path[1].dir]
                                ELSE time[j - 1] + Takes(Step(path, j - 1), path[j].dir)
  <2> TAKE j \in 1..n
  <2>1. CASE j = 1 BY <1>0, <2>1
  <2>2. CASE j # 1
    <3>1. j - 1 \in 1..(n - 1) /\ (j - 1) + 1 = j BY <2>2
    <3>2. time[(j - 1) + 1] = time[j - 1] + Takes(Step(path, j - 1), path[(j - 1) + 1].dir)
      BY <1>0, <3>1
    <3>. QED BY <2>2, <3>1, <3>2
  <2>. QED BY <2>1, <2>2
<1>3. time = [j \in 1..Len(path) |-> IF j = 1 THEN StartTimes[path[1].point][path[1].dir]
                                ELSE time[j - 1] + Takes(Step(path, j - 1), path[j].dir)]
  BY <1>0, <1>2
<1>4. w = [j \in 1..Len(path) |-> IF j = 1 THEN StartTimes[path[1].point][path[1].dir]
                                ELSE w[j - 1] + Takes(Step(path, j - 1), path[j].dir)]
  BY <1>3
<1> HIDE DEF w
<1> DEFINE K == {k \in Nat : k + 1 \in 1..n => w[k + 1] = time[k + 1]}
<1>5. 0 \in K BY <1>2, <1>4
<1>6. \A k \in 0..(n - 1) : k \in K /\ k + 1 \in 0..(n - 1) => k + 1 \in K
  <2> SUFFICES ASSUME NEW k \in 0..(n - 1), k \in K, k + 1 \in 0..(n - 1), k + 1 + 1 \in 1..n
               PROVE  w[k + 1 + 1] = time[k + 1 + 1]
    OBVIOUS
  <2>1. k + 1 \in 1..n /\ (k + 1 + 1) - 1 = k + 1 /\ k + 1 + 1 # 1 OBVIOUS
  <2>2. w[k + 1] = time[k + 1] BY <2>1
  <2>3. w[k + 1 + 1] = w[(k + 1 + 1) - 1] + Takes(Step(path, (k + 1 + 1) - 1), path[k + 1 + 1].dir)
    BY <1>4, <2>1
  <2>4. time[k + 1 + 1] = time[(k + 1 + 1) - 1] + Takes(Step(path, (k + 1 + 1) - 1), path[k + 1 + 1].dir)
    BY <1>2, <2>1
  <2>. QED BY <2>1, <2>2, <2>3, <2>4
<1> HIDE DEF K
<1>7. n - 1 \in Nat /\ (n - 1) + 1 = n OBVIOUS
<1>8. 0..(n - 1) \subseteq K BY <1>5, <1>6, <1>7, Climb
<1>9. n - 1 \in K BY <1>7, <1>8
<1>10. w[n] = time[n] BY <1>7, <1>9 DEF K
<1>. QED BY <1>1, <1>10

-----------------------------------------------------------------------------
(***************************************************************************)
(* The times after an analysis.                                            *)
(***************************************************************************)
Timed(s, src, w, arr, req, arrAnc, reqAnc) ==
  /\ Nets(s, src) /\ w \in Wires(src)
  /\ ForwardTo(s, src, w, arr, Len(s) + 1) /\ AncestorsTo(s, src, w, arr, arrAnc, Len(s) + 1)
  /\ BackwardTo(s, src, w, req, 0) /\ AskersTo(s, src, w, req, reqAnc, 0)

LEMMA TimedState ==
  ASSUME RepeaterInv, TimingInv, stage = "timed"
  PROVE  Timed(Order, source, wire, arrival, required, arrivalAncestor, requiredAncestor)
<1>1. Nets(Order, source) BY NetsAreRight
<1>2. wire \in Wires(source) /\ Arrived(Len(Order) + 1) /\ Demanded(list.starts) BY DEF TimingInv
<1>3. /\ Len(Order) \in Nat /\ list.starts \in Nat
      /\ \A i \in 1..Len(Order) : Order[i] \in StartPoints <=> i <= list.starts
  BY PlacesOfPass
<1>4. \A q : BehindPlace(Order, list.starts, q) => BehindPlace(Order, 0, q) BY <1>3 DEF BehindPlace
<1>5. \A a \in ArcsOf(source) : BehindPlace(Order, list.starts, a[2])
  <2> TAKE a \in ArcsOf(source)
  <2>1. PICK h, j \in 1..Len(Order) : h < j /\ a[1] = Order[h] /\ a[2] = Order[j]
    BY <1>1, ArcPlaces
  <2>2. ~(j <= list.starts) BY <1>1, <1>3, <2>1 DEF Nets
  <2>3. j > list.starts BY <1>3, <2>2
  <2>. QED BY <2>1, <2>3 DEF BehindPlace
<1>6. BackwardTo(Order, source, wire, required, 0)
  BY <1>2, <1>4, <1>5 DEF Demanded, BackwardTo, IsEarliest
<1>7. AskersTo(Order, source, wire, required, requiredAncestor, 0)
  BY <1>2, <1>4 DEF Demanded, AskersTo, IsAsker
<1>. QED BY <1>1, <1>2, <1>6, <1>7 DEF Timed, Arrived

LEMMA TimedFacts ==
  ASSUME NEW s, NEW src, NEW w, NEW arr, NEW req, NEW arrAnc, NEW reqAnc,
         Timed(s, src, w, arr, req, arrAnc, reqAnc)
  PROVE  /\ Len(s) \in Nat /\ Cardinality(Points) \in Nat /\ Len(s) <= Cardinality(Points)
         /\ \A i \in 1..Len(s) : s[i] \in Points /\ s[i] # Root
         /\ \A i, j \in 1..Len(s) : s[i] = s[j] => i = j
         /\ \A i \in 1..Len(s), d \in Dirs :
              /\ IsLatest(src, w, arr, s[i], d, arr[s[i]][d]) /\ Within(arr[s[i]][d], i)
              /\ IsAncestor(src, w, arr, s[i], d, arr[s[i]][d], arrAnc[s[i]][d])
              /\ IsEarliest(s, src, w, req, s[i], d, 0, req[s[i]][d]) /\ req[s[i]][d] \in Int
              /\ IsAsker(s, src, w, req, s[i], d, 0, req[s[i]][d], reqAnc[s[i]][d])
              /\ arrAnc[s[i]][d] \in Ancestors /\ reqAnc[s[i]][d] \in Ancestors
         /\ \A a \in ArcsOf(src) : /\ a = <<a[1], a[2]>> /\ BehindPlace(s, 0, a[2])
                                   /\ \E h, j \in 1..Len(s) : h < j /\ a[1] = s[h] /\ a[2] = s[j]
         /\ \A a, d : d \in Dirs => TakesOf(src, w, a, d) \in -Longest..Longest
<1>1. Nets(s, src) /\ w \in Wires(src) BY DEF Timed
<1>2. s \in Seq(Points) /\ IsInjective(s) BY <1>1 DEF Nets
<1>3. /\ Len(s) \in Nat /\ Cardinality(Points) \in Nat /\ Len(s) <= Cardinality(Points)
      /\ \A i \in 1..Len(s) : s[i] \in Points /\ s[i] # Root
      /\ \A i, j \in 1..Len(s) : s[i] = s[j] => i = j
  BY <1>2, SeqFacts, PointSets
<1>4. \A i \in 1..Len(s) : i < Len(s) + 1 BY <1>3
<1>5. ASSUME NEW i \in 1..Len(s), NEW d \in Dirs
      PROVE  /\ IsLatest(src, w, arr, s[i], d, arr[s[i]][d]) /\ Within(arr[s[i]][d], i)
             /\ IsAncestor(src, w, arr, s[i], d, arr[s[i]][d], arrAnc[s[i]][d])
             /\ IsEarliest(s, src, w, req, s[i], d, 0, req[s[i]][d]) /\ req[s[i]][d] \in Int
             /\ IsAsker(s, src, w, req, s[i], d, 0, req[s[i]][d], reqAnc[s[i]][d])
             /\ arrAnc[s[i]][d] \in Ancestors /\ reqAnc[s[i]][d] \in Ancestors
  <2>1. IsLatest(src, w, arr, s[i], d, arr[s[i]][d]) /\ Within(arr[s[i]][d], i)
    BY <1>4 DEF Timed, ForwardTo
  <2>2. IsAncestor(src, w, arr, s[i], d, arr[s[i]][d], arrAnc[s[i]][d])
    BY <1>4 DEF Timed, AncestorsTo
  <2>3. req \in TimeMaps /\ IsEarliest(s, src, w, req, s[i], d, 0, req[s[i]][d]) BY DEF Timed, BackwardTo
  <2>4. IsAsker(s, src, w, req, s[i], d, 0, req[s[i]][d], reqAnc[s[i]][d]) BY DEF Timed, AskersTo
  <2>5. req[s[i]][d] \in Int BY <1>3, <2>3 DEF TimeMaps
  <2>6. arrAnc \in AncestorMaps /\ reqAnc \in AncestorMaps BY DEF Timed, AncestorsTo, AskersTo
  <2>7. arrAnc[s[i]][d] \in Ancestors /\ reqAnc[s[i]][d] \in Ancestors BY <1>3, <2>6 DEF AncestorMaps
  <2>. QED BY <2>1, <2>2, <2>3, <2>4, <2>5, <2>7
<1>6. ASSUME NEW a \in ArcsOf(src)
      PROVE  /\ a = <<a[1], a[2]>> /\ BehindPlace(s, 0, a[2])
             /\ \E h, j \in 1..Len(s) : h < j /\ a[1] = s[h] /\ a[2] = s[j]
  <2>1. \E h, j \in 1..Len(s) : h < j /\ a[1] = s[h] /\ a[2] = s[j] BY <1>1, ArcPlaces
  <2>2. BehindPlace(s, 0, a[2]) BY <1>3, <2>1 DEF BehindPlace
  <2>. QED BY <1>1, <2>1, <2>2 DEF Nets
<1>7. \A a, d : d \in Dirs => TakesOf(src, w, a, d) \in -Longest..Longest BY <1>1, TakesBounds
<1>. QED BY <1>3, <1>5, <1>6, <1>7

LEMMA PassesSome ==
  ASSUME NEW s, NEW src, Nets(s, src), NEW a \in ArcsOf(src), NEW d \in Dirs
  PROVE  (\E c \in Dirs : PassesOf(src, a, c, d)) /\ (\E c \in Dirs : PassesOf(src, a, d, c))
<1>1. CASE a[2] \in DOMAIN src BY <1>1 DEF PassesOf
<1>2. CASE a[2] \notin DOMAIN src
  <2>1. a \in ArcsInto(src, a[2]) BY <1>2 DEF Nets, ArcsInto
  <2>2. Sense(a) \in {"positive", "negative", "non"} BY <2>1, CellArcFacts
  <2>3. Other(d) \in Dirs /\ Other(d) # d BY DEF Other, Dirs
  <2>4. CASE Sense(a) = "positive" BY <1>2, <2>4 DEF PassesOf
  <2>5. CASE Sense(a) = "negative"
    <3>1. PassesOf(src, a, Other(d), d) /\ PassesOf(src, a, d, Other(d))
      BY <1>2, <2>3, <2>5 DEF PassesOf
    <3>. QED BY <2>3, <3>1
  <2>6. CASE Sense(a) = "non"
    <3>1. PassesOf(src, a, d, d) BY <1>2, <2>6 DEF PassesOf
    <3>. QED BY <3>1
  <2>. QED BY <2>2, <2>4, <2>5, <2>6
<1>. QED BY <1>1, <1>2

(* A signal that arrives at all arrives in both directions. *)
LEMMA ReachedBothWays ==
  ASSUME NEW s, NEW src, NEW w, NEW arr, NEW req, NEW arrAnc, NEW reqAnc,
         Timed(s, src, w, arr, req, arrAnc, reqAnc)
  PROVE  \A i \in 1..Len(s), c, d \in Dirs : arr[s[i]][c] # -DBL_MAX => arr[s[i]][d] # -DBL_MAX
<1> DEFINE K == {i \in 1..Len(s) : \E c, d \in Dirs : arr[s[i]][c] # -DBL_MAX /\ arr[s[i]][d] = -DBL_MAX}
<1> SUFFICES ASSUME K # {} PROVE FALSE OBVIOUS
<1>1. K \subseteq Nat OBVIOUS
<1>2. PICK k \in K : \A j \in K : k <= j BY <1>1, LeastNumber
<1>3. PICK c, d \in Dirs : arr[s[k]][c] # -DBL_MAX /\ arr[s[k]][d] = -DBL_MAX BY <1>2
<1>4. k \in 1..Len(s) /\ IsLatest(src, w, arr, s[k], c, arr[s[k]][c])
      /\ IsLatest(src, w, arr, s[k], d, arr[s[k]][d])
  BY <1>2, TimedFacts
<1>5. /\ Longest \in Nat /\ DBL_MAX \in Nat /\ Longest < DBL_MAX
  <2>1. Reach(0) \in Nat /\ Reach(0) + Longest < DBL_MAX /\ Longest \in Nat /\ DBL_MAX \in Nat
    BY ReachFacts, PointSets
  <2>. QED BY <2>1
<1>6. CASE arr[s[k]][c] = StartOf(s[k], c)
  <2>1. s[k] \in StartPoints BY <1>3, <1>6 DEF StartOf
  <2>2. StartOf(s[k], d) \in -Longest..Longest BY <2>1, DelayBounds DEF StartOf
  <2>3. StartOf(s[k], d) <= -DBL_MAX BY <1>3, <1>4 DEF IsLatest
  <2>. QED BY <1>5, <2>2, <2>3
<1>7. ASSUME NEW a \in ArcsOf(src), NEW e \in Dirs, a[2] = s[k],
             arr[s[k]][c] = After(arr[a[1]][e], TakesOf(src, w, a, c))
      PROVE  FALSE
  <2>1. PICK h, j \in 1..Len(s) : h < j /\ a[1] = s[h] /\ a[2] = s[j] BY TimedFacts
  <2>2. j = k
    <3>1. s[j] = s[k] BY <1>7, <2>1
    <3>. QED BY <1>4, <3>1, TimedFacts
  <2>3. h < k /\ h \in 0..Cardinality(Points) /\ h \in 1..Len(s) BY <2>1, <2>2, TimedFacts
  <2>4. \A b \in Dirs : Within(arr[a[1]][b], h) BY <2>1, TimedFacts
  <2>5. \A b \in Dirs : /\ TakesOf(src, w, a, b) \in -Longest..Longest BY TimedFacts
  <2>6. arr[a[1]][e] # -DBL_MAX BY <1>3, <1>7, <2>3, <2>4, <2>5, AfterFacts
  <2>7. h \notin K BY <1>2, <2>3
  <2>8. PICK b \in Dirs : PassesOf(src, a, b, d) BY PassesSome DEF Timed
  <2>9. arr[a[1]][b] # -DBL_MAX BY <2>1, <2>6, <2>7
  <2>10. /\ After(arr[a[1]][b], TakesOf(src, w, a, d)) # -DBL_MAX
         /\ -DBL_MAX <= After(arr[a[1]][b], TakesOf(src, w, a, d))
         /\ Within(After(arr[a[1]][b], TakesOf(src, w, a, d)), h + 1)
    BY <2>3, <2>4, <2>5, <2>9, AfterFacts
  <2>11. After(arr[a[1]][b], TakesOf(src, w, a, d)) <= -DBL_MAX
    BY <1>3, <1>4, <1>7, <2>8 DEF IsLatest
  <2>. QED BY <1>5, <2>10, <2>11 DEF Within
<1>. QED BY <1>4, <1>6, <1>7 DEF IsLatest

LEMMA BeforeFacts ==
  ASSUME NEW k \in 0..Cardinality(Points), NEW t \in Int, Within(-t, k), NEW delay \in -Longest..Longest
  PROVE  /\ Before(t, delay) \in Int /\ Within(-Before(t, delay), k + 1) /\ Before(t, delay) <= DBL_MAX
         /\ Before(t, delay) = DBL_MAX <=> t = DBL_MAX
         /\ t # DBL_MAX => Before(t, delay) = t - delay
<1>1. DBL_MAX \in Nat /\ Longest \in Nat BY ReachFacts
<1>2. delay \in Int BY <1>1
<1>3. Before(t, delay) \in Int /\ -Before(t, delay) = After(-t, delay)
  BY <1>1, <1>2 DEF Before, After
<1>4. /\ Within(After(-t, delay), k + 1) /\ -DBL_MAX <= After(-t, delay)
      /\ After(-t, delay) = -DBL_MAX <=> -t = -DBL_MAX
      /\ -t # -DBL_MAX => After(-t, delay) = -t + delay
  BY AfterFacts
<1>. QED BY <1>1, <1>2, <1>3, <1>4

(* Requirements do not come near the mark either. *)
LEMMA RequiredWithin ==
  ASSUME NEW s, NEW src, NEW w, NEW arr, NEW req, NEW arrAnc, NEW reqAnc,
         Timed(s, src, w, arr, req, arrAnc, reqAnc)
  PROVE  \A i \in 1..Len(s), c \in Dirs : Within(-req[s[i]][c], Len(s) - i + 1)
<1> DEFINE K == {Len(s) - i : i \in {i \in 1..Len(s) : \E c \in Dirs : ~Within(-req[s[i]][c], Len(s) - i + 1)}}
<1>0. Len(s) \in Nat BY TimedFacts
<1> SUFFICES ASSUME K # {} PROVE FALSE OBVIOUS
<1>1. K \subseteq Nat BY <1>0
<1>2. PICK k \in K : \A j \in K : k <= j BY <1>1, LeastNumber
<1>3. PICK i \in 1..Len(s) : k = Len(s) - i /\ \E c \in Dirs : ~Within(-req[s[i]][c], Len(s) - i + 1)
  BY <1>2
<1>4. PICK c \in Dirs : ~Within(-req[s[i]][c], Len(s) - i + 1) BY <1>3
<1>5. \A j \in 1..Len(s) : j > i => \A d \in Dirs : Within(-req[s[j]][d], Len(s) - j + 1)
  <2> SUFFICES ASSUME NEW j \in 1..Len(s), j > i, NEW d \in Dirs, ~Within(-req[s[j]][d], Len(s) - j + 1)
               PROVE  FALSE
    OBVIOUS
  <2>1. Len(s) - j \in K OBVIOUS
  <2>2. k <= Len(s) - j BY <1>2, <2>1
  <2>. QED BY <1>0, <1>3, <2>2
<1> HIDE DEF K
<1>6. Len(s) - i + 1 \in Nat \ {0} BY <1>0
<1>7. IsEarliest(s, src, w, req, s[i], c, 0, req[s[i]][c]) BY TimedFacts
<1>8. CASE req[s[i]][c] = EndOf(s[i], c)
  <2>1. Longest \in Nat /\ DBL_MAX \in Nat BY ReachFacts
  <2>2. CASE s[i] \in EndPoints
    <3>1. req[s[i]][c] \in -Longest..Longest BY <1>8, <2>2, DelayBounds DEF EndOf
    <3>2. -req[s[i]][c] \in -Longest..Longest BY <2>1, <3>1
    <3>. QED BY <1>4, <1>6, <3>2, WithinFacts
  <2>3. CASE s[i] \notin EndPoints
    <3>1. req[s[i]][c] = DBL_MAX BY <1>8, <2>3 DEF EndOf
    <3>2. Within(-DBL_MAX, Len(s) - i + 1) BY <1>6, WithinFacts
    <3>. QED BY <1>4, <3>1, <3>2
  <2>. QED BY <2>2, <2>3
<1>9. ASSUME NEW a \in ArcsOf(src), NEW d \in Dirs, a[1] = s[i],
             req[s[i]][c] = Before(req[a[2]][d], TakesOf(src, w, a, d))
      PROVE  FALSE
  <2>1. PICK h, j \in 1..Len(s) : h < j /\ a[1] = s[h] /\ a[2] = s[j] BY TimedFacts
  <2>2. h = i
    <3>1. s[h] = s[i] BY <1>9, <2>1
    <3>. QED BY <3>1, TimedFacts
  <2>3. j > i /\ Len(s) - j + 1 \in 0..Cardinality(Points)
    <3>1. Cardinality(Points) \in Nat /\ Len(s) <= Cardinality(Points) BY TimedFacts
    <3>. QED BY <1>0, <2>1, <2>2, <3>1
  <2>4. Within(-req[a[2]][d], Len(s) - j + 1) BY <1>5, <2>1, <2>3
  <2>5. req[a[2]][d] \in Int BY <2>1, TimedFacts
  <2>6. TakesOf(src, w, a, d) \in -Longest..Longest BY TimedFacts
  <2>7. Within(-req[s[i]][c], Len(s) - j + 1 + 1) BY <1>9, <2>3, <2>4, <2>5, <2>6, BeforeFacts
  <2>8. Len(s) - j + 1 + 1 \in Nat /\ Len(s) - j + 1 + 1 <= Len(s) - i + 1 BY <1>0, <2>3
  <2>9. Within(-req[s[i]][c], Len(s) - i + 1) BY <1>6, <2>7, <2>8, WithinFacts
  <2>. QED BY <1>4, <2>9
<1>. QED BY <1>7, <1>8, <1>9 DEF IsEarliest

(* Going back over an arc from a point behind. *)
LEMMA OverArcBack ==
  ASSUME NEW s, NEW src, NEW w, NEW arr, NEW req, NEW arrAnc, NEW reqAnc,
         Timed(s, src, w, arr, req, arrAnc, reqAnc), NEW a \in ArcsOf(src), NEW d \in Dirs
  PROVE  /\ req[a[2]][d] \in Int /\ Before(req[a[2]][d], TakesOf(src, w, a, d)) \in Int
         /\ Before(req[a[2]][d], TakesOf(src, w, a, d)) <= DBL_MAX
         /\ Before(req[a[2]][d], TakesOf(src, w, a, d)) = DBL_MAX <=> req[a[2]][d] = DBL_MAX
         /\ req[a[2]][d] # DBL_MAX =>
              Before(req[a[2]][d], TakesOf(src, w, a, d)) = req[a[2]][d] - TakesOf(src, w, a, d)
<1>1. PICK h, j \in 1..Len(s) : h < j /\ a[1] = s[h] /\ a[2] = s[j] BY TimedFacts
<1>2. Within(-req[a[2]][d], Len(s) - j + 1) /\ req[a[2]][d] \in Int
  <2>1. req[s[j]][d] \in Int BY TimedFacts
  <2>2. Within(-req[s[j]][d], Len(s) - j + 1) BY RequiredWithin
  <2>. QED BY <1>1, <2>1, <2>2
<1>3. Len(s) - j + 1 \in 0..Cardinality(Points)
  <2>1. Len(s) \in Nat /\ Cardinality(Points) \in Nat /\ Len(s) <= Cardinality(Points) BY TimedFacts
  <2>. QED BY <1>1, <2>1
<1>4. TakesOf(src, w, a, d) \in -Longest..Longest BY TimedFacts
<1>. QED BY <1>2, <1>3, <1>4, BeforeFacts

LEMMA NeededBothWays ==
  ASSUME NEW s, NEW src, NEW w, NEW arr, NEW req, NEW arrAnc, NEW reqAnc,
         Timed(s, src, w, arr, req, arrAnc, reqAnc)
  PROVE  \A i \in 1..Len(s), c, d \in Dirs : req[s[i]][c] # DBL_MAX => req[s[i]][d] # DBL_MAX
<1> DEFINE Bad(i) == \E c, d \in Dirs : req[s[i]][c] # DBL_MAX /\ req[s[i]][d] = DBL_MAX
           K == {Len(s) - i : i \in {i \in 1..Len(s) : Bad(i)}}
<1>0. Len(s) \in Nat BY TimedFacts
<1> SUFFICES ASSUME K # {} PROVE FALSE OBVIOUS
<1>1. K \subseteq Nat BY <1>0
<1>2. PICK k \in K : \A j \in K : k <= j BY <1>1, LeastNumber
<1>3. PICK i \in 1..Len(s) : k = Len(s) - i /\ Bad(i) BY <1>2
<1>4. \A j \in 1..Len(s) : j > i => ~Bad(j)
  <2> SUFFICES ASSUME NEW j \in 1..Len(s), j > i, Bad(j) PROVE FALSE OBVIOUS
  <2>1. Len(s) - j \in K OBVIOUS
  <2>2. k <= Len(s) - j BY <1>2, <2>1
  <2>. QED BY <1>0, <1>3, <2>2
<1> HIDE DEF K
<1>5. PICK c, d \in Dirs : req[s[i]][c] # DBL_MAX /\ req[s[i]][d] = DBL_MAX BY <1>3
<1>6. /\ IsEarliest(s, src, w, req, s[i], c, 0, req[s[i]][c])
      /\ IsEarliest(s, src, w, req, s[i], d, 0, req[s[i]][d])
  BY TimedFacts
<1>7. /\ Longest \in Nat /\ DBL_MAX \in Nat /\ Longest < DBL_MAX
  <2>1. Reach(0) \in Nat /\ Reach(0) + Longest < DBL_MAX /\ Longest \in Nat /\ DBL_MAX \in Nat
    BY ReachFacts, PointSets
  <2>. QED BY <2>1
<1>8. CASE req[s[i]][c] = EndOf(s[i], c)
  <2>1. s[i] \in EndPoints BY <1>5, <1>8 DEF EndOf
  <2>2. EndOf(s[i], d) \in -Longest..Longest BY <2>1, DelayBounds DEF EndOf
  <2>3. DBL_MAX <= EndOf(s[i], d) BY <1>5, <1>6 DEF IsEarliest
  <2>. QED BY <1>7, <2>2, <2>3
<1>9. ASSUME NEW a \in ArcsOf(src), NEW e \in Dirs, a[1] = s[i],
             req[s[i]][c] = Before(req[a[2]][e], TakesOf(src, w, a, e))
      PROVE  FALSE
  <2>1. PICK h, j \in 1..Len(s) : h < j /\ a[1] = s[h] /\ a[2] = s[j] BY TimedFacts
  <2>2. h = i
    <3>1. s[h] = s[i] BY <1>9, <2>1
    <3>. QED BY <3>1, TimedFacts
  <2>3. req[a[2]][e] # DBL_MAX BY <1>5, <1>9, OverArcBack
  <2>4. PICK b \in Dirs : PassesOf(src, a, d, b) BY PassesSome DEF Timed
  <2>5. req[a[2]][b] # DBL_MAX BY <1>4, <2>1, <2>2, <2>3
  <2>6. /\ Before(req[a[2]][b], TakesOf(src, w, a, b)) # DBL_MAX
        /\ Before(req[a[2]][b], TakesOf(src, w, a, b)) <= DBL_MAX
        /\ Before(req[a[2]][b], TakesOf(src, w, a, b)) \in Int
    BY <2>5, OverArcBack
  <2>7. BehindPlace(s, 0, a[2]) BY TimedFacts
  <2>8. DBL_MAX <= Before(req[a[2]][b], TakesOf(src, w, a, b))
    BY <1>5, <1>6, <1>9, <2>4, <2>7 DEF IsEarliest
  <2>. QED BY <1>7, <2>6, <2>8
<1>. QED BY <1>6, <1>8, <1>9 DEF IsEarliest

-----------------------------------------------------------------------------
(***************************************************************************)
(* The points on a way that is at least as bad as most allows.             *)
(***************************************************************************)
SlackOf(arr, req, v) == req[v.point][v.dir] - arr[v.point][v.dir]

OnBadWay(s, arr, req, most) ==
  {v \in Visits : /\ \E i \in 1..Len(s) : v.point = s[i]
                  /\ arr[v.point][v.dir] # -DBL_MAX /\ req[v.point][v.dir] # DBL_MAX
                  /\ SlackOf(arr, req, v) <= most}

PlaceIn(s, p) == CHOOSE i \in 1..Len(s) : p = s[i]

LEMMA GoesBack ==
  ASSUME NEW s, NEW src, NEW w, NEW arr, NEW req, NEW arrAnc, NEW reqAnc,
         Timed(s, src, w, arr, req, arrAnc, reqAnc), NEW most \in Int,
         NEW v \in OnBadWay(s, arr, req, most), AncestorAt(arrAnc, v).point # Root
  PROVE  /\ NextVisit(v, AncestorAt(arrAnc, v)) \in OnBadWay(s, arr, req, most)
         /\ LET u == NextVisit(v, AncestorAt(arrAnc, v))
                a == <<u.point, v.point>>
            IN /\ PlaceIn(s, u.point) < PlaceIn(s, v.point)
               /\ a \in ArcsOf(src) /\ PassesOf(src, a, u.dir, v.dir)
               /\ arr[v.point][v.dir] = arr[u.point][u.dir] + TakesOf(src, w, a, v.dir)
<1> DEFINE x == AncestorAt(arrAnc, v)
           u == NextVisit(v, x)
           a == <<u.point, v.point>>
           takes == TakesOf(src, w, a, v.dir)
<1>1. PICK i \in 1..Len(s) : v.point = s[i] BY DEF OnBadWay
<1>2. v \in Visits /\ v.dir \in Dirs /\ v.point \in Points BY DEF OnBadWay, Visits
<1>3. x \in Ancestors /\ IsAncestor(src, w, arr, v.point, v.dir, arr[v.point][v.dir], x)
  BY <1>1, <1>2, TimedFacts DEF AncestorAt
<1>4. u = Visit(x.point, SignalAt(x, v.dir)) BY DEF NextVisit, SignalAt
<1>5. u.point = x.point /\ u.dir = SignalAt(x, v.dir) BY <1>4 DEF Visit
<1>6. u.dir \in Dirs BY <1>2, <1>3, <1>5, SignalFacts
<1> HIDE DEF u, x
<1>7. /\ a \in ArcsOf(src) /\ PassesOf(src, a, u.dir, v.dir)
      /\ arr[v.point][v.dir] = After(arr[u.point][u.dir], takes)
  BY <1>3, <1>5 DEF IsAncestor, x
<1>8. PICK h, j \in 1..Len(s) : h < j /\ u.point = s[h] /\ v.point = s[j] BY <1>7, TimedFacts
<1>9. u.point \in Points /\ h \in 0..Cardinality(Points) BY <1>8, TimedFacts
<1>10. u \in Visits BY <1>4, <1>5, <1>6, <1>9 DEF Visit, Visits
<1>11. PlaceIn(s, u.point) = h /\ PlaceIn(s, v.point) = j
  <2>1. \A i1, i2 \in 1..Len(s) : s[i1] = s[i2] => i1 = i2 BY TimedFacts
  <2>. QED BY <1>8, <2>1 DEF PlaceIn
<1>12. takes \in -Longest..Longest /\ takes \in Int
  <2>1. takes \in -Longest..Longest BY <1>2, TimedFacts
  <2>. QED BY <2>1, ReachFacts
<1>13. Within(arr[u.point][u.dir], h) BY <1>6, <1>8, TimedFacts
<1>14. arr[v.point][v.dir] # -DBL_MAX /\ req[v.point][v.dir] # DBL_MAX
       /\ SlackOf(arr, req, v) <= most
  BY DEF OnBadWay
<1>15. /\ arr[u.point][u.dir] # -DBL_MAX /\ arr[u.point][u.dir] \in Int
       /\ arr[v.point][v.dir] = arr[u.point][u.dir] + takes
  <2>1. arr[u.point][u.dir] # -DBL_MAX BY <1>7, <1>9, <1>12, <1>13, <1>14, AfterFacts
  <2>2. arr[v.point][v.dir] = arr[u.point][u.dir] + takes BY <1>7, <1>9, <1>12, <1>13, <2>1, AfterFacts
  <2>. QED BY <1>13, <2>1, <2>2 DEF Within
<1>16. req[u.point][u.dir] <= Before(req[v.point][v.dir], takes) /\ req[u.point][u.dir] \in Int
  <2>1. IsEarliest(s, src, w, req, u.point, u.dir, 0, req[u.point][u.dir]) /\ req[u.point][u.dir] \in Int
    BY <1>6, <1>8, TimedFacts
  <2>2. BehindPlace(s, 0, a[2]) /\ a[1] = u.point /\ a[2] = v.point BY <1>7, TimedFacts
  <2>. QED BY <1>2, <1>7, <2>1, <2>2 DEF IsEarliest
<1>17. /\ req[v.point][v.dir] \in Int /\ Before(req[v.point][v.dir], takes) \in Int
       /\ Before(req[v.point][v.dir], takes) <= DBL_MAX
       /\ Before(req[v.point][v.dir], takes) # DBL_MAX
       /\ Before(req[v.point][v.dir], takes) = req[v.point][v.dir] - takes
  <2>1. a[2] = v.point OBVIOUS
  <2> HIDE DEF a
  <2>. QED BY <1>2, <1>7, <1>14, <2>1, OverArcBack
<1>18. DBL_MAX \in Nat BY ReachFacts
<1> HIDE DEF takes
<1>19. req[u.point][u.dir] # DBL_MAX BY <1>16, <1>17, <1>18
<1>20. SlackOf(arr, req, u) <= most
  <2>1. req[v.point][v.dir] - arr[v.point][v.dir] <= most BY <1>14 DEF SlackOf
  <2>2. req[u.point][u.dir] <= req[v.point][v.dir] - takes BY <1>16, <1>17
  <2>3. /\ req[u.point][u.dir] \in Int /\ req[v.point][v.dir] \in Int /\ takes \in Int
        /\ arr[u.point][u.dir] \in Int /\ arr[v.point][v.dir] \in Int
    BY <1>12, <1>15, <1>16, <1>17
  <2>4. PICK ru, rv, au, av \in Int : /\ ru = req[u.point][u.dir] /\ rv = req[v.point][v.dir]
                                      /\ au = arr[u.point][u.dir] /\ av = arr[v.point][v.dir]
    BY <2>3
  <2>5. rv - av <= most /\ ru <= rv - takes /\ av = au + takes BY <1>15, <2>1, <2>2, <2>4
  <2>6. ru - au <= most BY <2>3, <2>5
  <2>. QED BY <2>4, <2>6 DEF SlackOf
<1>21. u \in OnBadWay(s, arr, req, most) BY <1>8, <1>10, <1>15, <1>19, <1>20 DEF OnBadWay
<1>. QED BY <1>7, <1>8, <1>11, <1>15, <1>21 DEF takes, u, x

LEMMA GoesOn ==
  ASSUME NEW s, NEW src, NEW w, NEW arr, NEW req, NEW arrAnc, NEW reqAnc,
         Timed(s, src, w, arr, req, arrAnc, reqAnc), NEW most \in Int,
         NEW v \in OnBadWay(s, arr, req, most), AncestorAt(reqAnc, v).point # Root
  PROVE  /\ NextVisit(v, AncestorAt(reqAnc, v)) \in OnBadWay(s, arr, req, most)
         /\ LET u == NextVisit(v, AncestorAt(reqAnc, v))
                a == <<v.point, u.point>>
            IN /\ PlaceIn(s, v.point) < PlaceIn(s, u.point)
               /\ a \in ArcsOf(src) /\ PassesOf(src, a, v.dir, u.dir)
               /\ req[v.point][v.dir] = req[u.point][u.dir] - TakesOf(src, w, a, u.dir)
<1> DEFINE x == AncestorAt(reqAnc, v)
           u == NextVisit(v, x)
           a == <<v.point, u.point>>
           takes == TakesOf(src, w, a, u.dir)
<1>1. PICK i \in 1..Len(s) : v.point = s[i] BY DEF OnBadWay
<1>2. v \in Visits /\ v.dir \in Dirs /\ v.point \in Points BY DEF OnBadWay, Visits
<1>3. x \in Ancestors /\ IsAsker(s, src, w, req, v.point, v.dir, 0, req[v.point][v.dir], x)
  BY <1>1, <1>2, TimedFacts DEF AncestorAt
<1>4. u = Visit(x.point, SignalAt(x, v.dir)) BY DEF NextVisit, SignalAt
<1>5. u.point = x.point /\ u.dir = SignalAt(x, v.dir) BY <1>4 DEF Visit
<1>6. u.dir \in Dirs BY <1>2, <1>3, <1>5, SignalFacts
<1> HIDE DEF u, x
<1>7. /\ a \in ArcsOf(src) /\ PassesOf(src, a, v.dir, u.dir)
      /\ req[v.point][v.dir] = Before(req[u.point][u.dir], takes)
  BY <1>3, <1>5 DEF IsAsker, x
<1>8. PICK h, j \in 1..Len(s) : h < j /\ v.point = s[h] /\ u.point = s[j] BY <1>7, TimedFacts
<1>9. u.point \in Points /\ h \in 0..Cardinality(Points) BY <1>8, TimedFacts
<1>10. u \in Visits BY <1>4, <1>5, <1>6, <1>9 DEF Visit, Visits
<1>11. PlaceIn(s, v.point) = h /\ PlaceIn(s, u.point) = j
  <2>1. \A i1, i2 \in 1..Len(s) : s[i1] = s[i2] => i1 = i2 BY TimedFacts
  <2>. QED BY <1>8, <2>1 DEF PlaceIn
<1>12. takes \in -Longest..Longest /\ takes \in Int
  <2>1. takes \in -Longest..Longest BY <1>6, TimedFacts
  <2>. QED BY <2>1, ReachFacts
<1>13. Within(arr[v.point][v.dir], h) BY <1>2, <1>8, TimedFacts
<1>14. arr[v.point][v.dir] # -DBL_MAX /\ req[v.point][v.dir] # DBL_MAX
       /\ SlackOf(arr, req, v) <= most
  BY DEF OnBadWay
<1>15. /\ req[u.point][u.dir] # DBL_MAX /\ req[u.point][u.dir] \in Int
       /\ req[v.point][v.dir] = req[u.point][u.dir] - takes
  <2>1. a[2] = u.point OBVIOUS
  <2> HIDE DEF a
  <2>. QED BY <1>6, <1>7, <1>14, <2>1, OverArcBack
<1>16. /\ After(arr[v.point][v.dir], takes) <= arr[u.point][u.dir]
       /\ Within(arr[u.point][u.dir], j)
  <2>1. IsLatest(src, w, arr, u.point, u.dir, arr[u.point][u.dir]) /\ Within(arr[u.point][u.dir], j)
    BY <1>6, <1>8, TimedFacts
  <2>2. a[1] = v.point /\ a[2] = u.point OBVIOUS
  <2>. QED BY <1>2, <1>7, <2>1, <2>2 DEF IsLatest
<1>17. /\ arr[v.point][v.dir] \in Int /\ Within(After(arr[v.point][v.dir], takes), h + 1)
       /\ After(arr[v.point][v.dir], takes) = arr[v.point][v.dir] + takes
       /\ -DBL_MAX <= After(arr[v.point][v.dir], takes) /\ After(arr[v.point][v.dir], takes) # -DBL_MAX
  BY <1>9, <1>12, <1>13, <1>14, AfterFacts DEF Within
<1>18. DBL_MAX \in Nat /\ arr[u.point][u.dir] \in Int /\ After(arr[v.point][v.dir], takes) \in Int
  BY <1>16, <1>17, ReachFacts DEF Within
<1> HIDE DEF takes
<1>19. arr[u.point][u.dir] # -DBL_MAX BY <1>16, <1>17, <1>18
<1>20. SlackOf(arr, req, u) <= most
  <2>1. req[v.point][v.dir] - arr[v.point][v.dir] <= most BY <1>14 DEF SlackOf
  <2>2. arr[v.point][v.dir] + takes <= arr[u.point][u.dir] BY <1>16, <1>17
  <2>3. /\ req[u.point][u.dir] \in Int /\ req[v.point][v.dir] \in Int /\ takes \in Int
        /\ arr[u.point][u.dir] \in Int /\ arr[v.point][v.dir] \in Int
    <3>1. req[v.point][v.dir] \in Int BY <1>12, <1>15
    <3>. QED BY <1>12, <1>15, <1>17, <1>18, <3>1
  <2>4. PICK ru, rv, au, av \in Int : /\ ru = req[u.point][u.dir] /\ rv = req[v.point][v.dir]
                                      /\ au = arr[u.point][u.dir] /\ av = arr[v.point][v.dir]
    BY <2>3
  <2>5. rv - av <= most /\ av + takes <= au /\ rv = ru - takes BY <1>15, <2>1, <2>2, <2>4
  <2>6. ru - au <= most BY <2>3, <2>5
  <2>. QED BY <2>4, <2>6 DEF SlackOf
<1>21. u \in OnBadWay(s, arr, req, most) BY <1>8, <1>10, <1>15, <1>19, <1>20 DEF OnBadWay
<1>. QED BY <1>7, <1>8, <1>11, <1>15, <1>21 DEF takes, u, x

LEMMA PlaceFacts ==
  ASSUME NEW s, NEW src, NEW w, NEW arr, NEW req, NEW arrAnc, NEW reqAnc,
         Timed(s, src, w, arr, req, arrAnc, reqAnc), NEW most
  PROVE  /\ OnBadWay(s, arr, req, most) \in SUBSET Visits
         /\ \A v \in OnBadWay(s, arr, req, most) :
              /\ PlaceIn(s, v.point) \in 1..Len(s) /\ v.point = s[PlaceIn(s, v.point)]
              /\ v.dir \in Dirs
         /\ Len(s) \in Nat /\ Cardinality(Points) \in Nat /\ Len(s) <= Cardinality(Points)
<1>1. Len(s) \in Nat /\ Cardinality(Points) \in Nat /\ Len(s) <= Cardinality(Points) BY TimedFacts
<1>2. \A p : (\E i \in 1..Len(s) : p = s[i]) => PlaceIn(s, p) \in 1..Len(s) /\ p = s[PlaceIn(s, p)]
  BY DEF PlaceIn
<1>. QED BY <1>1, <1>2 DEF OnBadWay, Visits

(* The slack of a point is that of two of its times. *)
LEMMA SlackFacts ==
  ASSUME NEW p \in Points, arrival \in TimeMaps, required \in TimeMaps
  PROVE  \E c, d \in Dirs : Slack(p) = required[p][c] - arrival[p][d]
<1> DEFINE S == {required[p][d] : d \in Dirs}
           T == {arrival[p][d] : d \in Dirs}
<1>1. /\ required[p]["rise"] \in Int /\ required[p]["fall"] \in Int
      /\ arrival[p]["rise"] \in Int /\ arrival[p]["fall"] \in Int
  BY DEF TimeMaps, Dirs
<1>2. S = {required[p]["rise"], required[p]["fall"]} /\ T = {arrival[p]["rise"], arrival[p]["fall"]}
  BY DEF Dirs
<1>3. \E x \in S : \A y \in S : x =< y
  <2>1. CASE required[p]["rise"] <= required[p]["fall"] BY <1>1, <1>2, <2>1
  <2>2. CASE required[p]["fall"] <= required[p]["rise"] BY <1>1, <1>2, <2>2
  <2>. QED BY <1>1, <2>1, <2>2
<1>4. \E x \in T : \A y \in T : x >= y
  <2>1. CASE arrival[p]["rise"] <= arrival[p]["fall"] BY <1>1, <1>2, <2>1
  <2>2. CASE arrival[p]["fall"] <= arrival[p]["rise"] BY <1>1, <1>2, <2>2
  <2>. QED BY <1>1, <2>1, <2>2
<1> HIDE DEF S, T
<1>5. Min(S) \in S BY <1>3 DEF Min
<1>6. Max(T) \in T BY <1>4 DEF Max
<1>7. Slack(p) = Min(S) - Max(T) BY DEF Slack, S, T
<1>8. PICK c \in Dirs : Min(S) = required[p][c] BY <1>5 DEF S
<1>9. PICK d \in Dirs : Max(T) = arrival[p][d] BY <1>6 DEF T
<1>. QED BY <1>7, <1>8, <1>9

(* At the ends of the list the times are the given ones; with a negative slack the
   signals come from somewhere and go somewhere. *)
LEMMA BadEnds ==
  ASSUME RepeaterInv, TimingInv, stage = "timed", NEW p \in Points, InList(p), Slack(p) < 0,
         p \in StartPoints \/ p \in EndPoints, NEW d \in Dirs
  PROVE  /\ Visit(p, d) \in OnBadWay(Order, arrival, required, SlackAt(Visit(p, d)))
         /\ SlackAt(Visit(p, d)) \in Int
         /\ p \in StartPoints => arrival[p][d] = StartTimes[p][d]
         /\ p \in EndPoints => required[p][d] = EndTimes[p][d]
<1> DEFINE s == Order
<1>1. Timed(s, source, wire, arrival, required, arrivalAncestor, requiredAncestor) BY TimedState
<1>2. PICK i \in 1..Len(s) : p = s[i] BY PlacesOfPass
<1>3. Nets(s, source) BY <1>1 DEF Timed
<1>4. arrival \in TimeMaps /\ required \in TimeMaps BY <1>1 DEF Timed, ForwardTo, BackwardTo
<1>5. \A e \in Dirs : arrival[p][e] \in Int /\ required[p][e] \in Int BY <1>4 DEF TimeMaps
<1>6. /\ Longest \in Nat /\ DBL_MAX \in Nat /\ Longest < DBL_MAX
  <2>1. Reach(0) \in Nat /\ Reach(0) + Longest < DBL_MAX /\ Longest \in Nat /\ DBL_MAX \in Nat
    BY ReachFacts, PointSets
  <2>. QED BY <2>1
<1>7. PICK b, c \in Dirs : Slack(p) = required[p][b] - arrival[p][c] BY <1>4, SlackFacts
<1>8. required[p][b] < arrival[p][c] BY <1>5, <1>7
<1>9. \A e \in Dirs : /\ IsLatest(source, wire, arrival, p, e, arrival[p][e])
                      /\ IsEarliest(s, source, wire, required, p, e, 0, required[p][e])
  BY <1>1, <1>2, TimedFacts
<1> HIDE DEF s
<1>10. ASSUME p \in StartPoints
       PROVE  \A e \in Dirs : arrival[p][e] = StartTimes[p][e] /\ arrival[p][e] \in -Longest..Longest
  <2>1. \A a \in ArcsOf(source) : a[2] # p BY <1>3, <1>10 DEF Nets
  <2>. QED BY <1>9, <1>10, <2>1, DelayBounds DEF IsLatest, StartOf
<1>11. ASSUME p \in EndPoints
       PROVE  \A e \in Dirs : required[p][e] = EndTimes[p][e] /\ required[p][e] \in -Longest..Longest
  <2>1. \A a \in ArcsOf(source) : a[1] # p BY <1>3, <1>11 DEF Nets
  <2>. QED BY <1>9, <1>11, <2>1, DelayBounds DEF IsEarliest, EndOf
<1>12. /\ p \in StartPoints => required[p][b] # DBL_MAX
       /\ p \in EndPoints => arrival[p][c] # -DBL_MAX
  BY <1>5, <1>6, <1>8, <1>10, <1>11
<1>13. arrival[p][d] # -DBL_MAX /\ required[p][d] # DBL_MAX
  <2>1. CASE p \in StartPoints
    <3>1. required[p][d] # DBL_MAX BY <1>1, <1>2, <1>12, <2>1, NeededBothWays
    <3>. QED BY <1>6, <1>10, <2>1, <3>1
  <2>2. CASE p \in EndPoints
    <3>1. arrival[p][d] # -DBL_MAX BY <1>1, <1>2, <1>12, <2>2, ReachedBothWays
    <3>. QED BY <1>6, <1>11, <2>2, <3>1
  <2>. QED BY <2>1, <2>2
<1>14. Visit(p, d) \in Visits /\ Visit(p, d).point = p /\ Visit(p, d).dir = d BY DEF Visit, Visits
<1>15. SlackAt(Visit(p, d)) \in Int /\ SlackOf(arrival, required, Visit(p, d)) = SlackAt(Visit(p, d))
  BY <1>5, <1>14 DEF SlackAt, SlackOf
<1>16. Visit(p, d) \in OnBadWay(s, arrival, required, SlackAt(Visit(p, d)))
  BY <1>2, <1>13, <1>14, <1>15 DEF OnBadWay
<1>. QED BY <1>10, <1>11, <1>15, <1>16 DEF s

-----------------------------------------------------------------------------
(***************************************************************************)
(* The paths found from both ends.                                         *)
(***************************************************************************)
LEMMA ReverseFacts ==
  ASSUME NEW S, NEW q \in Seq(S), Len(q) \in Nat \ {0}
  PROVE  /\ Reverse(q) \in Seq(S) /\ Len(Reverse(q)) = Len(q)
         /\ \A i \in 1..Len(q) : /\ (Len(q) - i) + 1 \in 1..Len(q)
                                 /\ Reverse(q)[i] = q[(Len(q) - i) + 1]
         /\ Reverse(q)[1] = Last(q) /\ Last(Reverse(q)) = q[1]
<1>1. Len(q) \in Nat /\ Reverse(q) = [i \in 1..Len(q) |-> q[(Len(q) - i) + 1]] BY DEF Reverse
<1>2. \A i \in 1..Len(q) : (Len(q) - i) + 1 \in 1..Len(q) OBVIOUS
<1>3. \A i \in 1..Len(q) : q[i] \in S OBVIOUS
<1>4. Reverse(q) \in [1..Len(q) -> S] BY <1>1, <1>2, <1>3
<1>5. Reverse(q) \in Seq(S) /\ Len(Reverse(q)) = Len(q) BY <1>1, <1>4
<1>6. 1 \in 1..Len(q) /\ Len(q) \in 1..Len(q) /\ (Len(q) - 1) + 1 = Len(q) /\ (Len(q) - Len(q)) + 1 = 1
  OBVIOUS
<1>7. Reverse(q)[1] = q[Len(q)] /\ Reverse(q)[Len(q)] = q[1] BY <1>1, <1>6
<1>. QED BY <1>1, <1>2, <1>5, <1>7 DEF Last

(* What a path that signals take needs to be the worst for the point it was found for *)
LEMMA WorstPath ==
  ASSUME NEW path, NEW n \in Nat \ {0}, Len(path) = n, DOMAIN path = 1..n,
         NEW time \in [1..n -> Int], NEW found,
         path[1].point \in StartPoints, path[n].point \in EndPoints,
         time[1] = StartTimes[path[1].point][path[1].dir],
         EndTimes[path[n].point][path[n].dir] - time[n] = SlackAt(found),
         \A i \in 1..n : SlackAt(path[i]) <= SlackAt(found),
         \A i \in 1..(n - 1) :
           /\ Step(path, i) \in ArcsOf(source)
           /\ PassesOf(source, Step(path, i), path[i].dir, path[i + 1].dir)
           /\ time[i + 1] = time[i] + TakesOf(source, wire, Step(path, i), path[i + 1].dir)
  PROVE  IsWorstPath(path, found)
<1>1. Last(path) = path[n] BY DEF Last
<1>2. \A i \in 1..(n - 1) : Step(path, i) \in Arcs /\ Passes(Step(path, i), path[i].dir, path[i + 1].dir)
  BY ParametersAreRight
<1>3. RunsAlong(path, n, time) BY ParametersAreRight DEF RunsAlong
<1>4. TimeAlong(path, n) = time[n] BY <1>3, TimeIsAlong
<1>. QED BY <1>1, <1>2, <1>4 DEF IsWorstPath

LEMMA OnBadWayFacts ==
  ASSUME RepeaterInv, TimingInv, stage = "timed", NEW most \in Int,
         NEW v \in OnBadWay(Order, arrival, required, most)
  PROVE  /\ SlackAt(v) <= most /\ arrival[v.point][v.dir] \in Int /\ required[v.point][v.dir] \in Int
         /\ v.point \in Points /\ v.dir \in Dirs
         /\ AncestorAt(arrivalAncestor, v).point = Root =>
              v.point \in StartPoints /\ arrival[v.point][v.dir] = StartTimes[v.point][v.dir]
         /\ AncestorAt(requiredAncestor, v).point = Root =>
              v.point \in EndPoints /\ required[v.point][v.dir] = EndTimes[v.point][v.dir]
<1>1. Timed(Order, source, wire, arrival, required, arrivalAncestor, requiredAncestor) BY TimedState
<1>2. PICK i \in 1..Len(Order) : v.point = Order[i] BY DEF OnBadWay
<1>3. v.point \in Points /\ v.dir \in Dirs BY DEF OnBadWay, Visits
<1>4. arrival[v.point][v.dir] \in Int /\ required[v.point][v.dir] \in Int
  BY <1>1, <1>3 DEF Timed, ForwardTo, BackwardTo, TimeMaps
<1>5. /\ IsAncestor(source, wire, arrival, v.point, v.dir, arrival[v.point][v.dir], AncestorAt(arrivalAncestor, v))
      /\ IsAsker(Order, source, wire, required, v.point, v.dir, 0, required[v.point][v.dir],
                 AncestorAt(requiredAncestor, v))
  BY <1>1, <1>2, <1>3, TimedFacts DEF AncestorAt
<1>6. /\ arrival[v.point][v.dir] # -DBL_MAX /\ required[v.point][v.dir] # DBL_MAX
      /\ SlackOf(arrival, required, v) <= most
  BY DEF OnBadWay
<1>7. SlackAt(v) <= most BY <1>6 DEF SlackOf, SlackAt
<1>8. ASSUME AncestorAt(arrivalAncestor, v).point = Root
      PROVE  v.point \in StartPoints /\ arrival[v.point][v.dir] = StartTimes[v.point][v.dir]
  BY <1>5, <1>6, <1>8 DEF IsAncestor, StartOf
<1>9. ASSUME AncestorAt(requiredAncestor, v).point = Root
      PROVE  v.point \in EndPoints /\ required[v.point][v.dir] = EndTimes[v.point][v.dir]
  BY <1>5, <1>6, <1>9 DEF IsAsker, EndOf
<1>. QED BY <1>3, <1>4, <1>7, <1>8, <1>9

LEMMA PathsTo ==
  ASSUME RepeaterInv, TimingInv, stage = "timed",
         NEW e \in EndPoints, InList(e), Slack(e) < 0, NEW d \in Dirs
  PROVE  IsWorstPath(Reverse(ExtractPath(arrivalAncestor, e, d)),
                     Last(Reverse(ExtractPath(arrivalAncestor, e, d))))
<1> DEFINE s == Order
           v0 == Visit(e, d)
           most == SlackAt(v0)
           Good == OnBadWay(s, arrival, required, most)
           rank == [v \in Good |-> PlaceIn(s, v.point)]
           q == ExtractPath(arrivalAncestor, e, d)
           path == Reverse(q)
           n == Len(q)
           time == [i \in 1..n |-> arrival[path[i].point][path[i].dir]]
<1>1. Timed(s, source, wire, arrival, required, arrivalAncestor, requiredAncestor) BY TimedState
<1>2. e \in Points BY DEF Points
<1>3. v0 \in Good /\ most \in Int /\ required[e][d] = EndTimes[e][d] BY <1>2, BadEnds
<1> HIDE DEF most, s
<1>4. arrivalAncestor \in AncestorMaps BY <1>1 DEF Timed, AncestorsTo
<1>5. Good \in SUBSET Visits BY <1>1, PlaceFacts
<1>6. /\ \A v \in Good : PlaceIn(s, v.point) \in 1..Len(s)
      /\ Len(s) \in Nat /\ Cardinality(Points) \in Nat /\ Len(s) <= Cardinality(Points)
  BY <1>1, PlaceFacts
<1>7. rank \in [Good -> 1..Cardinality(Points)] BY <1>6
<1>8. \A v \in Good : AncestorAt(arrivalAncestor, v).point # Root =>
        LET u == NextVisit(v, AncestorAt(arrivalAncestor, v))
            a == <<u.point, v.point>>
        IN /\ u \in Good /\ PlaceIn(s, u.point) < PlaceIn(s, v.point)
           /\ a \in ArcsOf(source) /\ PassesOf(source, a, u.dir, v.dir)
           /\ arrival[v.point][v.dir] = arrival[u.point][u.dir] + TakesOf(source, wire, a, v.dir)
  BY <1>1, <1>3, GoesBack
<1> HIDE DEF Good
<1>9. \A v \in Good : AncestorAt(arrivalAncestor, v).point # Root =>
        /\ NextVisit(v, AncestorAt(arrivalAncestor, v)) \in Good
        /\ rank[NextVisit(v, AncestorAt(arrivalAncestor, v))] < rank[v]
  BY <1>8
<1> HIDE DEF rank
<1>10. Chain(arrivalAncestor, Good, q, v0) /\ AncestorAt(arrivalAncestor, Last(q)).point = Root
  BY <1>2, <1>3, <1>4, <1>5, <1>7, <1>9, Extracted
<1> HIDE DEF q, v0
<1>11. /\ q \in Seq(Good) /\ n \in Nat \ {0} /\ q[1] = v0
       /\ \A i \in 1..(n - 1) : /\ AncestorAt(arrivalAncestor, q[i]).point # Root
                                /\ q[i + 1] = NextVisit(q[i], AncestorAt(arrivalAncestor, q[i]))
  BY <1>10 DEF Chain
<1>12. /\ path \in Seq(Good) /\ Len(path) = n
       /\ \A i \in 1..n : (n - i) + 1 \in 1..n /\ path[i] = q[(n - i) + 1]
       /\ path[1] = Last(q) /\ Last(path) = v0
  BY <1>11, ReverseFacts
<1> HIDE DEF path
<1>13. /\ DOMAIN path = 1..n /\ \A i \in 1..n : path[i] \in Good
       /\ path[n] = v0 /\ 1 \in 1..n /\ n \in 1..n
  BY <1>11, <1>12 DEF Last
<1>14. \A v \in Good : /\ SlackAt(v) <= most /\ arrival[v.point][v.dir] \in Int
                       /\ AncestorAt(arrivalAncestor, v).point = Root =>
                            v.point \in StartPoints /\ arrival[v.point][v.dir] = StartTimes[v.point][v.dir]
  BY <1>3, OnBadWayFacts DEF Good, s
<1>15. time \in [1..n -> Int] BY <1>13, <1>14
<1>16. path[1].point \in StartPoints /\ time[1] = StartTimes[path[1].point][path[1].dir]
  BY <1>10, <1>12, <1>13, <1>14
<1>17. v0.point = e /\ v0.dir = d BY DEF v0, Visit
<1>18. path[n].point \in EndPoints /\ EndTimes[path[n].point][path[n].dir] - time[n] = SlackAt(v0)
  BY <1>3, <1>13, <1>17 DEF SlackAt
<1>19. \A i \in 1..n : SlackAt(path[i]) <= SlackAt(v0) BY <1>13, <1>14 DEF most
<1>20. ASSUME NEW i \in 1..(n - 1)
       PROVE  /\ Step(path, i) \in ArcsOf(source)
              /\ PassesOf(source, Step(path, i), path[i].dir, path[i + 1].dir)
              /\ time[i + 1] = time[i] + TakesOf(source, wire, Step(path, i), path[i + 1].dir)
  <2>1. i \in 1..n /\ i + 1 \in 1..n BY <1>11
  <2>2. PICK k : k = n - i OBVIOUS
  <2>3. k \in 1..(n - 1) /\ (n - i) + 1 = k + 1 /\ (n - (i + 1)) + 1 = k BY <1>11, <2>2
  <2>4. path[i] = q[k + 1] /\ path[i + 1] = q[k] BY <1>12, <2>1, <2>3
  <2>5. /\ AncestorAt(arrivalAncestor, path[i + 1]).point # Root
        /\ path[i] = NextVisit(path[i + 1], AncestorAt(arrivalAncestor, path[i + 1]))
    BY <1>11, <2>3, <2>4
  <2>6. /\ Step(path, i) \in ArcsOf(source)
        /\ PassesOf(source, Step(path, i), path[i].dir, path[i + 1].dir)
        /\ arrival[path[i + 1].point][path[i + 1].dir]
             = arrival[path[i].point][path[i].dir] + TakesOf(source, wire, Step(path, i), path[i + 1].dir)
    BY <1>8, <1>13, <2>1, <2>5 DEF Step
  <2>. QED BY <2>1, <2>6
<1> HIDE DEF time, n
<1>21. IsWorstPath(path, v0) BY <1>11, <1>12, <1>13, <1>15, <1>16, <1>18, <1>19, <1>20, WorstPath
<1>. QED BY <1>12, <1>21 DEF path, q

LEMMA PathsFrom ==
  ASSUME RepeaterInv, TimingInv, stage = "timed",
         NEW e \in StartPoints, InList(e), Slack(e) < 0, NEW d \in Dirs
  PROVE  IsWorstPath(ExtractPath(requiredAncestor, e, d), ExtractPath(requiredAncestor, e, d)[1])
<1> DEFINE s == Order
           v0 == Visit(e, d)
           most == SlackAt(v0)
           Good == OnBadWay(s, arrival, required, most)
           rank == [v \in Good |-> (Len(s) + 1) - PlaceIn(s, v.point)]
           path == ExtractPath(requiredAncestor, e, d)
           n == Len(path)
           time == [i \in 1..n |-> required[path[i].point][path[i].dir] - most]
<1>1. Timed(s, source, wire, arrival, required, arrivalAncestor, requiredAncestor) BY TimedState
<1>2. e \in Points BY DEF Points
<1>3. v0 \in Good /\ most \in Int /\ arrival[e][d] = StartTimes[e][d] BY <1>2, BadEnds
<1> HIDE DEF most, s
<1>4. requiredAncestor \in AncestorMaps BY <1>1 DEF Timed, AskersTo
<1>5. Good \in SUBSET Visits BY <1>1, PlaceFacts
<1>6. /\ \A v \in Good : PlaceIn(s, v.point) \in 1..Len(s)
      /\ Len(s) \in Nat /\ Cardinality(Points) \in Nat /\ Len(s) <= Cardinality(Points)
  BY <1>1, PlaceFacts
<1>7. rank \in [Good -> 1..Cardinality(Points)]
  <2>1. \A i \in 1..Len(s) : (Len(s) + 1) - i \in 1..Cardinality(Points) BY <1>6
  <2>. QED BY <1>6, <2>1
<1>8. \A v \in Good : AncestorAt(requiredAncestor, v).point # Root =>
        LET u == NextVisit(v, AncestorAt(requiredAncestor, v))
            a == <<v.point, u.point>>
        IN /\ u \in Good /\ PlaceIn(s, v.point) < PlaceIn(s, u.point)
           /\ a \in ArcsOf(source) /\ PassesOf(source, a, v.dir, u.dir)
           /\ required[v.point][v.dir] = required[u.point][u.dir] - TakesOf(source, wire, a, u.dir)
  BY <1>1, <1>3, GoesOn
<1> HIDE DEF Good
<1>9. ASSUME NEW v \in Good, AncestorAt(requiredAncestor, v).point # Root
      PROVE  /\ NextVisit(v, AncestorAt(requiredAncestor, v)) \in Good
             /\ rank[NextVisit(v, AncestorAt(requiredAncestor, v))] < rank[v]
  <2>1. PICK u : u = NextVisit(v, AncestorAt(requiredAncestor, v)) OBVIOUS
  <2>2. u \in Good /\ PlaceIn(s, v.point) < PlaceIn(s, u.point) BY <1>8, <1>9, <2>1
  <2>3. PlaceIn(s, v.point) \in 1..Len(s) /\ PlaceIn(s, u.point) \in 1..Len(s) BY <1>6, <2>2
  <2>4. (Len(s) + 1) - PlaceIn(s, u.point) < (Len(s) + 1) - PlaceIn(s, v.point)
    BY <1>6, <2>2, <2>3
  <2>. QED BY <2>1, <2>2, <2>4
<1> HIDE DEF rank
<1>10. Chain(requiredAncestor, Good, path, v0) /\ AncestorAt(requiredAncestor, Last(path)).point = Root
  BY <1>2, <1>3, <1>4, <1>5, <1>7, <1>9, Extracted
<1> HIDE DEF path, v0
<1>11. /\ path \in Seq(Good) /\ n \in Nat \ {0} /\ path[1] = v0
       /\ \A i \in 1..(n - 1) : /\ AncestorAt(requiredAncestor, path[i]).point # Root
                                /\ path[i + 1] = NextVisit(path[i], AncestorAt(requiredAncestor, path[i]))
  BY <1>10 DEF Chain
<1>13. /\ DOMAIN path = 1..n /\ \A i \in 1..n : path[i] \in Good
       /\ Last(path) = path[n] /\ 1 \in 1..n /\ n \in 1..n
  BY <1>11 DEF Last
<1>14. \A v \in Good : /\ SlackAt(v) <= most /\ required[v.point][v.dir] \in Int
                       /\ v.dir \in Dirs /\ arrival[v.point][v.dir] \in Int
                       /\ AncestorAt(requiredAncestor, v).point = Root =>
                            v.point \in EndPoints /\ required[v.point][v.dir] = EndTimes[v.point][v.dir]
  BY <1>3, OnBadWayFacts DEF Good, s
<1>15. time \in [1..n -> Int] BY <1>3, <1>13, <1>14
<1>17. v0.point = e /\ v0.dir = d BY DEF v0, Visit
<1>16. path[1].point \in StartPoints /\ time[1] = StartTimes[path[1].point][path[1].dir]
  <2>1. required[e][d] \in Int /\ arrival[e][d] \in Int BY <1>3, <1>14, <1>17
  <2>2. most = required[e][d] - arrival[e][d] BY <1>17 DEF most, SlackAt
  <2>3. required[e][d] - most = StartTimes[e][d] BY <1>3, <2>1, <2>2
  <2>. QED BY <1>11, <1>13, <1>17, <2>3
<1>18. path[n].point \in EndPoints /\ EndTimes[path[n].point][path[n].dir] - time[n] = SlackAt(v0)
  <2>1. /\ path[n].point \in EndPoints
        /\ required[path[n].point][path[n].dir] = EndTimes[path[n].point][path[n].dir]
        /\ required[path[n].point][path[n].dir] \in Int
    BY <1>10, <1>13, <1>14
  <2>2. time[n] = required[path[n].point][path[n].dir] - most BY <1>13
  <2>3. EndTimes[path[n].point][path[n].dir] - time[n] = most BY <1>3, <2>1, <2>2
  <2>. QED BY <2>1, <2>3 DEF most
<1>19. \A i \in 1..n : SlackAt(path[i]) <= SlackAt(v0) BY <1>13, <1>14 DEF most
<1>20. ASSUME NEW i \in 1..(n - 1)
       PROVE  /\ Step(path, i) \in ArcsOf(source)
              /\ PassesOf(source, Step(path, i), path[i].dir, path[i + 1].dir)
              /\ time[i + 1] = time[i] + TakesOf(source, wire, Step(path, i), path[i + 1].dir)
  <2>1. i \in 1..n /\ i + 1 \in 1..n BY <1>11
  <2>2. PICK v, u \in Good : v = path[i] /\ u = path[i + 1] BY <1>13, <2>1
  <2>3. PICK a : a = <<v.point, u.point>> OBVIOUS
  <2>4. AncestorAt(requiredAncestor, v).point # Root /\ u = NextVisit(v, AncestorAt(requiredAncestor, v))
    BY <1>11, <2>2
  <2>5. /\ a \in ArcsOf(source) /\ PassesOf(source, a, v.dir, u.dir)
        /\ required[v.point][v.dir] = required[u.point][u.dir] - TakesOf(source, wire, a, u.dir)
    BY <1>8, <2>3, <2>4
  <2>6. Step(path, i) = a BY <2>2, <2>3 DEF Step
  <2>7. PICK rv, ru, t \in Int : /\ rv = required[v.point][v.dir] /\ ru = required[u.point][u.dir]
                                 /\ t = TakesOf(source, wire, a, u.dir)
    <3>1. u.dir \in Dirs BY <1>14
    <3>2. TakesOf(source, wire, a, u.dir) \in -Longest..Longest BY <1>1, <3>1, TimedFacts
    <3>3. TakesOf(source, wire, a, u.dir) \in Int BY <3>2, ReachFacts
    <3>. QED BY <1>14, <3>3
  <2>8. rv = ru - t BY <2>5, <2>7
  <2>9. ru - most = (rv - most) + t BY <1>3, <2>7, <2>8
  <2>10. time[i] = rv - most /\ time[i + 1] = ru - most BY <2>1, <2>2, <2>7
  <2>11. time[i + 1] = time[i] + t BY <2>9, <2>10
  <2>. QED BY <2>2, <2>5, <2>6, <2>7, <2>11
<1> HIDE DEF time
<1>21. IsWorstPath(path, v0)
  BY <1>11, <1>13, <1>15, <1>16, <1>18, <1>19, <1>20, WorstPath
<1>. QED BY <1>11, <1>21 DEF path

LEMMA TimingInvPaths == RepeaterInv /\ TimingInv => CriticalPathsAreWorst
<1> SUFFICES ASSUME RepeaterInv, TimingInv, stage = "timed" PROVE CriticalPathsAreWorst
  BY DEF CriticalPathsAreWorst
<1>1. ASSUME NEW e \in EndPoints, InList(e), NEW path \in CriticalPathsTo(e)
      PROVE  IsWorstPath(path, Last(path))
  <2>1. PICK d \in Dirs : Slack(e) < 0 /\ path = Reverse(ExtractPath(arrivalAncestor, e, d))
    BY <1>1 DEF CriticalPathsTo
  <2>. QED BY <1>1, <2>1, PathsTo
<1>2. ASSUME NEW e \in StartPoints, InList(e), NEW path \in CriticalPathsFrom(e)
      PROVE  IsWorstPath(path, path[1])
  <2>1. PICK d \in Dirs : Slack(e) < 0 /\ path = ExtractPath(requiredAncestor, e, d)
    BY <1>2 DEF CriticalPathsFrom
  <2>. QED BY <1>2, <2>1, PathsFrom
<1>. QED BY <1>1, <1>2 DEF CriticalPathsAreWorst

(***************************************************************************)
(* Every critical path found after an analysis is a way signals take from  *)
(* a start point to an end point, whose delays add up to the time it was   *)
(* found for, and no point on it has more slack than that                  *)
(* (CriticalPaths.cpp, ExtractPath): for every design and whatever         *)
(* buffering did before.                                                   *)
(***************************************************************************)
THEOREM CriticalPathsAlwaysWorst == SSpec => []CriticalPathsAreWorst
BY RepeaterInvHolds, TimingInvHolds, TimingInvPaths, PTL
===============================================================================
