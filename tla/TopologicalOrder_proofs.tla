----------------------- MODULE TopologicalOrder_proofs -----------------------
(***************************************************************************)
(* Proofs that the order of FindTopologicalOrder is one: for every netlist *)
(* the list has no point before what it waits for, no gate is stopped that *)
(* would have come free, and at the end no point is left out.              *)
(***************************************************************************)
EXTENDS TopologicalOrder, FiniteSetTheorems, WellFoundedInduction, TLAPS

Placed == ToSet(arrival)

(* The nets that have given up their sinks. *)
Taken == {n \in Sources : SourceOf(n) \in Placed /\ n \notin ToSet(nets)}
WaitsFor(g) == netlist.fanin[g] \ Taken

NothingTwice ==
  IsInjective(arrival) /\ IsInjective(required) /\ IsInjective(nets) /\ IsInjective(ready)

(* What is in the lists: the sinks of the nets that were taken. *)
ListsHoldSinks ==
  /\ \A n \in ToSet(nets) \cup ToSet(Starts) : SourceOf(n) \in Placed
  /\ \A n \in Sources, g \in Gates :
       Input(n, g) \in Placed <=> n \in Taken /\ n \in netlist.fanin[g]
  /\ ToSet(required) = {e \in Ends : netlist.net[e] \in Taken}
  /\ phase # "done" => Placed \cap Ends = {}

(* The counters tell how many nets a gate waits for, and once they are down
   to zero the gate is ready or placed, for good. *)
CountersRight ==
  /\ \A g \in Gates : active[g] = IF g \in stopped THEN 0 ELSE Cardinality(WaitsFor(g))
  /\ \A g \in stopped : WaitsFor(g) = {Undriven}
  /\ \A g \in Gates : active[g] = 0 <=> g \in ToSet(ready) \/ SourceOf(g) \in Placed
  /\ \A g \in ToSet(ready) : SourceOf(g) \notin Placed

ReadyTaken == phase = "check" => ready = <<>>

PlacedInOrder ==
  \A g \in Gates :
    /\ \A n \in Sources : Input(n, g) \in Placed => Before(SourceOf(n), Input(n, g))
    /\ SourceOf(g) \in Placed =>
         \A n \in netlist.fanin[g] :
           Before(Input(n, g), SourceOf(g)) \/ (g \in stopped /\ n = Undriven)

IInv ==
  TypeOK /\ NothingTwice /\ ListsHoldSinks /\ CountersRight /\ ReadyTaken
         /\ PlacedInOrder /\ AllPointsPlaced

-----------------------------------------------------------------------------
(***************************************************************************)
(* Sequences.                                                              *)
(***************************************************************************)
InSeq(s, p, q) == \E i, j \in DOMAIN s : i < j /\ s[i] = p /\ s[j] = q

LEMMA Joined ==
  ASSUME NEW S, NEW s \in Seq(S), NEW t \in Seq(S)
  PROVE  /\ s \o t \in Seq(S)
         /\ ToSet(s \o t) = ToSet(s) \cup ToSet(t)
         /\ IsInjective(s) /\ IsInjective(t) /\ ToSet(s) \cap ToSet(t) = {}
              => IsInjective(s \o t)
         /\ \A p, q : InSeq(s, p, q) => InSeq(s \o t, p, q)
         /\ \A p \in ToSet(s), q \in ToSet(t) : InSeq(s \o t, p, q)
<1> DEFINE u == s \o t
<1>1. /\ Len(s) \in Nat /\ Len(t) \in Nat
      /\ DOMAIN s = 1..Len(s) /\ DOMAIN t = 1..Len(t)
      /\ u \in Seq(S)
      /\ DOMAIN u = 1..(Len(s) + Len(t))
      /\ \A i \in 1..(Len(s) + Len(t)) :
            u[i] = IF i <= Len(s) THEN s[i] ELSE t[i - Len(s)]
  OBVIOUS
<1> HIDE DEF u
<1>2. \A i \in DOMAIN s : i \in DOMAIN u /\ u[i] = s[i]
  BY <1>1
<1>3. \A j \in DOMAIN t : Len(s) + j \in DOMAIN u /\ u[Len(s) + j] = t[j]
  BY <1>1
<1>4. \A k \in DOMAIN u : \/ k \in DOMAIN s /\ u[k] = s[k]
                          \/ k - Len(s) \in DOMAIN t /\ u[k] = t[k - Len(s)]
  BY <1>1
<1>5. ToSet(u) = ToSet(s) \cup ToSet(t)
  BY <1>2, <1>3, <1>4 DEF ToSet
<1>6. ASSUME IsInjective(s), IsInjective(t), ToSet(s) \cap ToSet(t) = {}
      PROVE  IsInjective(u)
  <2> SUFFICES ASSUME NEW a \in DOMAIN u, NEW b \in DOMAIN u, u[a] = u[b] PROVE a = b
    BY DEF IsInjective
  <2>1. \A i \in DOMAIN s, j \in DOMAIN t : s[i] # t[j]
    BY <1>6 DEF ToSet
  <2>2. CASE a \in DOMAIN s /\ u[a] = s[a]
    <3>1. b \in DOMAIN s /\ u[b] = s[b] BY <1>4, <2>1, <2>2
    <3>. QED BY <1>6, <2>2, <3>1 DEF IsInjective
  <2>3. CASE a - Len(s) \in DOMAIN t /\ u[a] = t[a - Len(s)]
    <3>1. b - Len(s) \in DOMAIN t /\ u[b] = t[b - Len(s)] BY <1>4, <2>1, <2>3
    <3>2. a - Len(s) = b - Len(s) BY <1>6, <2>3, <3>1 DEF IsInjective
    <3>. QED BY <1>1, <3>2
  <2>. QED BY <1>4, <2>2, <2>3
<1>7. ASSUME NEW p, NEW q, InSeq(s, p, q) PROVE InSeq(u, p, q)
  BY <1>2, <1>7 DEF InSeq
<1>8. ASSUME NEW p \in ToSet(s), NEW q \in ToSet(t) PROVE InSeq(u, p, q)
  <2>1. PICK i \in DOMAIN s : s[i] = p BY DEF ToSet
  <2>2. PICK j \in DOMAIN t : t[j] = q BY DEF ToSet
  <2>3. i < Len(s) + j BY <1>1
  <2>. QED BY <1>2, <1>3, <2>1, <2>2, <2>3 DEF InSeq
<1>. QED BY <1>1, <1>5, <1>6, <1>7, <1>8 DEF u

LEMMA OneMore ==
  ASSUME NEW S, NEW s \in Seq(S), NEW x \in S
  PROVE  /\ Append(s, x) \in Seq(S)
         /\ ToSet(Append(s, x)) = ToSet(s) \cup {x}
         /\ IsInjective(s) /\ x \notin ToSet(s) => IsInjective(Append(s, x))
         /\ \A p, q : InSeq(s, p, q) => InSeq(Append(s, x), p, q)
         /\ \A p \in ToSet(s) : InSeq(Append(s, x), p, x)
<1>1. <<x>> \in Seq(S) /\ Append(s, x) = s \o <<x>> OBVIOUS
<1>2. ToSet(<<x>>) = {x} BY DEF ToSet
<1>3. IsInjective(<<x>>) BY DEF IsInjective
<1> DEFINE t == <<x>>
<1>4. t \in Seq(S) /\ Append(s, x) = s \o t /\ ToSet(t) = {x} /\ IsInjective(t) BY <1>1, <1>2, <1>3
<1> HIDE DEF t
<1>. QED BY <1>4, Joined

LEMMA FirstTaken ==
  ASSUME NEW S, NEW s \in Seq(S), s # <<>>, IsInjective(s)
  PROVE  /\ Tail(s) \in Seq(S) /\ Head(s) \in S
         /\ Head(s) \in ToSet(s)
         /\ ToSet(Tail(s)) = ToSet(s) \ {Head(s)}
         /\ IsInjective(Tail(s))
<1>1. /\ Len(s) \in Nat /\ Len(s) > 0 /\ DOMAIN s = 1..Len(s)
      /\ Tail(s) \in Seq(S) /\ Head(s) \in S /\ Head(s) = s[1]
      /\ DOMAIN Tail(s) = 1..(Len(s) - 1)
      /\ \A i \in 1..(Len(s) - 1) : Tail(s)[i] = s[i + 1]
  OBVIOUS
<1>2. \A i, j \in 1..Len(s) : s[i] = s[j] => i = j BY <1>1 DEF IsInjective
<1>3. \A i \in 1..Len(s) : i = 1 \/ (i - 1 \in 1..(Len(s) - 1) /\ (i - 1) + 1 = i) BY <1>1
<1>4. ASSUME NEW x \in ToSet(s) \ {Head(s)} PROVE x \in ToSet(Tail(s))
  <2>1. PICK i \in 1..Len(s) : x = s[i] BY <1>1 DEF ToSet
  <2>2. i - 1 \in 1..(Len(s) - 1) /\ (i - 1) + 1 = i BY <1>1, <1>3, <2>1
  <2>. QED BY <1>1, <2>1, <2>2 DEF ToSet
<1>5. ASSUME NEW x \in ToSet(Tail(s)) PROVE x \in ToSet(s) \ {Head(s)}
  <2>1. PICK i \in 1..(Len(s) - 1) : x = Tail(s)[i] BY <1>1 DEF ToSet
  <2>2. x = s[i + 1] /\ i + 1 \in 1..Len(s) /\ i + 1 # 1 /\ 1 \in 1..Len(s) BY <1>1, <2>1
  <2>. QED BY <1>1, <1>2, <2>2 DEF ToSet
<1>6. IsInjective(Tail(s))
  <2> SUFFICES ASSUME NEW i \in 1..(Len(s) - 1), NEW j \in 1..(Len(s) - 1), s[i + 1] = s[j + 1]
               PROVE  i = j
    BY <1>1 DEF IsInjective
  <2>1. i + 1 \in 1..Len(s) /\ j + 1 \in 1..Len(s) BY <1>1
  <2>2. i + 1 = j + 1 BY <1>2, <2>1
  <2>. QED BY <2>2
<1>7. Head(s) \in ToSet(s) BY <1>1 DEF ToSet
<1>. QED BY <1>1, <1>4, <1>5, <1>6, <1>7

LEMMA EmptyList ==
  /\ ToSet(<<>>) = {} /\ IsInjective(<<>>)
  /\ \A S : \A s \in Seq(S) : ToSet(s) = {} => s = <<>>
<1>1. ToSet(<<>>) = {} BY DEF ToSet
<1>2. IsInjective(<<>>) BY DEF IsInjective
<1>3. ASSUME NEW S, NEW s \in Seq(S), s # <<>> PROVE ToSet(s) # {}
  <2>1. Len(s) \in Nat /\ Len(s) > 0 /\ DOMAIN s = 1..Len(s) BY <1>3
  <2>2. 1 \in DOMAIN s BY <2>1
  <2>. QED BY <2>2 DEF ToSet
<1>. QED BY <1>1, <1>2, <1>3

(* A listing that repeats nothing and is as long as the set holds all of it. *)
LEMMA FullListing ==
  ASSUME NEW S, IsFiniteSet(S), NEW s \in [1..Cardinality(S) -> S], IsInjective(s)
  PROVE  s \in Seq(S) /\ ToSet(s) = S
<1>1. Cardinality(S) \in Nat BY FS_CardinalityType
<1>2. s \in Seq(S) BY <1>1
<1>3. IsFiniteSet(1..Cardinality(S)) /\ Cardinality(1..Cardinality(S)) = Cardinality(S)
  BY <1>1, FS_Interval
<1>4. s \in Injection(1..Cardinality(S), S) BY DEF Injection
<1>5. s \in Surjection(1..Cardinality(S), S) BY <1>3, <1>4, FS_Injection
<1>. QED BY <1>2, <1>5 DEF Surjection, ToSet

LEMMA ListingOfSet ==
  ASSUME NEW S, IsFiniteSet(S)
  PROVE  SetToSeq(S) \in Seq(S) /\ IsInjective(SetToSeq(S)) /\ ToSet(SetToSeq(S)) = S
<1>1. ExistsBijection(1..Cardinality(S), S) BY FS_CardinalityType
<1>2. PICK f \in Bijection(1..Cardinality(S), S) : TRUE BY <1>1 DEF ExistsBijection
<1>3. f \in [1..Cardinality(S) -> S] /\ IsInjective(f) BY <1>2 DEF Bijection, Injection
<1>4. SetToSeq(S) \in [1..Cardinality(S) -> S] /\ IsInjective(SetToSeq(S))
  BY <1>3 DEF SetToSeq
<1>. QED BY <1>4, FullListing

(* ById: the place of a cell is the number of those with no greater ID. *)
LEMMA ListingById ==
  ASSUME NEW gs, gs \subseteq Nat, IsFiniteSet(gs)
  PROVE  ById(gs) \in Seq(gs) /\ IsInjective(ById(gs)) /\ ToSet(ById(gs)) = gs
<1> DEFINE n == Cardinality(gs)
           UpTo(g) == {h \in gs : h <= g}
           place == [g \in gs |-> Cardinality(UpTo(g))]
           Sorted(s) == \A i, j \in DOMAIN s : i < j => s[i] < s[j]
<1>1. n \in Nat BY FS_CardinalityType
<1>2. \A g \in gs : IsFiniteSet(UpTo(g)) /\ Cardinality(UpTo(g)) \in 1..n
  <2> TAKE g \in gs
  <2>1. UpTo(g) \in SUBSET gs /\ UpTo(g) # {} OBVIOUS
  <2>2. IsFiniteSet(UpTo(g)) /\ Cardinality(UpTo(g)) <= n BY <2>1, FS_Subset
  <2>3. Cardinality(UpTo(g)) \in Nat /\ Cardinality(UpTo(g)) # 0
    BY <2>1, <2>2, FS_CardinalityType, FS_EmptySet
  <2>. QED BY <1>1, <2>2, <2>3
<1>3. ASSUME NEW g \in gs, NEW h \in gs, g < h PROVE place[g] < place[h]
  <2>0. g \in Nat /\ h \in Nat /\ \A x \in gs : x \in Nat OBVIOUS
  <2>1. \A x \in gs : x <= g => x <= h BY <1>3, <2>0
  <2>3. h \in UpTo(h) /\ h \notin UpTo(g) BY <1>3
  <2>4. UpTo(g) # UpTo(h) BY <2>3
  <2>2. Cardinality(UpTo(g)) <= Cardinality(UpTo(h)) /\ Cardinality(UpTo(g)) # Cardinality(UpTo(h))
    <3>1. UpTo(g) \in SUBSET UpTo(h) BY <2>1
    <3>. QED BY <1>2, <3>1, <2>4, FS_Subset
  <2>. QED BY <1>1, <1>2, <2>2
<1>4. place \in [gs -> 1..n] BY <1>2
<1> HIDE DEF place, UpTo
<1>5. \A g, h \in gs : place[g] = place[h] => g = h
  <2> TAKE g, h \in gs
  <2>1. g \in Nat /\ h \in Nat /\ place[g] \in Int /\ place[h] \in Int BY <1>1, <1>4
  <2>. QED BY <1>3, <2>1
<1>6. place \in Injection(gs, 1..n) BY <1>4, <1>5 DEF Injection, IsInjective
<1>7. IsFiniteSet(1..n) /\ Cardinality(1..n) = n BY <1>1, FS_Interval
<1>8. place \in Surjection(gs, 1..n) BY <1>6, <1>7, FS_Injection
<1> DEFINE t == [i \in 1..n |-> CHOOSE g \in gs : place[g] = i]
<1>9. \A i \in 1..n : t[i] \in gs /\ place[t[i]] = i BY <1>8 DEF Surjection
<1>10. t \in [1..n -> gs] BY <1>9
<1> HIDE DEF t
<1>11. Sorted(t)
  <2> SUFFICES ASSUME NEW i \in 1..n, NEW j \in 1..n, i < j PROVE t[i] < t[j]
    BY <1>10
  <2>1. t[i] \in Nat /\ t[j] \in Nat /\ t[i] \in gs /\ t[j] \in gs BY <1>9
  <2>2. place[t[i]] = i /\ place[t[j]] = j BY <1>9
  <2>3. t[i] # t[j] BY <2>2
  <2>4. ~(t[j] < t[i]) BY <1>1, <1>3, <2>1, <2>2
  <2>. QED BY <2>1, <2>3, <2>4
<1>12. ById(gs) \in [1..n -> gs] /\ Sorted(ById(gs))
  BY <1>10, <1>11 DEF ById
<1>13. IsInjective(ById(gs))
  <2> DEFINE s == ById(gs)
  <2> HIDE DEF s
  <2>1. s \in [1..n -> gs] /\ Sorted(s) BY <1>12 DEF s
  <2>2. SUFFICES ASSUME NEW a \in 1..n, NEW b \in 1..n, s[a] = s[b] PROVE a = b
    BY <2>1 DEF IsInjective, s
  <2>3. s[a] \in Nat /\ s[b] \in Nat BY <2>1
  <2>4. ~(a < b) /\ ~(b < a) BY <2>1, <2>2, <2>3
  <2>. QED BY <1>1, <2>4
<1>. QED BY <1>12, <1>13, FullListing

-----------------------------------------------------------------------------
(***************************************************************************)
(* Reachable.                                                              *)
(***************************************************************************)
LEMMA LeastNumber ==
  ASSUME NEW K, K \subseteq Nat, K # {}
  PROVE  \E k \in K : \A j \in K : k <= j
<1> DEFINE R == StrictSubsetOrdering(Nat)
           F == {0..k : k \in K}
<1>1. IsWellFoundedOn(R, FiniteSubsetsOf(Nat)) BY FS_StrictSubsetOrderingWellFounded
<1>2. F \subseteq FiniteSubsetsOf(Nat)
  <2>. SUFFICES ASSUME NEW k \in K PROVE 0..k \in FiniteSubsetsOf(Nat) OBVIOUS
  <2>1. IsFiniteSet(0..k) BY FS_Interval
  <2>. QED BY <2>1 DEF FiniteSubsetsOf
<1>3. F # {} OBVIOUS
<1>. HIDE DEF R, F
<1>4. PICK x \in F : \A y \in F : <<y, x>> \notin R BY <1>1, <1>2, <1>3, WFMin
<1>. USE DEF R, F
<1>5. PICK k \in K : x = 0..k BY <1>4 DEF F
<1>6. ASSUME NEW j \in K PROVE k <= j
  <2>. SUFFICES ASSUME j < k PROVE FALSE OBVIOUS
  <2>1. 0..j \subseteq 0..k /\ 0..j # 0..k OBVIOUS
  <2>2. 0..j \in F OBVIOUS
  <2>3. 0..j \in SUBSET Nat /\ 0..k \in SUBSET Nat OBVIOUS
  <2>4. <<0..j, 0..k>> \in R BY <2>1, <2>3 DEF StrictSubsetOrdering
  <2>. QED BY <1>4, <1>5, <2>2, <2>4
<1>. QED BY <1>6

Behind(h) == {h} \cup SinkGates(h)

(* Walks of n steps from a sink of g, each to a sink of the gate or nowhere. *)
Walks(g, n) == {p \in [0..n -> Gates] : /\ p[0] \in SinkGates(g)
                                        /\ \A i \in 1..n : p[i] \in Behind(p[i - 1])}

(* The function that Reachable is defined with exists: it gives the ends of
   the walks. *)
LEMMA WalksEnd ==
  ASSUME NEW g \in Gates
  PROVE  \E f : f = [n \in Nat |-> IF n = 0 THEN SinkGates(g)
                                   ELSE UNION {Behind(h) : h \in f[n - 1]}]
<1> DEFINE f == [n \in Nat |-> {p[n] : p \in Walks(g, n)}]
<1>1. f[0] = SinkGates(g)
  <2>1. ASSUME NEW h \in SinkGates(g) PROVE h \in f[0]
    <3> DEFINE p == [i \in 0..0 |-> h]
    <3>1. p \in Walks(g, 0) /\ p[0] = h BY <2>1 DEF Walks, SinkGates
    <3>. QED BY <3>1
  <2>2. f[0] \subseteq SinkGates(g) BY DEF Walks
  <2>. QED BY <2>1, <2>2
<1>2. ASSUME NEW n \in Nat, n # 0
      PROVE  f[n] = UNION {Behind(h) : h \in f[n - 1]}
  <2>0. n - 1 \in Nat /\ 0..(n - 1) \subseteq 0..n /\ n \in 0..n /\ n \in 1..n /\ 0 \in 0..(n-1) /\ n # 0
    BY <1>2
  <2>1. ASSUME NEW p \in Walks(g, n) PROVE \E h \in f[n - 1] : p[n] \in Behind(h)
    <3> DEFINE q == [i \in 0..(n - 1) |-> p[i]]
    <3>1. q \in [0..(n - 1) -> Gates] BY <2>0 DEF Walks
    <3>2. q[0] \in SinkGates(g) BY <2>0 DEF Walks
    <3>3. \A i \in 1..(n - 1) : i \in 1..n /\ i \in 0..(n-1) /\ i - 1 \in 0..(n - 1) BY <2>0
    <3>4. \A i \in 1..(n - 1) : q[i] \in Behind(q[i - 1]) BY <3>3 DEF Walks
    <3>5. q \in Walks(g, n - 1) BY <3>1, <3>2, <3>4 DEF Walks
    <3>6. n - 1 \in 0..(n - 1) BY <2>0
    <3>7. q[n - 1] \in f[n - 1] BY <2>0, <3>5
    <3>8. p[n] \in Behind(q[n - 1]) BY <2>0, <3>6 DEF Walks
    <3>. QED BY <3>7, <3>8
  <2>2. ASSUME NEW h \in f[n - 1], NEW x \in Behind(h) PROVE x \in f[n]
    <3>1. PICK q \in Walks(g, n - 1) : h = q[n - 1] BY <2>0
    <3> DEFINE p == [i \in 0..n |-> IF i = n THEN x ELSE q[i]]
    <3>2. q \in [0..(n - 1) -> Gates] /\ n - 1 \in 0..(n - 1) BY <2>0 DEF Walks
    <3>3. h \in Gates /\ x \in Gates BY <3>1, <3>2 DEF Behind, SinkGates
    <3>4. \A i \in 0..n : i = n \/ i \in 0..(n - 1) BY <2>0
    <3>5. p \in [0..n -> Gates] BY <3>2, <3>3, <3>4
    <3>6. p[0] \in SinkGates(g) BY <2>0 DEF Walks
    <3>7. ASSUME NEW i \in 1..n PROVE p[i] \in Behind(p[i - 1])
      <4>1. i - 1 \in 0..n /\ i - 1 # n /\ i \in 0..n /\ (i = n \/ i \in 1..(n - 1)) BY <2>0
      <4>2. p[i - 1] = q[i - 1] BY <4>1
      <4>3. CASE i = n BY <3>1, <4>1, <4>2, <4>3
      <4>4. CASE i \in 1..(n - 1)
        <5>1. i # n BY <2>0, <4>4
        <5>2. p[i] = q[i] BY <4>1, <5>1
        <5>. QED BY <4>2, <4>4, <5>2 DEF Walks
      <4>. QED BY <4>1, <4>3, <4>4
    <3>8. p \in Walks(g, n) BY <3>5, <3>6, <3>7 DEF Walks
    <3>9. p[n] = x BY <2>0
    <3>. QED BY <3>8, <3>9
  <2>3. f[n] = {p[n] : p \in Walks(g, n)} OBVIOUS
  <2> HIDE DEF f
  <2>. QED BY <2>1, <2>2, <2>3
<1>3. f = [n \in Nat |-> f[n]] OBVIOUS
<1> HIDE DEF f
<1>4. f = [n \in Nat |-> IF n = 0 THEN SinkGates(g)
                         ELSE UNION {Behind(h) : h \in f[n - 1]}]
  BY <1>1, <1>2, <1>3
<1>. QED BY <1>4

(* The sinks of a gate are reachable from it. *)
LEMMA SinksReachable ==
  ASSUME NEW g \in Gates
  PROVE  SinkGates(g) \subseteq Reachable(g)
<1> DEFINE w == CHOOSE f : f = [n \in Nat |-> IF n = 0 THEN SinkGates(g)
                                   ELSE UNION {Behind(h) : h \in f[n - 1]}]
<1>1. w = [n \in Nat |-> IF n = 0 THEN SinkGates(g)
                         ELSE UNION {Behind(h) : h \in w[n - 1]}]
  BY WalksEnd
<1>2. Reachable(g) = w[Cardinality(Gates)] BY DEF Reachable, Behind
<1> HIDE DEF w
<1>3. w[0] = SinkGates(g) /\ \A n \in Nat \ {0} : w[n - 1] \subseteq w[n]
  <2>1. w[0] = SinkGates(g) BY <1>1
  <2>2. ASSUME NEW n \in Nat \ {0} PROVE w[n - 1] \subseteq w[n]
    <3>1. w[n] = UNION {Behind(h) : h \in w[n - 1]} BY <1>1
    <3>. QED BY <3>1 DEF Behind
  <2>. QED BY <2>1, <2>2
<1>4. ASSUME NEW h \in SinkGates(g), NEW m \in Nat PROVE h \in w[m]
  <2> DEFINE K == {n \in Nat : h \notin w[n]}
  <2> SUFFICES ASSUME K # {} PROVE FALSE OBVIOUS
  <2>1. PICK k \in K : \A j \in K : k <= j BY LeastNumber
  <2>2. k \in Nat \ {0} BY <1>3, <1>4
  <2>3. k - 1 \in Nat /\ ~(k <= k - 1) BY <2>2
  <2>4. h \in w[k - 1] BY <2>1, <2>3
  <2>. QED BY <1>3, <2>2, <2>4
<1>5. Cardinality(Gates) \in Nat BY NetlistAssumption, FS_CardinalityType
<1>. QED BY <1>2, <1>4, <1>5

-----------------------------------------------------------------------------
(***************************************************************************)
(* The names of nets and points.                                           *)
(***************************************************************************)
LEMMA NetNames ==
  /\ Gates \subseteq Nat \ {Undriven} /\ IsFiniteSet(Gates)
  /\ Starts \in Seq(Sources) /\ ToSet(Starts) \subseteq Sources
  /\ Gates \cap ToSet(Starts) = {}
  /\ Sources = Gates \cup ToSet(Starts)
  /\ Undriven \notin Sources
  /\ IsFiniteSet(Sources \cup {Undriven})
<1>1. /\ Gates \subseteq Nat \ {Undriven} /\ IsFiniteSet(Gates)
      /\ Starts \in Seq(Nat \ (Gates \cup {Undriven}))
  BY NetlistAssumption
<1>2. /\ DOMAIN Starts = 1..Len(Starts) /\ Len(Starts) \in Nat
      /\ \A i \in 1..Len(Starts) : Starts[i] \in Nat \ (Gates \cup {Undriven})
  BY <1>1
<1>3. ToSet(Starts) \subseteq Nat \ (Gates \cup {Undriven}) BY <1>2 DEF ToSet
<1>4. \A i \in 1..Len(Starts) : Starts[i] \in Sources BY <1>2 DEF Sources, ToSet
<1>5. Starts \in Seq(Sources) BY <1>1, <1>2, <1>4
<1>6. IsFiniteSet(ToSet(Starts))
  <2>1. IsFiniteSet(1..Len(Starts)) BY <1>2, FS_Interval
  <2>2. Starts \in Surjection(1..Len(Starts), ToSet(Starts)) BY <1>1, <1>2 DEF Surjection, ToSet
  <2>. QED BY <2>1, <2>2, FS_Surjection
<1>7. IsFiniteSet(Sources \cup {Undriven})
  BY <1>1, <1>6, FS_Union, FS_AddElement DEF Sources
<1>. QED BY <1>1, <1>3, <1>5, <1>7 DEF Sources

LEMMA PointNames ==
  /\ \A n \in Sources : SourceOf(n) \in SourcePoints /\ SourceOf(n) \notin InputPoints
                         /\ SourceOf(n) \notin Ends
  /\ \A n \in Sources, g \in Gates :
        Input(n, g) \in InputPoints /\ Input(n, g) \notin SourcePoints /\ Input(n, g) \notin Ends
  /\ \A m, n : SourceOf(m) = SourceOf(n) => m = n
  /\ \A m, n, g, h : Input(m, g) = Input(n, h) => m = n /\ g = h
  /\ \A m, n : \A g \in Gates : SourceOf(m) # Input(n, g)
  BY NetNames, PointsAssumption
  DEF SourceOf, Input, SourcePoints, InputPoints, Undriven

LEMMA NetsOfGate ==
  ASSUME TypeOK, NEW g \in Gates
  PROVE  netlist.fanin[g] \subseteq Sources \cup {Undriven} /\ IsFiniteSet(netlist.fanin[g])
<1>1. netlist.fanin[g] \in SUBSET (Sources \cup {Undriven}) BY NetlistAssumption DEF TypeOK
<1>. QED BY <1>1, NetNames, FS_Subset

LEMMA NetsOfEnd ==
  ASSUME TypeOK, NEW e \in Ends
  PROVE  netlist.net[e] \in Sources \cup {Undriven}
  BY NetlistAssumption DEF TypeOK

LEMMA GatesListed ==
  ASSUME NEW gs, gs \subseteq Gates
  PROVE  /\ IsFiniteSet(gs)
         /\ ById(gs) \in Seq(Gates) /\ IsInjective(ById(gs)) /\ ToSet(ById(gs)) = gs
<1>1. gs \in SUBSET Gates /\ gs \subseteq Nat BY NetNames
<1>2. IsFiniteSet(gs) BY NetNames, FS_Subset
<1>3. ById(gs) \in Seq(gs) /\ IsInjective(ById(gs)) /\ ToSet(ById(gs)) = gs
  BY NetNames, <1>2, ListingById
<1>4. ById(gs) \in Seq(Gates) BY <1>3
<1>. QED BY <1>2, <1>3, <1>4

LEMMA InputsListed ==
  ASSUME NEW n \in Sources, NEW gs, gs \subseteq Gates
  PROVE  LET t == [i \in DOMAIN ById(gs) |-> Input(n, ById(gs)[i])]
         IN  /\ t \in Seq(SourcePoints \cup InputPoints \cup Ends)
             /\ IsInjective(t) /\ ToSet(t) = {Input(n, g) : g \in gs}
<1> DEFINE s == ById(gs)
           t == [i \in DOMAIN s |-> Input(n, s[i])]
<1>1. s \in Seq(Gates) /\ IsInjective(s) /\ ToSet(s) = gs BY GatesListed
<1> HIDE DEF s
<1>2. Len(s) \in Nat /\ DOMAIN s = 1..Len(s) /\ \A i \in 1..Len(s) : s[i] \in Gates BY <1>1
<1>3. \A i \in 1..Len(s) : Input(n, s[i]) \in InputPoints BY <1>2, PointNames
<1>4. t \in Seq(SourcePoints \cup InputPoints \cup Ends) BY <1>2, <1>3
<1>5. IsInjective(t) BY <1>1, PointNames DEF IsInjective
<1>6. ToSet(t) = {Input(n, s[i]) : i \in DOMAIN s} BY DEF ToSet
<1>7. ToSet(t) = {Input(n, g) : g \in gs} BY <1>1, <1>6 DEF ToSet
<1>. QED BY <1>4, <1>5, <1>7 DEF s

-----------------------------------------------------------------------------
LEMMA InitInv == Init => IInv
<1> SUFFICES ASSUME Init PROVE IInv OBVIOUS
<1> DEFINE gs == {g \in Gates : netlist.fanin[g] = {}}
<1>1. /\ netlist \in Netlists /\ phase = "loop" /\ nets = Starts /\ required = <<>> /\ stopped = {}
      /\ active = [g \in Gates |-> Cardinality(netlist.fanin[g])]
      /\ ready = ById(gs)
      /\ arrival = [i \in DOMAIN Starts |-> SourceOf(Starts[i])]
  BY DEF Init
<1>2. \A g \in Gates : netlist.fanin[g] \subseteq Sources \cup {Undriven} /\ IsFiniteSet(netlist.fanin[g])
  <2> TAKE g \in Gates
  <2>1. netlist.fanin[g] \in SUBSET (Sources \cup {Undriven}) BY <1>1, NetlistAssumption
  <2>. QED BY <2>1, NetNames, FS_Subset
<1>3. ready \in Seq(Gates) /\ IsInjective(ready) /\ ToSet(ready) = gs
  BY <1>1, GatesListed
<1> HIDE DEF gs
<1>4. Len(Starts) \in Nat /\ DOMAIN Starts = 1..Len(Starts) /\ IsInjective(Starts)
      /\ \A i \in 1..Len(Starts) : Starts[i] \in Sources
  BY NetNames, PointsAssumption
<1>5. arrival \in Seq(SourcePoints \cup InputPoints \cup Ends)
  BY <1>1, <1>4, PointNames
<1>6. IsInjective(arrival)
  BY <1>1, <1>4, PointNames DEF IsInjective
<1>7. Placed = {SourceOf(n) : n \in ToSet(Starts)}
  BY <1>1 DEF Placed, ToSet
<1>8. Taken = {}
  BY <1>1, <1>7, PointNames DEF Taken
<1>9. \A g \in Gates : SourceOf(g) \notin Placed
  BY <1>7, PointNames, NetNames
<1>10. \A n \in Sources, g \in Gates : Input(n, g) \notin Placed
  BY <1>7, PointNames
<1>11. TypeOK
  <2>1. active \in [Gates -> Nat] BY <1>1, <1>2, FS_CardinalityType
  <2>2. required \in Seq(Ends) BY <1>1
  <2>3. nets \in Seq(Sources) BY <1>1, NetNames
  <2>. QED BY <1>1, <1>3, <1>5, <2>1, <2>2, <2>3 DEF TypeOK, Phases
<1>12. NothingTwice
  BY <1>1, <1>3, <1>6, EmptyList, PointsAssumption DEF NothingTwice
<1>13. ListsHoldSinks
  <2>1. ToSet(required) = {} BY <1>1, EmptyList
  <2>2. \A n \in ToSet(Starts) : SourceOf(n) \notin Ends BY NetNames, PointNames
  <2>4. Placed \cap Ends = {} BY <1>7, <2>2
  <2>3. \A n \in ToSet(nets) \cup ToSet(Starts) : SourceOf(n) \in Placed BY <1>1, <1>7
  <2>. QED BY <1>8, <1>10, <2>1, <2>4, <2>3 DEF ListsHoldSinks
<1>14. CountersRight
  <2>1. \A g \in Gates : WaitsFor(g) = netlist.fanin[g] BY <1>8 DEF WaitsFor
  <2>2. \A g \in Gates : active[g] = Cardinality(netlist.fanin[g]) BY <1>1
  <2>3. \A g \in Gates : active[g] = 0 <=> g \in ToSet(ready)
    BY <1>2, <1>3, <2>2, FS_EmptySet DEF gs
  <2>4. \A g \in ToSet(ready) : g \in Gates BY <1>3 DEF gs
  <2>. QED BY <1>1, <1>9, <2>1, <2>2, <2>3, <2>4 DEF CountersRight
<1>15. ReadyTaken /\ PlacedInOrder /\ AllPointsPlaced
  BY <1>1, <1>9, <1>10 DEF ReadyTaken, PlacedInOrder, AllPointsPlaced
<1>. QED BY <1>11, <1>12, <1>13, <1>14, <1>15 DEF IInv

(* A step that only goes on to the next phase. *)
LEMMA PhaseInv ==
  ASSUME IInv, phase' \in Phases,
         UNCHANGED <<netlist, arrival, required, active, nets, ready, stopped>>,
         phase' = "check" => ready = <<>>,
         phase' = "done" <=> phase = "done"
  PROVE  IInv'
<1>1. TypeOK' BY DEF IInv, TypeOK
<1>2. NothingTwice' BY DEF IInv, NothingTwice
<1>3. Placed' = Placed /\ Taken' = Taken /\ \A g : WaitsFor(g)' = WaitsFor(g)
  BY DEF Placed, Taken, WaitsFor
<1>4. ListsHoldSinks' BY <1>3 DEF IInv, ListsHoldSinks
<1>5. CountersRight' BY <1>3 DEF IInv, CountersRight
<1>6. PlacedInOrder' BY <1>3 DEF IInv, PlacedInOrder, Before
<1>7. AllPointsPlaced' BY DEF IInv, AllPointsPlaced
<1>. QED BY <1>1, <1>2, <1>4, <1>5, <1>6, <1>7 DEF IInv, ReadyTaken

LEMMA TakeNetInv == ASSUME IInv, TakeNet PROVE IInv'
<1> DEFINE n == Head(nets)
           gs == SinkGates(n)
           es == SinkEnds(n)
           rs == BecomeReady(gs)
           t == [i \in DOMAIN ById(gs) |-> Input(n, ById(gs)[i])]
<1>1. /\ TypeOK /\ NothingTwice /\ ListsHoldSinks /\ CountersRight /\ PlacedInOrder
  BY DEF IInv
<1>2. /\ phase = "nets" /\ phase' = "nets" /\ netlist' = netlist /\ stopped' = stopped
      /\ nets # <<>> /\ nets' = Tail(nets)
      /\ required' = required \o SetToSeq(es)
      /\ arrival' = arrival \o t
      /\ active' = [g \in Gates |-> IF g \in gs THEN active[g] - 1 ELSE active[g]]
      /\ ready' = ready \o ById(rs)
  BY DEF TakeNet
<1>3. /\ nets' \in Seq(Sources) /\ n \in Sources /\ n \in ToSet(nets)
      /\ ToSet(nets') = ToSet(nets) \ {n} /\ IsInjective(nets')
  BY <1>1, <1>2, FirstTaken DEF TypeOK, NothingTwice
<1>4. SourceOf(n) \in Placed /\ n \notin Taken
  BY <1>1, <1>3 DEF ListsHoldSinks, Taken
<1>5. /\ gs \subseteq Gates /\ rs \subseteq gs
      /\ \A g \in Gates : g \in gs <=> n \in netlist.fanin[g]
      /\ \A g \in rs : active[g] = 1
      /\ \A g \in gs \ rs : active[g] # 1
  BY DEF SinkGates, BecomeReady
<1>6. /\ t \in Seq(SourcePoints \cup InputPoints \cup Ends) /\ IsInjective(t)
      /\ ToSet(t) = {Input(n, g) : g \in gs}
  BY <1>3, <1>5, InputsListed
<1>7. ById(rs) \in Seq(Gates) /\ IsInjective(ById(rs)) /\ ToSet(ById(rs)) = rs
  BY <1>5, GatesListed
<1>8. /\ es \subseteq Ends /\ \A e \in Ends : e \in es <=> netlist.net[e] = n
  BY DEF SinkEnds
<1>9. SetToSeq(es) \in Seq(Ends) /\ IsInjective(SetToSeq(es)) /\ ToSet(SetToSeq(es)) = es
  <2>1. es \in SUBSET Ends /\ IsFiniteSet(Ends) BY <1>8, PointsAssumption
  <2>2. IsFiniteSet(es) BY <2>1, FS_Subset
  <2>3. SetToSeq(es) \in Seq(es) /\ IsInjective(SetToSeq(es)) /\ ToSet(SetToSeq(es)) = es
    BY <2>2, ListingOfSet
  <2>. QED BY <1>8, <2>3
<1> HIDE DEF n, gs, es, rs, t
<1>10. \A g \in gs : Input(n, g) \notin Placed
  BY <1>1, <1>3, <1>4, <1>5 DEF ListsHoldSinks
<1>11. /\ arrival' \in Seq(SourcePoints \cup InputPoints \cup Ends)
       /\ Placed' = Placed \cup {Input(n, g) : g \in gs}
       /\ IsInjective(arrival')
       /\ \A p, q : Before(p, q) => Before(p, q)'
       /\ \A p \in Placed, g \in gs : InSeq(arrival', p, Input(n, g))
  <2>1. arrival \in Seq(SourcePoints \cup InputPoints \cup Ends) /\ IsInjective(arrival)
    BY <1>1 DEF TypeOK, NothingTwice
  <2>2. ToSet(arrival) \cap ToSet(t) = {} BY <1>6, <1>10 DEF Placed
  <2>3. /\ arrival' \in Seq(SourcePoints \cup InputPoints \cup Ends)
        /\ ToSet(arrival') = ToSet(arrival) \cup ToSet(t)
        /\ IsInjective(arrival')
        /\ \A p, q : InSeq(arrival, p, q) => InSeq(arrival', p, q)
        /\ \A p \in ToSet(arrival), q \in ToSet(t) : InSeq(arrival', p, q)
    BY <1>2, <1>6, <2>1, <2>2, Joined
  <2>4. \A g \in gs : Input(n, g) \in ToSet(t) BY <1>6
  <2>5. Placed' = Placed \cup {Input(n, g) : g \in gs} BY <1>6, <2>3 DEF Placed
  <2>6. \A p, q : Before(p, q) => Before(p, q)' BY <2>3 DEF Before, InSeq
  <2>7. \A p \in Placed, g \in gs : InSeq(arrival', p, Input(n, g))
    BY <2>3, <2>4 DEF Placed
  <2>. QED BY <2>3, <2>5, <2>6, <2>7
<1>12. Taken' = Taken \cup {n}
  <2>1. \A m \in Sources : SourceOf(m) \in Placed' <=> SourceOf(m) \in Placed
    BY <1>5, <1>11, PointNames
  <2>. QED BY <1>3, <1>4, <2>1 DEF Taken
<1>13. \A g \in Gates : WaitsFor(g)' = WaitsFor(g) \ {n}
  BY <1>2, <1>12 DEF WaitsFor
<1>14. gs \cap stopped = {}
  <2>1. \A g \in stopped : WaitsFor(g) = {Undriven} BY <1>1 DEF CountersRight
  <2>2. n # Undriven BY <1>3, NetNames
  <2>. QED BY <1>4, <1>5, <2>1, <2>2 DEF WaitsFor
<1>15. \A g \in Gates : g \notin stopped =>
          /\ IsFiniteSet(WaitsFor(g)) /\ Cardinality(WaitsFor(g)) \in Nat
          /\ active[g] = Cardinality(WaitsFor(g))
          /\ active'[g] = Cardinality(WaitsFor(g)')
          /\ g \in gs => active[g] > 0
  <2> SUFFICES ASSUME NEW g \in Gates, g \notin stopped
               PROVE  /\ IsFiniteSet(WaitsFor(g)) /\ Cardinality(WaitsFor(g)) \in Nat
                      /\ active[g] = Cardinality(WaitsFor(g))
                      /\ active'[g] = Cardinality(WaitsFor(g)')
                      /\ g \in gs => active[g] > 0
    OBVIOUS
  <2>1. IsFiniteSet(netlist.fanin[g]) BY <1>1, NetsOfGate
  <2>2. IsFiniteSet(WaitsFor(g)) BY <2>1, FS_Difference DEF WaitsFor
  <2>3. Cardinality(WaitsFor(g)) \in Nat BY <2>2, FS_CardinalityType
  <2>4. active[g] = Cardinality(WaitsFor(g)) BY <1>1 DEF CountersRight
  <2>5. g \in gs <=> n \in WaitsFor(g) BY <1>4, <1>5 DEF WaitsFor
  <2>6. Cardinality(WaitsFor(g)') = IF g \in gs THEN Cardinality(WaitsFor(g)) - 1
                                    ELSE Cardinality(WaitsFor(g))
    BY <1>13, <2>2, <2>5, FS_RemoveElement
  <2>7. g \in gs => Cardinality(WaitsFor(g)) # 0 BY <2>2, <2>5, FS_EmptySet
  <2>. QED BY <1>2, <2>2, <2>3, <2>4, <2>6, <2>7
<1>16. \A g \in rs : g \notin ToSet(ready) /\ SourceOf(g) \notin Placed
  BY <1>1, <1>5 DEF CountersRight
<1>17. /\ ready' \in Seq(Gates) /\ IsInjective(ready') /\ ToSet(ready') = ToSet(ready) \cup rs
  <2>1. ready \in Seq(Gates) /\ IsInjective(ready) BY <1>1 DEF TypeOK, NothingTwice
  <2>2. ToSet(ready) \cap ToSet(ById(rs)) = {} BY <1>7, <1>16
  <2>. QED BY <1>2, <1>7, <2>1, <2>2, Joined
<1>18. /\ required' \in Seq(Ends) /\ IsInjective(required') /\ ToSet(required') = ToSet(required) \cup es
  <2>1. required \in Seq(Ends) /\ IsInjective(required) BY <1>1 DEF TypeOK, NothingTwice
  <2>2. ToSet(required) \cap ToSet(SetToSeq(es)) = {}
    BY <1>1, <1>4, <1>8, <1>9 DEF ListsHoldSinks
  <2>. QED BY <1>2, <1>9, <2>1, <2>2, Joined
<1>20. TypeOK'
  <2>1. active' \in [Gates -> Nat]
    BY <1>1, <1>2, <1>14, <1>15 DEF TypeOK
  <2>. QED BY <1>1, <1>2, <1>3, <1>11, <1>17, <1>18, <2>1 DEF TypeOK, Phases
<1>21. NothingTwice' BY <1>3, <1>11, <1>17, <1>18 DEF NothingTwice
<1>22. ListsHoldSinks'
  <2>1. \A m \in ToSet(nets') \cup ToSet(Starts) : SourceOf(m) \in Placed'
    BY <1>1, <1>3, <1>11 DEF ListsHoldSinks
  <2>2. ASSUME NEW m \in Sources, NEW g \in Gates
        PROVE  Input(m, g) \in Placed' <=> m \in Taken' /\ m \in netlist'.fanin[g]
    <3>1. Input(m, g) \in Placed' <=> Input(m, g) \in Placed \/ (m = n /\ g \in gs)
      BY <1>11, PointNames
    <3>2. Input(m, g) \in Placed <=> m \in Taken /\ m \in netlist.fanin[g]
      BY <1>1 DEF ListsHoldSinks
    <3>. QED BY <1>2, <1>5, <1>12, <3>1, <3>2
  <2>3. ToSet(required') = {e \in Ends : netlist'.net[e] \in Taken'}
    BY <1>1, <1>2, <1>8, <1>12, <1>18 DEF ListsHoldSinks
  <2>4. Placed' \cap Ends = {}
    BY <1>1, <1>2, <1>3, <1>5, <1>11, PointNames DEF ListsHoldSinks
  <2>. QED BY <2>1, <2>2, <2>3, <2>4 DEF ListsHoldSinks
<1>23. CountersRight'
  <2>1. ASSUME NEW g \in Gates
        PROVE  /\ active'[g] = IF g \in stopped' THEN 0 ELSE Cardinality(WaitsFor(g)')
               /\ active'[g] = 0 <=> g \in ToSet(ready') \/ SourceOf(g) \in Placed'
    <3>1. g \in stopped => active[g] = 0 /\ active'[g] = 0
      BY <1>1, <1>2, <1>14 DEF CountersRight
    <3>2. active[g] = 0 <=> g \in ToSet(ready) \/ SourceOf(g) \in Placed
      BY <1>1 DEF CountersRight
    <3>3. SourceOf(g) \in Placed' <=> SourceOf(g) \in Placed
      BY <1>5, <1>11, PointNames
    <3>4. g \in rs <=> g \in gs /\ active[g] = 1 BY <1>5
    <3>5. active'[g] = IF g \in gs THEN active[g] - 1 ELSE active[g] BY <1>2
    <3>6. g \in gs => active[g] # 0 BY <1>14, <1>15
    <3>7. active[g] \in Nat BY <1>1 DEF TypeOK
    <3>8. active'[g] = 0 <=> active[g] = 0 \/ g \in rs BY <3>4, <3>5, <3>6, <3>7
    <3>. QED BY <1>2, <1>15, <1>17, <3>1, <3>2, <3>3, <3>8
  <2>2. \A g \in stopped' : WaitsFor(g)' = {Undriven}
    <3>1. n # Undriven BY <1>3, NetNames
    <3>. QED BY <1>1, <1>2, <1>13, <3>1 DEF CountersRight, TypeOK
  <2>3. \A g \in ToSet(ready') : SourceOf(g) \notin Placed'
    <3>1. \A g \in ToSet(ready') : SourceOf(g) \notin Placed
      BY <1>1, <1>16, <1>17 DEF CountersRight
    <3>. QED BY <1>5, <1>11, <3>1, PointNames
  <2>. QED BY <2>1, <2>2, <2>3 DEF CountersRight
<1>24. PlacedInOrder'
  <2> SUFFICES ASSUME NEW g \in Gates
               PROVE  /\ \A m \in Sources : Input(m, g) \in Placed' =>
                                             Before(SourceOf(m), Input(m, g))'
                      /\ SourceOf(g) \in Placed' =>
                           \A m \in netlist.fanin[g] :
                             Before(Input(m, g), SourceOf(g))' \/ (g \in stopped /\ m = Undriven)
    BY <1>2 DEF PlacedInOrder
  <2>1. ASSUME NEW m \in Sources, Input(m, g) \in Placed'
        PROVE  Before(SourceOf(m), Input(m, g))'
    <3>1. Input(m, g) \in Placed \/ (m = n /\ g \in gs) BY <1>11, <2>1, PointNames
    <3>2. CASE Input(m, g) \in Placed
      <4>1. Before(SourceOf(m), Input(m, g)) BY <1>1, <3>2 DEF PlacedInOrder
      <4>. QED BY <1>11, <4>1
    <3>3. CASE m = n /\ g \in gs
      <4>1. InSeq(arrival', SourceOf(m), Input(m, g)) BY <1>4, <1>11, <3>3
      <4>. QED BY <4>1 DEF Before, InSeq
    <3>. QED BY <3>1, <3>2, <3>3
  <2>2. SourceOf(g) \in Placed' => SourceOf(g) \in Placed BY <1>5, <1>11, PointNames
  <2>. QED BY <1>1, <1>11, <2>1, <2>2 DEF PlacedInOrder
<1>25. ReadyTaken' /\ AllPointsPlaced' BY <1>2 DEF ReadyTaken, AllPointsPlaced
<1>. QED BY <1>20, <1>21, <1>22, <1>23, <1>24, <1>25 DEF IInv

LEMMA TakeCellInv == ASSUME IInv, TakeCell PROVE IInv'
<1>1. /\ TypeOK /\ NothingTwice /\ ListsHoldSinks /\ CountersRight /\ PlacedInOrder
  BY DEF IInv
<1>2. PICK g \in Gates :
        /\ g \in ToSet(ready) /\ IsInjective(ready') /\ ready' \in Seq(Gates)
        /\ ToSet(ready') = ToSet(ready) \ {g}
        /\ arrival' = Append(arrival, SourceOf(g)) /\ nets' = Append(nets, g)
  BY <1>1, FirstTaken DEF TypeOK, NothingTwice, TakeCell, NetAdded
<1>3. /\ phase = "cells" /\ phase' = "cells"
      /\ netlist' = netlist /\ required' = required /\ active' = active /\ stopped' = stopped
  BY DEF TakeCell
<1>4. SourceOf(g) \notin Placed BY <1>1, <1>2 DEF CountersRight
<1>5. g \in Sources /\ SourceOf(g) \in SourcePoints BY NetNames, PointNames
<1>6. /\ arrival' \in Seq(SourcePoints \cup InputPoints \cup Ends)
      /\ Placed' = Placed \cup {SourceOf(g)}
      /\ IsInjective(arrival')
      /\ \A p, q : Before(p, q) => Before(p, q)'
      /\ \A p \in Placed : InSeq(arrival', p, SourceOf(g))
  <2>1. /\ arrival \in Seq(SourcePoints \cup InputPoints \cup Ends) /\ IsInjective(arrival)
        /\ SourceOf(g) \in SourcePoints \cup InputPoints \cup Ends
        /\ SourceOf(g) \notin ToSet(arrival)
    BY <1>1, <1>4, <1>5 DEF TypeOK, NothingTwice, Placed
  <2>2. /\ arrival' \in Seq(SourcePoints \cup InputPoints \cup Ends)
        /\ ToSet(arrival') = ToSet(arrival) \cup {SourceOf(g)}
        /\ IsInjective(arrival')
        /\ \A p, q : InSeq(arrival, p, q) => InSeq(arrival', p, q)
        /\ \A p \in ToSet(arrival) : InSeq(arrival', p, SourceOf(g))
    BY <1>2, <2>1, OneMore
  <2>3. \A p, q : Before(p, q) => Before(p, q)' BY <2>2 DEF Before, InSeq
  <2>. QED BY <2>2, <2>3 DEF Placed
<1>7. /\ nets' \in Seq(Sources) /\ IsInjective(nets') /\ ToSet(nets') = ToSet(nets) \cup {g}
  <2>1. nets \in Seq(Sources) /\ IsInjective(nets) BY <1>1 DEF TypeOK, NothingTwice
  <2>2. g \notin ToSet(nets) BY <1>1, <1>4 DEF ListsHoldSinks
  <2>. QED BY <1>2, <1>5, <2>1, <2>2, OneMore
<1>8. Taken' = Taken
  <2>1. \A m \in Sources : SourceOf(m) \in Placed' <=> SourceOf(m) \in Placed \/ m = g
    BY <1>6, PointNames
  <2>. QED BY <1>4, <1>7, <2>1 DEF Taken
<1>9. \A h \in Gates : WaitsFor(h)' = WaitsFor(h) BY <1>3, <1>8 DEF WaitsFor
<1>10. TypeOK' BY <1>1, <1>2, <1>3, <1>6, <1>7 DEF TypeOK, Phases
<1>11. NothingTwice' BY <1>1, <1>2, <1>3, <1>6, <1>7 DEF NothingTwice
<1>12. ListsHoldSinks'
  <2>1. \A m \in ToSet(nets') \cup ToSet(Starts) : SourceOf(m) \in Placed'
    BY <1>1, <1>6, <1>7 DEF ListsHoldSinks
  <2>2. ASSUME NEW m \in Sources, NEW h \in Gates
        PROVE  Input(m, h) \in Placed' <=> m \in Taken' /\ m \in netlist'.fanin[h]
    <3>1. Input(m, h) \in Placed' <=> Input(m, h) \in Placed BY <1>6, PointNames
    <3>. QED BY <1>1, <1>3, <1>8, <3>1 DEF ListsHoldSinks
  <2>3. ToSet(required') = {e \in Ends : netlist'.net[e] \in Taken'}
    BY <1>1, <1>3, <1>8 DEF ListsHoldSinks
  <2>4. Placed' \cap Ends = {} BY <1>1, <1>3, <1>5, <1>6, PointNames DEF ListsHoldSinks
  <2>. QED BY <2>1, <2>2, <2>3, <2>4 DEF ListsHoldSinks
<1>13. CountersRight'
  <2>1. ASSUME NEW h \in Gates
        PROVE  /\ active'[h] = IF h \in stopped' THEN 0 ELSE Cardinality(WaitsFor(h)')
               /\ active'[h] = 0 <=> h \in ToSet(ready') \/ SourceOf(h) \in Placed'
    <3>1. SourceOf(h) \in Placed' <=> SourceOf(h) \in Placed \/ h = g BY <1>6, PointNames
    <3>. QED BY <1>1, <1>2, <1>3, <1>9, <3>1 DEF CountersRight
  <2>2. \A h \in stopped' : WaitsFor(h)' = {Undriven}
    BY <1>1, <1>3, <1>9 DEF CountersRight, TypeOK
  <2>3. \A h \in ToSet(ready') : SourceOf(h) \notin Placed'
    BY <1>1, <1>2, <1>6, PointNames DEF CountersRight
  <2>. QED BY <2>1, <2>2, <2>3 DEF CountersRight
<1>14. PlacedInOrder'
  <2> SUFFICES ASSUME NEW h \in Gates
               PROVE  /\ \A m \in Sources : Input(m, h) \in Placed' =>
                                             Before(SourceOf(m), Input(m, h))'
                      /\ SourceOf(h) \in Placed' =>
                           \A m \in netlist.fanin[h] :
                             Before(Input(m, h), SourceOf(h))' \/ (h \in stopped /\ m = Undriven)
    BY <1>3 DEF PlacedInOrder
  <2>1. ASSUME NEW m \in Sources, Input(m, h) \in Placed'
        PROVE  Before(SourceOf(m), Input(m, h))'
    <3>1. Input(m, h) \in Placed BY <1>6, <2>1, PointNames
    <3>2. Before(SourceOf(m), Input(m, h)) BY <1>1, <3>1 DEF PlacedInOrder
    <3>. QED BY <1>6, <3>2
  <2>2. ASSUME SourceOf(h) \in Placed', NEW m \in netlist.fanin[h]
        PROVE  Before(Input(m, h), SourceOf(h))' \/ (h \in stopped /\ m = Undriven)
    <3>1. CASE SourceOf(h) \in Placed
      <4>1. Before(Input(m, h), SourceOf(h)) \/ (h \in stopped /\ m = Undriven)
        BY <1>1, <2>2, <3>1 DEF PlacedInOrder
      <4>. QED BY <1>6, <4>1
    <3>2. CASE SourceOf(h) \notin Placed
      <4>1. h = g BY <1>6, <2>2, <3>2, PointNames
      <4>2. active[h] = 0 BY <1>1, <1>2, <4>1 DEF CountersRight
      <4>3. WaitsFor(h) = {} \/ (h \in stopped /\ WaitsFor(h) = {Undriven})
        <5>1. IsFiniteSet(netlist.fanin[h]) BY <1>1, NetsOfGate
        <5>2. IsFiniteSet(WaitsFor(h)) BY <5>1, FS_Difference DEF WaitsFor
        <5>. QED BY <1>1, <4>2, <5>2, FS_EmptySet DEF CountersRight
      <4>4. CASE m \in Taken
        <5>1. m \in Sources BY <4>4 DEF Taken
        <5>2. Input(m, h) \in Placed BY <1>1, <2>2, <4>4, <5>1 DEF ListsHoldSinks
        <5>3. InSeq(arrival', Input(m, h), SourceOf(h)) BY <1>6, <4>1, <5>2
        <5>. QED BY <5>3 DEF Before, InSeq
      <4>5. CASE m \notin Taken
        BY <2>2, <4>3, <4>5 DEF WaitsFor
      <4>. QED BY <4>4, <4>5
    <3>. QED BY <3>1, <3>2
  <2>. QED BY <2>1, <2>2
<1>15. ReadyTaken' /\ AllPointsPlaced' BY <1>3 DEF ReadyTaken, AllPointsPlaced
<1>. QED BY <1>10, <1>11, <1>12, <1>13, <1>14, <1>15 DEF IInv

(* A wave has died out: a gate that waits for a net with a source waits for
   the output of another gate that waits, and is reachable from it.  So the
   gates that are behind no other wait for nothing but nets without source. *)
LEMMA StoppersUndriven ==
  ASSUME IInv, phase = "check", nets = <<>>,
         NEW g \in Waiting, \A h \in Waiting : g \notin Reachable(h)
  PROVE  WaitsFor(g) = {Undriven} /\ g \notin stopped
<1>1. /\ TypeOK /\ ListsHoldSinks /\ CountersRight /\ ready = <<>>
  BY DEF IInv, ReadyTaken
<1>2. g \in Gates /\ active[g] > 0 BY DEF Waiting
<1>3. ToSet(nets) = {} /\ ToSet(ready) = {} BY <1>1, EmptyList
<1>4. g \notin stopped /\ active[g] = Cardinality(WaitsFor(g))
  BY <1>1, <1>2 DEF CountersRight
<1>5. WaitsFor(g) # {}
  <2> SUFFICES ASSUME WaitsFor(g) = {} PROVE FALSE OBVIOUS
  <2>1. active[g] = 0 BY <1>4, FS_EmptySet
  <2>. QED BY <1>2, <2>1
<1>6. ASSUME NEW n \in WaitsFor(g), n # Undriven PROVE FALSE
  <2>1. n \in netlist.fanin[g] /\ n \notin Taken BY DEF WaitsFor
  <2>2. n \in Sources BY <1>1, <1>2, <1>6, <2>1, NetsOfGate
  <2>3. SourceOf(n) \notin Placed BY <1>3, <2>1, <2>2 DEF Taken
  <2>4. n \in Gates BY <1>1, <2>2, <2>3, NetNames DEF ListsHoldSinks
  <2>5. active[n] # 0 BY <1>1, <1>3, <2>3, <2>4 DEF CountersRight
  <2>6. n \in Waiting BY <1>1, <2>4, <2>5 DEF Waiting, TypeOK
  <2>7. g \in SinkGates(n) BY <1>2, <2>1 DEF SinkGates
  <2>. QED BY <2>4, <2>6, <2>7, SinksReachable
<1>. QED BY <1>4, <1>5, <1>6

LEMMA CheckInv == ASSUME IInv, Check PROVE IInv'
<1>1. /\ TypeOK /\ NothingTwice /\ ListsHoldSinks /\ CountersRight /\ PlacedInOrder
  BY DEF IInv
<1>2. CASE nets # <<>>
  BY <1>2, PhaseInv DEF Check, Phases
<1>3. CASE nets = <<>>
  <2>1. \E st \in SUBSET {g \in Waiting : \A h \in Waiting : g \notin Reachable(h)} :
          /\ phase' \in {"loop", "exited", "searching"}
          /\ active' = [g \in Gates |-> IF g \in st THEN 0 ELSE active[g]]
          /\ ready' = ready \o ById(st)
          /\ stopped' = stopped \cup st
    <3> DEFINE group == StoppingGroup
               st == IF group.phase = "loop" THEN group.left ELSE {}
    <3>1. /\ phase' = group.phase
          /\ active' = [g \in Gates |-> IF g \in st THEN 0 ELSE active[g]]
          /\ ready' = ready \o ById(st)
          /\ stopped' = stopped \cup st
      BY <1>3 DEF Check
    <3>2. group.left = {g \in Waiting : \A h \in Waiting : g \notin Reachable(h)}
      BY DEF StoppingGroup
    <3>3. group.phase \in {"loop", "exited", "searching"} BY DEF StoppingGroup, SearchResult
    <3>4. st \in SUBSET {g \in Waiting : \A h \in Waiting : g \notin Reachable(h)} BY <3>2
    <3> HIDE DEF st, group
    <3>. QED BY <3>1, <3>3, <3>4
  <2>2. PICK st \in SUBSET {g \in Waiting : \A h \in Waiting : g \notin Reachable(h)} :
          /\ phase' \in {"loop", "exited", "searching"}
          /\ active' = [g \in Gates |-> IF g \in st THEN 0 ELSE active[g]]
          /\ ready' = ready \o ById(st)
          /\ stopped' = stopped \cup st
    BY <2>1
  <2>3. phase = "check" /\ UNCHANGED <<netlist, arrival, required, nets>> BY DEF Check
  <2>4. st \subseteq Gates /\ \A g \in st : active[g] > 0 BY DEF Waiting
  <2>5. \A g \in st : WaitsFor(g) = {Undriven} /\ g \notin stopped
    BY <1>3, <2>3, StoppersUndriven
  <2>6. ready = <<>> BY <2>3 DEF IInv, ReadyTaken
  <2>7. ready' \in Seq(Gates) /\ IsInjective(ready') /\ ToSet(ready') = st
    <3>1. ById(st) \in Seq(Gates) /\ IsInjective(ById(st)) /\ ToSet(ById(st)) = st
      BY <2>4, GatesListed
    <3>2. ready' = ById(st) BY <2>2, <2>6, <3>1
    <3>. QED BY <3>1, <3>2
  <2>8. Placed' = Placed /\ Taken' = Taken /\ \A g : WaitsFor(g)' = WaitsFor(g)
    BY <2>3 DEF Placed, Taken, WaitsFor
  <2>9. TypeOK'
    <3>1. active' \in [Gates -> Nat] BY <1>1, <2>2 DEF TypeOK
    <3>2. phase' \in Phases BY <2>2 DEF Phases, Returned
    <3>3. stopped' \subseteq Gates BY <1>1, <2>2, <2>4 DEF TypeOK
    <3>. QED BY <1>1, <2>3, <2>7, <3>1, <3>2, <3>3 DEF TypeOK
  <2>10. NothingTwice' BY <1>1, <2>3, <2>7 DEF NothingTwice
  <2>11. ListsHoldSinks'
    BY <1>1, <2>3, <2>8 DEF ListsHoldSinks
  <2>12. CountersRight'
    <3>1. ASSUME NEW g \in Gates
          PROVE  /\ active'[g] = IF g \in stopped' THEN 0 ELSE Cardinality(WaitsFor(g)')
                 /\ active'[g] = 0 <=> g \in ToSet(ready') \/ SourceOf(g) \in Placed'
      <4>1. active'[g] = IF g \in st THEN 0 ELSE active[g] BY <2>2
      <4>2. active[g] = 0 <=> SourceOf(g) \in Placed
        BY <1>1, <2>6, EmptyList DEF CountersRight
      <4>. QED BY <1>1, <2>2, <2>4, <2>7, <2>8, <4>1, <4>2 DEF CountersRight
    <3>2. \A g \in stopped' : WaitsFor(g)' = {Undriven}
      BY <1>1, <2>2, <2>5, <2>8 DEF CountersRight
    <3>3. \A g \in ToSet(ready') : SourceOf(g) \notin Placed'
      <4>1. ASSUME NEW g \in st PROVE SourceOf(g) \notin Placed
        <5>1. active[g] # 0 /\ g \in Gates BY <2>4
        <5>. QED BY <1>1, <5>1 DEF CountersRight
      <4>. QED BY <2>7, <2>8, <4>1
    <3>. QED BY <3>1, <3>2, <3>3 DEF CountersRight
  <2>13. PlacedInOrder'
    BY <1>1, <2>2, <2>3, <2>8 DEF PlacedInOrder, Before
  <2>14. ReadyTaken' /\ AllPointsPlaced' BY <2>2 DEF ReadyTaken, AllPointsPlaced
  <2>. QED BY <2>9, <2>10, <2>11, <2>12, <2>13, <2>14 DEF IInv
<1>. QED BY <1>2, <1>3

(* The list is complete: a gate that waits for nothing is placed when no gate
   is ready, so that every net has given up its sinks. *)
LEMMA ReturnInv == ASSUME IInv, Return PROVE IInv'
<1>1. /\ TypeOK /\ NothingTwice /\ ListsHoldSinks /\ CountersRight /\ PlacedInOrder
  BY DEF IInv
<1>2. /\ phase = "loop" /\ nets = <<>> /\ ready = <<>>
      /\ UNCHANGED <<netlist, required, active, nets, ready, stopped>>
  BY DEF Return, WaveIsLeft
<1>3. CASE phase' = "asserted" /\ UNCHANGED arrival
  BY <1>2, <1>3, PhaseInv DEF Phases, Returned
<1>4. CASE /\ \A g \in Gates : active[g] <= 0
           /\ phase' = "done"
           /\ arrival' = arrival \o required
  <2>1. ToSet(nets) = {} /\ ToSet(ready) = {} BY <1>2, EmptyList
  <2>2. \A g \in Gates : active[g] = 0 BY <1>1, <1>4 DEF TypeOK
  <2>3. \A g \in Gates : SourceOf(g) \in Placed BY <1>1, <2>1, <2>2 DEF CountersRight
  <2>4. \A n \in Sources : SourceOf(n) \in Placed
    BY <1>1, <2>3, NetNames DEF ListsHoldSinks
  <2>5. Taken = Sources BY <2>1, <2>4 DEF Taken
  <2>6. Placed \cap Ends = {} BY <1>1, <1>2 DEF ListsHoldSinks
  <2>7. ToSet(required) \subseteq Ends BY <1>1 DEF ListsHoldSinks
  <2>8. /\ arrival \in Seq(SourcePoints \cup InputPoints \cup Ends)
        /\ required \in Seq(SourcePoints \cup InputPoints \cup Ends)
        /\ IsInjective(arrival) /\ IsInjective(required)
    BY <1>1 DEF TypeOK, NothingTwice
  <2>9. /\ arrival' \in Seq(SourcePoints \cup InputPoints \cup Ends)
        /\ Placed' = Placed \cup ToSet(required)
        /\ IsInjective(arrival')
        /\ \A p, q : Before(p, q) => Before(p, q)'
    <3>1. ToSet(arrival) \cap ToSet(required) = {} BY <2>6, <2>7 DEF Placed
    <3>2. /\ arrival' \in Seq(SourcePoints \cup InputPoints \cup Ends)
          /\ ToSet(arrival') = ToSet(arrival) \cup ToSet(required)
          /\ IsInjective(arrival')
          /\ \A p, q : InSeq(arrival, p, q) => InSeq(arrival', p, q)
      BY <1>4, <2>8, <3>1, Joined
    <3>3. \A p, q : Before(p, q) => Before(p, q)' BY <3>2 DEF Before, InSeq
    <3>. QED BY <3>2, <3>3 DEF Placed
  <2>10. /\ \A n \in Sources : SourceOf(n) \in Placed' <=> SourceOf(n) \in Placed
         /\ \A n \in Sources, g \in Gates : Input(n, g) \in Placed' <=> Input(n, g) \in Placed
    BY <2>7, <2>9, PointNames
  <2>11. Taken' = Taken BY <1>2, <2>10 DEF Taken
  <2>12. \A g : WaitsFor(g)' = WaitsFor(g) BY <1>2, <2>11 DEF WaitsFor
  <2>13. TypeOK' BY <1>1, <1>2, <1>4, <2>9 DEF TypeOK, Phases, Returned
  <2>14. NothingTwice' BY <1>1, <1>2, <2>9 DEF NothingTwice
  <2>15. ListsHoldSinks'
    <3>1. \A n \in ToSet(nets') \cup ToSet(Starts) : SourceOf(n) \in Placed'
      BY <1>1, <1>2, <2>9 DEF ListsHoldSinks
    <3>. QED BY <1>1, <1>2, <1>4, <2>10, <2>11, <3>1 DEF ListsHoldSinks
  <2>16. CountersRight'
    <3>1. \A g \in Gates : SourceOf(g) \in Placed' BY <2>3, <2>9
    <3>. QED BY <1>1, <1>2, <2>1, <2>2, <2>12, <3>1 DEF CountersRight
  <2>17. PlacedInOrder'
    <3> SUFFICES ASSUME NEW g \in Gates
                 PROVE  /\ \A n \in Sources : Input(n, g) \in Placed' =>
                                               Before(SourceOf(n), Input(n, g))'
                        /\ SourceOf(g) \in Placed' =>
                             \A n \in netlist.fanin[g] :
                               Before(Input(n, g), SourceOf(g))' \/ (g \in stopped /\ n = Undriven)
      BY <1>2 DEF PlacedInOrder
    <3>. QED BY <1>1, <2>3, <2>9, <2>10 DEF PlacedInOrder
  <2>18. AllPointsPlaced'
    <3> DEFINE ins == UNION {{Input(n, g) : n \in netlist.fanin[g] \ {Undriven}} : g \in Gates}
    <3>1. ToSet(required) = {e \in Ends : netlist.net[e] # Undriven}
      <4>1. \A e \in Ends : netlist.net[e] \in Sources <=> netlist.net[e] # Undriven
        BY <1>1, NetsOfEnd, NetNames
      <4>. QED BY <1>1, <2>5, <4>1 DEF ListsHoldSinks
    <3>2. \A p \in Placed : p \in SourcePoints \/ p \in InputPoints
      <4> SUFFICES ASSUME NEW i \in DOMAIN arrival, arrival[i] \notin Ends
                   PROVE  arrival[i] \in SourcePoints \/ arrival[i] \in InputPoints
        BY <2>6 DEF Placed, ToSet
      <4>. QED BY <2>8
    <3>3. ASSUME NEW p \in Placed PROVE p \in SourcePoints \cup ins
      <4>1. CASE p \in InputPoints
        <5>1. PICK n \in Sources, g \in Gates : p = Input(n, g) BY <4>1 DEF InputPoints
        <5>2. n \in netlist.fanin[g] BY <1>1, <3>3, <5>1 DEF ListsHoldSinks
        <5>3. n # Undriven BY NetNames
        <5>. QED BY <5>1, <5>2, <5>3
      <4>. QED BY <3>2, <4>1
    <3>4. SourcePoints \subseteq Placed BY <2>4 DEF SourcePoints
    <3>5. ins \subseteq Placed
      <4> SUFFICES ASSUME NEW g \in Gates, NEW n \in netlist.fanin[g] \ {Undriven}
                   PROVE  Input(n, g) \in Placed
        OBVIOUS
      <4>1. n \in Sources BY <1>1, NetsOfGate
      <4>. QED BY <1>1, <2>5, <4>1 DEF ListsHoldSinks
    <3> HIDE DEF ins
    <3>6. Placed = SourcePoints \cup ins BY <3>3, <3>4, <3>5
    <3>7. ToSet(arrival') = SourcePoints \cup {e \in Ends : netlist.net[e] # Undriven} \cup ins
      BY <2>9, <3>1, <3>6 DEF Placed
    <3>8. ASSUME NEW i \in DOMAIN arrival', NEW j \in DOMAIN arrival', i < j, arrival'[i] \in Ends
          PROVE  arrival'[j] \in Ends
      <4>1. /\ DOMAIN arrival = 1..Len(arrival) /\ Len(arrival) \in Nat
            /\ DOMAIN required = 1..Len(required) /\ Len(required) \in Nat
            /\ DOMAIN arrival' = 1..(Len(arrival) + Len(required))
            /\ \A k \in 1..(Len(arrival) + Len(required)) :
                 arrival'[k] = IF k <= Len(arrival) THEN arrival[k] ELSE required[k - Len(arrival)]
        BY <1>4, <2>8
      <4>2. \A k \in 1..Len(arrival) : arrival[k] \notin Ends
        BY <2>6, <4>1 DEF Placed, ToSet
      <4>3. ~(i <= Len(arrival)) BY <3>8, <4>1, <4>2
      <4>4. j - Len(arrival) \in 1..Len(required) /\ ~(j <= Len(arrival))
        BY <3>8, <4>1, <4>3
      <4>5. arrival'[j] = required[j - Len(arrival)] BY <4>1, <4>4
      <4>6. required[j - Len(arrival)] \in ToSet(required) BY <4>1, <4>4 DEF ToSet
      <4>. QED BY <2>7, <4>5, <4>6
    <3>. QED BY <1>2, <3>7, <3>8 DEF AllPointsPlaced, ins
  <2>19. ReadyTaken' BY <1>4 DEF ReadyTaken
  <2>. QED BY <2>13, <2>14, <2>15, <2>16, <2>17, <2>18, <2>19 DEF IInv
<1>. QED BY <1>3, <1>4 DEF Return

LEMMA StepInv == IInv /\ [Next]_vars => IInv'
<1> SUFFICES ASSUME IInv, [Next]_vars PROVE IInv' OBVIOUS
<1>0. phase \in Phases BY DEF IInv, TypeOK
<1>1. CASE MainCycle BY <1>1, PhaseInv DEF MainCycle, Phases
<1>2. CASE Return BY <1>2, ReturnInv
<1>3. CASE TakeNet BY <1>3, TakeNetInv
<1>4. CASE NetsTaken BY <1>4, PhaseInv DEF NetsTaken, Phases
<1>5. CASE TakeCell BY <1>5, TakeCellInv
<1>6. CASE CellsTaken BY <1>6, PhaseInv DEF CellsTaken, Phases
<1>7. CASE Check BY <1>7, CheckInv
<1>8. CASE UNCHANGED vars BY <1>0, <1>8, PhaseInv DEF vars, IInv, ReadyTaken
<1>. QED BY <1>1, <1>2, <1>3, <1>4, <1>5, <1>6, <1>7, <1>8 DEF Next

LEMMA OrderInvariant == Spec => []IInv
<1>. QED BY InitInv, StepInv, PTL DEF Spec

(* The lists of the call hold points of the netlist, and no counter of active
   pins goes below zero. *)
THEOREM OrderTypeCorrect == Spec => []TypeOK
<1>1. IInv => TypeOK BY DEF IInv
<1>. QED BY <1>1, OrderInvariant, PTL

(* FindTopologicalOrder links no timing point before a point that its times
   are computed from, whatever loops and missing drivers the netlist has. *)
THEOREM OrderIsTopological == Spec => []ArrivalsInOrder
<1>1. ASSUME IInv PROVE ArrivalsInOrder
  <2>1. TypeOK /\ NothingTwice /\ PlacedInOrder BY <1>1 DEF IInv
  <2>2. ASSUME NEW i \in DOMAIN arrival, arrival[i] \in InputPoints
        PROVE  Before(SourceOf(arrival[i][1]), arrival[i])
    <3>1. PICK n \in Sources, g \in Gates : arrival[i] = Input(n, g) BY <2>2 DEF InputPoints
    <3>2. arrival[i][1] = n BY <3>1 DEF Input
    <3>3. Input(n, g) \in Placed BY <3>1 DEF Placed, ToSet
    <3>. QED BY <2>1, <3>1, <3>2, <3>3 DEF PlacedInOrder
  <2>3. ASSUME NEW i \in DOMAIN arrival, arrival[i] \in SourcePoints, arrival[i][1] \in Gates,
               NEW n \in netlist.fanin[arrival[i][1]]
        PROVE  \/ Before(Input(n, arrival[i][1]), arrival[i])
               \/ arrival[i][1] \in stopped /\ n = Undriven
    <3>1. PICK g \in Sources : arrival[i] = SourceOf(g) BY <2>3 DEF SourcePoints
    <3>2. arrival[i][1] = g BY <3>1 DEF SourceOf
    <3>3. SourceOf(g) \in Placed BY <3>1 DEF Placed, ToSet
    <3>. QED BY <2>1, <2>3, <3>1, <3>2, <3>3 DEF PlacedInOrder
  <2>. QED BY <2>1, <2>2, <2>3 DEF ArrivalsInOrder, NothingTwice
<1>. QED BY <1>1, OrderInvariant, PTL

(* When it returns, FindTopologicalOrder has left out no point of a net that
   has a source, and the end points are the last of the list. *)
THEOREM OrderIsComplete == Spec => []AllPointsPlaced
<1>1. IInv => AllPointsPlaced BY DEF IInv
<1>. QED BY <1>1, OrderInvariant, PTL

(* CheckForCyclesAndBreakOneIfExist stops no gate whose nets all have a
   source: such a gate comes free by itself, or not at all. *)
THEOREM StoppedAreUndriven == Spec => []OnlyUndrivenStopped
<1>1. IInv => OnlyUndrivenStopped BY DEF IInv, CountersRight, WaitsFor, OnlyUndrivenStopped
<1>. QED BY <1>1, OrderInvariant, PTL
===============================================================================
