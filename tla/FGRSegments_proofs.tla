------------------------- MODULE FGRSegments_proofs -------------------------
(***************************************************************************)
(* Proofs that the incremental bookkeeping of FGRSegments is exact for     *)
(* every grid, every set of nets that fits CapType, and every sequence of  *)
(* additions and rip-ups.                                                  *)
(***************************************************************************)
EXTENDS FGRSegments, FiniteSetTheorems, TLAPS

(***************************************************************************)
(* The invariant is inductive only as a whole: a counter changes when the  *)
(* multiset says that the last subnet of the net left the edge (or the     *)
(* first came), so the counters are exact because the multiset is, the     *)
(* multiset is exact because a subnet is added only to edges it is not on, *)
(* and CapType does not wrap because usage counts distinct nets.           *)
(***************************************************************************)
IInv == TypeOK /\ EdgeListsMatch /\ HashedExact /\ UsageExact
               /\ OverflowExact /\ LengthsExact

Units(us) == {p \in Edges \X (1..Cardinality(Nets)) :
                p[2] <= Overflow(us[p[1]], p[1])}

Overfull(us) == {e \in Edges : us[e] > Capacity[e]}

(* Every set that is counted is finite. *)
LEMMA CountedFinite ==
  /\ \A n \in Nets, e \in Edges : IsFiniteSet(Holders(n, e))
  /\ \A e \in Edges : IsFiniteSet(Users(e)) /\ Cardinality(Users(e)) <= Cardinality(Nets)
  /\ \A us : IsFiniteSet(Units(us)) /\ IsFiniteSet(Overfull(us))
  /\ \A n, kind : kind \subseteq Edges =>
        IsFiniteSet(Occupied(n, kind)) /\ IsFiniteSet(Occupations(kind))
<1>1. ASSUME NEW n \in Nets, NEW e \in Edges PROVE IsFiniteSet(Holders(n, e))
  <2>1. Holders(n, e) \in SUBSET SubNets BY DEF Holders
  <2>. QED BY <2>1, FS_Subset, FiniteAssumption
<1>2. ASSUME NEW e \in Edges
      PROVE  IsFiniteSet(Users(e)) /\ Cardinality(Users(e)) <= Cardinality(Nets)
  <2>1. Users(e) \in SUBSET Nets BY DEF Users
  <2>. QED BY <2>1, FS_Subset, FiniteAssumption
<1>3. ASSUME NEW us PROVE IsFiniteSet(Units(us)) /\ IsFiniteSet(Overfull(us))
  <2>1. Cardinality(Nets) \in Nat BY FS_CardinalityType, FiniteAssumption
  <2>2. IsFiniteSet(1..Cardinality(Nets)) BY <2>1, FS_Interval
  <2>3. IsFiniteSet(Edges \X (1..Cardinality(Nets))) BY <2>2, FS_Product, FiniteAssumption
  <2>4. Units(us) \in SUBSET (Edges \X (1..Cardinality(Nets))) BY DEF Units
  <2>5. Overfull(us) \in SUBSET Edges BY DEF Overfull
  <2>. QED BY <2>3, <2>4, <2>5, FS_Subset, FiniteAssumption
<1>4. ASSUME NEW n, NEW kind, kind \subseteq Edges
      PROVE  IsFiniteSet(Occupied(n, kind)) /\ IsFiniteSet(Occupations(kind))
  <2>1. Occupied(n, kind) \in SUBSET Edges BY <1>4 DEF Occupied
  <2>2. Occupations(kind) \in SUBSET (Nets \X Edges) BY <1>4 DEF Occupations
  <2>3. IsFiniteSet(Nets \X Edges) BY FS_Product, FiniteAssumption
  <2>. QED BY <2>1, <2>2, <2>3, FS_Subset, FiniteAssumption
<1>. QED BY <1>1, <1>2, <1>3, <1>4

(* One more net on edge e: the units of overflow and the overfull edges. *)
LEMMA OneMoreUser ==
  ASSUME NEW us \in [Edges -> Nat], NEW e \in Edges,
         us[e] + 1 <= Cardinality(Nets),
         NEW vs, vs = [us EXCEPT ![e] = us[e] + 1]
  PROVE  /\ Cardinality(Units(vs))
              = Cardinality(Units(us)) - Overflow(us[e], e) + Overflow(vs[e], e)
         /\ LET crosses == Overflow(us[e], e) = 0 /\ Overflow(vs[e], e) > 0
            IN  /\ crosses => Cardinality(Overfull(vs)) = Cardinality(Overfull(us)) + 1
                /\ ~crosses => Cardinality(Overfull(vs)) = Cardinality(Overfull(us))
<1>. DEFINE c == Capacity[e]
<1>1. c \in Nat /\ us[e] \in Nat /\ vs[e] = us[e] + 1 BY ShapeAssumption
<1>2. \A f \in Edges : f # e => vs[f] = us[f] OBVIOUS
<1>3. /\ IsFiniteSet(Units(us)) /\ Cardinality(Units(us)) \in Nat
      /\ IsFiniteSet(Overfull(us)) /\ Cardinality(Overfull(us)) \in Nat
  BY CountedFinite, FS_CardinalityType
<1>4. Cardinality(Nets) \in Nat BY FS_CardinalityType, FiniteAssumption
<1>5. CASE us[e] + 1 <= c
  <2>1. Overflow(us[e], e) = 0 /\ Overflow(vs[e], e) = 0 BY <1>1, <1>5 DEF Overflow
  <2>2. Units(vs) = Units(us)
    <3>1. ASSUME NEW p \in Edges \X (1..Cardinality(Nets))
          PROVE  p[2] <= Overflow(vs[p[1]], p[1]) <=> p[2] <= Overflow(us[p[1]], p[1])
      <4>1. CASE p[1] = e BY <4>1, <2>1
      <4>2. CASE p[1] # e BY <4>2, <1>2
      <4>. QED BY <4>1, <4>2
    <3>. QED BY <3>1 DEF Units
  <2>3. Overfull(vs) = Overfull(us) BY <1>1, <1>2, <1>5 DEF Overfull
  <2>. QED BY <1>3, <2>1, <2>2, <2>3
<1>6. CASE us[e] + 1 > c
  <2>. DEFINE k == us[e] + 1 - c
  <2>1. /\ k \in 1..Cardinality(Nets)
        /\ Overflow(vs[e], e) = k
        /\ Overflow(us[e], e) = k - 1
    BY <1>1, <1>4, <1>6 DEF Overflow
  <2>2. Units(vs) = Units(us) \cup {<<e, k>>}
    <3>1. ASSUME NEW p \in Edges \X (1..Cardinality(Nets))
          PROVE  p[2] <= Overflow(vs[p[1]], p[1])
                   <=> (p[2] <= Overflow(us[p[1]], p[1]) \/ p = <<e, k>>)
      <4>1. CASE p[1] = e
        <5>1. p[2] \in Nat /\ k \in Nat BY <2>1
        <5>2. p[2] <= k <=> (p[2] <= k - 1 \/ p[2] = k) BY <5>1
        <5>3. p = <<e, k>> <=> p[2] = k BY <4>1
        <5>. QED BY <4>1, <5>2, <5>3, <2>1
      <4>2. CASE p[1] # e BY <4>2, <1>2
      <4>. QED BY <4>1, <4>2
    <3>2. <<e, k>> \in Edges \X (1..Cardinality(Nets)) BY <2>1
    <3>. QED BY <3>1, <3>2 DEF Units
  <2>3. <<e, k>> \notin Units(us) BY <2>1 DEF Units
  <2>4. Cardinality(Units(vs)) = Cardinality(Units(us)) + 1
    BY <2>2, <2>3, <1>3, FS_AddElement
  <2>5. Overfull(vs) = Overfull(us) \cup {e} BY <1>1, <1>2, <1>6 DEF Overfull
  <2>6. e \in Overfull(us) <=> k - 1 > 0 BY <1>1 DEF Overfull
  <2>7. Cardinality(Overfull(vs)) = IF k - 1 > 0 THEN Cardinality(Overfull(us))
                                                ELSE Cardinality(Overfull(us)) + 1
    BY <2>5, <2>6, <1>3, FS_AddElement
  <2>8. k - 1 = 0 <=> ~(k - 1 > 0) BY <2>1, <1>4
  <2>. QED BY <2>1, <2>4, <2>7, <2>8, <1>3, <1>4
<1>. QED BY <1>1, <1>5, <1>6

(* One net fewer on edge e: the same step read backwards. *)
LEMMA OneLessUser ==
  ASSUME NEW us \in [Edges -> Nat], NEW e \in Edges,
         us[e] > 0, us[e] <= Cardinality(Nets),
         NEW vs, vs = [us EXCEPT ![e] = us[e] - 1]
  PROVE  /\ Cardinality(Units(vs))
              = Cardinality(Units(us)) - Overflow(us[e], e) + Overflow(vs[e], e)
         /\ LET crosses == Overflow(us[e], e) > 0 /\ Overflow(vs[e], e) = 0
            IN  /\ crosses => Cardinality(Overfull(vs)) = Cardinality(Overfull(us)) - 1
                /\ ~crosses => Cardinality(Overfull(vs)) = Cardinality(Overfull(us))
<1>1. /\ vs \in [Edges -> Nat]
      /\ vs[e] = us[e] - 1
      /\ us = [vs EXCEPT ![e] = vs[e] + 1]
  <2>1. us[e] \in Nat OBVIOUS
  <2>2. vs \in [Edges -> Nat] /\ vs[e] = us[e] - 1 BY <2>1
  <2>3. vs[e] + 1 = us[e] BY <2>1, <2>2
  <2>. QED BY <2>2, <2>3
<1>2. us[e] \in Nat /\ vs[e] \in Nat /\ Capacity[e] \in Nat BY <1>1, ShapeAssumption
<1>3. vs[e] + 1 <= Cardinality(Nets) BY <1>1, <1>2
<1>4. /\ Cardinality(Units(us))
           = Cardinality(Units(vs)) - Overflow(vs[e], e) + Overflow(us[e], e)
      /\ LET crosses == Overflow(vs[e], e) = 0 /\ Overflow(us[e], e) > 0
         IN  /\ crosses => Cardinality(Overfull(us)) = Cardinality(Overfull(vs)) + 1
             /\ ~crosses => Cardinality(Overfull(us)) = Cardinality(Overfull(vs))
  BY <1>1, <1>3, OneMoreUser
<1>5. Overflow(us[e], e) \in Nat /\ Overflow(vs[e], e) \in Nat BY <1>2 DEF Overflow
<1>6. /\ Cardinality(Units(us)) \in Nat /\ Cardinality(Units(vs)) \in Nat
      /\ Cardinality(Overfull(us)) \in Nat /\ Cardinality(Overfull(vs)) \in Nat
  BY CountedFinite, FS_CardinalityType
<1>. QED BY <1>4, <1>5, <1>6

(* The occupations, and so every counter, change at one net and edge only. *)
OnlyAt(n, e) == \A m \in Nets, f \in Edges :
                  (m # n \/ f # e) => (Holders(m, f)' = Holders(m, f))

(* The usage of e with one net more and with one net fewer, in 16 bits. *)
Charged(e) == (usage[e] + AddedUsage) % CapMod
Released(e) == (usage[e] - AddedUsage) % CapMod

LEMMA FitsCapType ==
  /\ CapMod \in Nat \ {0}
  /\ \A a \in Nat : a < CapMod => a \in 0..CapMod-1 /\ a % CapMod = a
<1>1. CapMod \in Nat \ {0} BY DEF CapMod
<1>2. \A m \in Nat \ {0} : \A a \in Nat : a < m => a \in 0..m-1 /\ a % m = a
  OBVIOUS
<1>. QED BY <1>1, <1>2

(* Net n reaches edge e with its first subnet. *)
LEMMA Gain ==
  ASSUME IInv, NEW n \in Nets, NEW e \in Edges, OnlyAt(n, e),
         Holders(n, e) = {}, Holders(n, e)' # {},
         ChangeUsage(e, Charged(e),
                     Overflow(usage[e], e) = 0 /\ Overflow(Charged(e), e) > 0, 1),
         ChangeLength(n, e, 1)
  PROVE  /\ usage' \in [Edges -> 0..CapMod-1]
         /\ UsageExact' /\ OverflowExact' /\ LengthsExact'
<1>1. Users(e)' = Users(e) \cup {n} /\ n \notin Users(e) BY DEF Users, OnlyAt
<1>2. \A f \in Edges : f # e => Users(f)' = Users(f) BY DEF Users, OnlyAt
<1>3. usage[e] = Cardinality(Users(e)) BY DEF IInv, UsageExact
<1>4. IsFiniteSet(Users(e)) BY CountedFinite
<1>5. Cardinality(Users(e)') = usage[e] + 1
  <2>1. Cardinality(Users(e) \cup {n}) =
          IF n \in Users(e) THEN Cardinality(Users(e)) ELSE Cardinality(Users(e)) + 1
    BY <1>4, FS_AddElement
  <2>. QED BY <1>1, <1>3, <2>1
<1>6. usage[e] + 1 <= Cardinality(Nets)
  <2>1. Users(e)' \in SUBSET Nets BY DEF Users
  <2>. QED BY <2>1, <1>5, FiniteAssumption, FS_Subset
<1>7. usage \in [Edges -> Nat] /\ usage[e] \in Nat BY DEF IInv, TypeOK
<1>8. Charged(e) = usage[e] + 1 /\ Charged(e) \in 0..CapMod-1
  <2>1. Cardinality(Nets) \in Nat BY FiniteAssumption, FS_CardinalityType
  <2>2. usage[e] + 1 \in Nat /\ usage[e] + 1 < CapMod
    BY <2>1, <1>6, <1>7, FitsCapType, NetsFitCapType
  <2>. QED BY <2>2, FitsCapType DEF Charged, AddedUsage
<1>9. usage' = [usage EXCEPT ![e] = usage[e] + 1] /\ usage'[e] = Charged(e)
  BY <1>7, <1>8 DEF ChangeUsage
<1>10. usage' \in [Edges -> 0..CapMod-1] BY <1>8, <1>9 DEF IInv, TypeOK
<1>11. UsageExact'
  <2>. SUFFICES ASSUME NEW f \in Edges PROVE usage'[f] = Cardinality(Users(f)')
    BY DEF UsageExact
  <2>1. CASE f = e BY <2>1, <1>5, <1>7, <1>9
  <2>2. CASE f # e BY <2>2, <1>2, <1>7, <1>9 DEF IInv, UsageExact
  <2>. QED BY <2>1, <2>2
<1>12. OverflowExact'
  <2>1. /\ OverflowUnits = Units(usage) /\ OverflowUnits' = Units(usage')
        /\ OverfullSet = Overfull(usage) /\ OverfullSet' = Overfull(usage')
    BY DEF OverflowUnits, Units, OverfullSet, Overfull
  <2>2. /\ Cardinality(Units(usage'))
             = Cardinality(Units(usage)) - Overflow(usage[e], e) + Overflow(Charged(e), e)
        /\ LET crosses == Overflow(usage[e], e) = 0 /\ Overflow(Charged(e), e) > 0
           IN  /\ crosses => Cardinality(Overfull(usage')) = Cardinality(Overfull(usage)) + 1
               /\ ~crosses => Cardinality(Overfull(usage')) = Cardinality(Overfull(usage))
    <3>1. /\ Cardinality(Units(usage'))
               = Cardinality(Units(usage)) - Overflow(usage[e], e) + Overflow(usage'[e], e)
          /\ LET crosses == Overflow(usage[e], e) = 0 /\ Overflow(usage'[e], e) > 0
             IN  /\ crosses => Cardinality(Overfull(usage')) = Cardinality(Overfull(usage)) + 1
                 /\ ~crosses => Cardinality(Overfull(usage')) = Cardinality(Overfull(usage))
      BY <1>6, <1>7, <1>9, OneMoreUser
    <3>. QED BY <3>1, <1>9
  <2>. QED BY <2>1, <2>2 DEF OverflowExact, ChangeUsage, IInv
<1>13. LengthsExact'
  <2>1. ASSUME NEW kind, kind \subseteq Edges
        PROVE  /\ \A m \in Nets : m # n => Occupied(m, kind)' = Occupied(m, kind)
               /\ Cardinality(Occupied(n, kind)')
                    = IF e \in kind THEN Cardinality(Occupied(n, kind)) + 1
                                    ELSE Cardinality(Occupied(n, kind))
               /\ Cardinality(Occupations(kind)')
                    = IF e \in kind THEN Cardinality(Occupations(kind)) + 1
                                    ELSE Cardinality(Occupations(kind))
    <3>1. IsFiniteSet(Occupied(n, kind)) /\ IsFiniteSet(Occupations(kind))
      BY <2>1, CountedFinite
    <3>2. \A m \in Nets : m # n => Occupied(m, kind)' = Occupied(m, kind)
      BY <2>1 DEF Occupied, OnlyAt
    <3>3. CASE e \in kind
      <4>1. Occupied(n, kind)' = Occupied(n, kind) \cup {e} /\ e \notin Occupied(n, kind)
        BY <2>1, <3>3 DEF Occupied, OnlyAt
      <4>2. /\ Occupations(kind)' = Occupations(kind) \cup {<<n, e>>}
            /\ <<n, e>> \notin Occupations(kind)
        BY <2>1, <3>3 DEF Occupations, OnlyAt
      <4>. QED BY <3>1, <3>2, <3>3, <4>1, <4>2, FS_AddElement
    <3>4. CASE e \notin kind
      <4>1. Occupied(n, kind)' = Occupied(n, kind)
        BY <2>1, <3>4 DEF Occupied, OnlyAt
      <4>2. Occupations(kind)' = Occupations(kind)
        BY <2>1, <3>4 DEF Occupations, OnlyAt
      <4>. QED BY <3>2, <3>4, <4>1, <4>2
    <3>. QED BY <3>3, <3>4
  <2>2. ViaEdges \subseteq Edges /\ Edges \ ViaEdges \subseteq Edges BY ShapeAssumption
  <2>3. numSegments \in [Nets -> Nat] /\ numVias \in [Nets -> Nat] BY DEF IInv, TypeOK
  <2>4. CASE e \in ViaEdges
    BY <2>1, <2>2, <2>3, <2>4 DEF IInv, LengthsExact, ChangeLength
  <2>5. CASE e \notin ViaEdges
    BY <2>1, <2>2, <2>3, <2>5 DEF IInv, LengthsExact, ChangeLength
  <2>. QED BY <2>4, <2>5
<1>. QED BY <1>10, <1>11, <1>12, <1>13
(* The last subnet of net n leaves edge e. *)
LEMMA Lose ==
  ASSUME IInv, NEW n \in Nets, NEW e \in Edges, OnlyAt(n, e),
         Holders(n, e) # {}, Holders(n, e)' = {},
         ChangeUsage(e, Released(e),
                     Overflow(usage[e], e) > 0 /\ Overflow(Released(e), e) = 0, -1),
         ChangeLength(n, e, -1)
  PROVE  /\ usage' \in [Edges -> 0..CapMod-1]
         /\ UsageExact' /\ OverflowExact' /\ LengthsExact'
<1>1. Users(e)' = Users(e) \ {n} /\ n \in Users(e) BY DEF Users, OnlyAt
<1>2. \A f \in Edges : f # e => Users(f)' = Users(f) BY DEF Users, OnlyAt
<1>3. usage[e] = Cardinality(Users(e)) BY DEF IInv, UsageExact
<1>4. IsFiniteSet(Users(e)) BY CountedFinite
<1>5. Cardinality(Users(e)') = usage[e] - 1
  <2>1. Cardinality(Users(e) \ {n}) =
          IF n \in Users(e) THEN Cardinality(Users(e)) - 1 ELSE Cardinality(Users(e))
    BY <1>4, FS_RemoveElement
  <2>. QED BY <1>1, <1>3, <2>1
<1>6. usage[e] > 0 /\ usage[e] <= Cardinality(Nets)
  <2>1. Users(e) \in SUBSET Nets BY DEF Users
  <2>2. usage[e] <= Cardinality(Nets) BY <2>1, <1>3, FiniteAssumption, FS_Subset
  <2>3. usage[e] # 0 BY <1>1, <1>3, <1>4, FS_EmptySet
  <2>4. usage[e] \in Nat BY DEF IInv, TypeOK
  <2>. QED BY <2>2, <2>3, <2>4
<1>7. usage \in [Edges -> Nat] /\ usage[e] \in Nat BY DEF IInv, TypeOK
<1>8. Released(e) = usage[e] - 1 /\ Released(e) \in 0..CapMod-1
  <2>1. Cardinality(Nets) \in Nat BY FiniteAssumption, FS_CardinalityType
  <2>2. usage[e] - 1 \in Nat /\ usage[e] - 1 < CapMod
    BY <2>1, <1>6, <1>7, FitsCapType, NetsFitCapType
  <2>. QED BY <2>2, FitsCapType DEF Released, AddedUsage
<1>9. usage' = [usage EXCEPT ![e] = usage[e] - 1] /\ usage'[e] = Released(e)
  BY <1>7, <1>8 DEF ChangeUsage
<1>10. usage' \in [Edges -> 0..CapMod-1] BY <1>8, <1>9 DEF IInv, TypeOK
<1>11. UsageExact'
  <2>. SUFFICES ASSUME NEW f \in Edges PROVE usage'[f] = Cardinality(Users(f)')
    BY DEF UsageExact
  <2>1. CASE f = e BY <2>1, <1>5, <1>7, <1>9
  <2>2. CASE f # e BY <2>2, <1>2, <1>7, <1>9 DEF IInv, UsageExact
  <2>. QED BY <2>1, <2>2
<1>12. OverflowExact'
  <2>1. /\ OverflowUnits = Units(usage) /\ OverflowUnits' = Units(usage')
        /\ OverfullSet = Overfull(usage) /\ OverfullSet' = Overfull(usage')
    BY DEF OverflowUnits, Units, OverfullSet, Overfull
  <2>2. /\ Cardinality(Units(usage'))
             = Cardinality(Units(usage)) - Overflow(usage[e], e) + Overflow(Released(e), e)
        /\ LET crosses == Overflow(usage[e], e) > 0 /\ Overflow(Released(e), e) = 0
           IN  /\ crosses => Cardinality(Overfull(usage')) = Cardinality(Overfull(usage)) - 1
               /\ ~crosses => Cardinality(Overfull(usage')) = Cardinality(Overfull(usage))
    <3>1. /\ Cardinality(Units(usage'))
               = Cardinality(Units(usage)) - Overflow(usage[e], e) + Overflow(usage'[e], e)
          /\ LET crosses == Overflow(usage[e], e) > 0 /\ Overflow(usage'[e], e) = 0
             IN  /\ crosses => Cardinality(Overfull(usage')) = Cardinality(Overfull(usage)) - 1
                 /\ ~crosses => Cardinality(Overfull(usage')) = Cardinality(Overfull(usage))
      BY <1>6, <1>7, <1>9, OneLessUser
    <3>. QED BY <3>1, <1>9
  <2>. QED BY <2>1, <2>2 DEF OverflowExact, ChangeUsage, IInv
<1>13. LengthsExact'
  <2>1. ASSUME NEW kind, kind \subseteq Edges
        PROVE  /\ \A m \in Nets : m # n => Occupied(m, kind)' = Occupied(m, kind)
               /\ Cardinality(Occupied(n, kind)')
                    = IF e \in kind THEN Cardinality(Occupied(n, kind)) - 1
                                    ELSE Cardinality(Occupied(n, kind))
               /\ Cardinality(Occupations(kind)')
                    = IF e \in kind THEN Cardinality(Occupations(kind)) - 1
                                    ELSE Cardinality(Occupations(kind))
    <3>1. IsFiniteSet(Occupied(n, kind)) /\ IsFiniteSet(Occupations(kind))
      BY <2>1, CountedFinite
    <3>2. \A m \in Nets : m # n => Occupied(m, kind)' = Occupied(m, kind)
      BY <2>1 DEF Occupied, OnlyAt
    <3>3. CASE e \in kind
      <4>1. Occupied(n, kind)' = Occupied(n, kind) \ {e} /\ e \in Occupied(n, kind)
        BY <2>1, <3>3 DEF Occupied, OnlyAt
      <4>2. /\ Occupations(kind)' = Occupations(kind) \ {<<n, e>>}
            /\ <<n, e>> \in Occupations(kind)
        BY <2>1, <3>3 DEF Occupations, OnlyAt
      <4>. QED BY <3>1, <3>2, <3>3, <4>1, <4>2, FS_RemoveElement
    <3>4. CASE e \notin kind
      <4>1. Occupied(n, kind)' = Occupied(n, kind)
        BY <2>1, <3>4 DEF Occupied, OnlyAt
      <4>2. Occupations(kind)' = Occupations(kind)
        BY <2>1, <3>4 DEF Occupations, OnlyAt
      <4>. QED BY <3>2, <3>4, <4>1, <4>2
    <3>. QED BY <3>3, <3>4
  <2>2. ViaEdges \subseteq Edges /\ Edges \ ViaEdges \subseteq Edges BY ShapeAssumption
  <2>3. numSegments \in [Nets -> Nat] /\ numVias \in [Nets -> Nat] BY DEF IInv, TypeOK
  <2>4. CASE e \in ViaEdges
    BY <2>1, <2>2, <2>3, <2>4 DEF IInv, LengthsExact, ChangeLength
  <2>5. CASE e \notin ViaEdges
    BY <2>1, <2>2, <2>3, <2>5 DEF IInv, LengthsExact, ChangeLength
  <2>. QED BY <2>4, <2>5
<1>. QED BY <1>10, <1>11, <1>12, <1>13

(* No net reaches or leaves an edge for good: no counter moves. *)
LEMMA Keep ==
  ASSUME IInv, KeepCounters,
         \A m \in Nets, f \in Edges : Holders(m, f)' = {} <=> Holders(m, f) = {}
  PROVE  UsageExact' /\ OverflowExact' /\ LengthsExact'
<1>1. \A f \in Edges : Users(f)' = Users(f) BY DEF Users
<1>2. UsageExact' BY <1>1 DEF UsageExact, KeepCounters, IInv
<1>3. OverflowUnits' = OverflowUnits /\ OverfullSet' = OverfullSet
  BY DEF OverflowUnits, OverfullSet, KeepCounters
<1>4. OverflowExact' BY <1>3 DEF OverflowExact, KeepCounters, IInv
<1>5. ASSUME NEW kind, kind \subseteq Edges
      PROVE  /\ \A m \in Nets : Occupied(m, kind)' = Occupied(m, kind)
             /\ Occupations(kind)' = Occupations(kind)
  BY <1>5 DEF Occupied, Occupations
<1>6. ViaEdges \subseteq Edges /\ Edges \ ViaEdges \subseteq Edges BY ShapeAssumption
<1>7. LengthsExact' BY <1>5, <1>6 DEF LengthsExact, KeepCounters, IInv
<1>. QED BY <1>2, <1>4, <1>7

(* Counters that are exact are natural numbers: no unsigned subtraction of
   the code wraps. *)
LEMMA CountersAreNat ==
  ASSUME OverflowExact', LengthsExact',
         segments' \in [SubNets -> SUBSET Edges],
         edgeSubNets' \in [Edges -> SUBSET SubNets],
         hashed' \in [Nets -> [Edges -> Nat]],
         usage' \in [Edges -> 0..CapMod-1],
         numSegments' = [n \in Nets |-> numSegments'[n]],
         numVias' = [n \in Nets |-> numVias'[n]]
  PROVE  TypeOK'
<1>1. totalOverflow' \in Nat /\ overfullEdges' \in Nat
  <2>1. OverflowUnits' = Units(usage') /\ OverfullSet' = Overfull(usage')
    BY DEF OverflowUnits, Units, OverfullSet, Overfull
  <2>2. /\ Cardinality(Units(usage')) \in Nat
        /\ Cardinality(Overfull(usage')) \in Nat
    BY CountedFinite, FS_CardinalityType
  <2>. QED BY <2>1, <2>2 DEF OverflowExact
<1>2. ViaEdges \subseteq Edges /\ Edges \ ViaEdges \subseteq Edges BY ShapeAssumption
<1>3. ASSUME NEW kind, kind \subseteq Edges
      PROVE  /\ \A n \in Nets : Cardinality(Occupied(n, kind)') \in Nat
             /\ Cardinality(Occupations(kind)') \in Nat
  <2>1. ASSUME NEW n \in Nets PROVE Cardinality(Occupied(n, kind)') \in Nat
    <3>1. Occupied(n, kind)' \in SUBSET Edges BY <1>3 DEF Occupied
    <3>. QED BY <3>1, FS_Subset, FS_CardinalityType, FiniteAssumption
  <2>2. Occupations(kind)' \in SUBSET (Nets \X Edges) BY <1>3 DEF Occupations
  <2>3. IsFiniteSet(Nets \X Edges) BY FS_Product, FiniteAssumption
  <2>. QED BY <2>1, <2>2, <2>3, FS_Subset, FS_CardinalityType
<1>4. /\ totalSegments' \in Nat /\ totalVias' \in Nat
      /\ \A n \in Nets : numSegments'[n] \in Nat /\ numVias'[n] \in Nat
  <2>1. /\ \A n \in Nets : Cardinality(Occupied(n, ViaEdges)') \in Nat
        /\ Cardinality(Occupations(ViaEdges)') \in Nat
    BY <1>2, <1>3
  <2>2. /\ \A n \in Nets : Cardinality(Occupied(n, Edges \ ViaEdges)') \in Nat
        /\ Cardinality(Occupations(Edges \ ViaEdges)') \in Nat
    BY <1>2, <1>3
  <2>3. /\ \A n \in Nets : /\ numSegments'[n] = Cardinality(Occupied(n, Edges \ ViaEdges)')
                            /\ numVias'[n] = Cardinality(Occupied(n, ViaEdges)')
        /\ totalSegments' = Cardinality(Occupations(Edges \ ViaEdges)')
        /\ totalVias' = Cardinality(Occupations(ViaEdges)')
    BY DEF LengthsExact
  <2>. QED BY <2>1, <2>2, <2>3
<1>. QED BY <1>1, <1>4 DEF TypeOK

(* The lists and the multiset keep the shape the code declares. *)
LEMMA TypeInit == Init => TypeOK
BY FitsCapType DEF Init, TypeOK

(* Nothing is routed at the start, and every count is zero. *)
LEMMA InitIInv == Init => IInv
<1>. SUFFICES ASSUME Init PROVE IInv OBVIOUS
<1>1. TypeOK BY TypeInit
<1>2. \A n \in Nets, e \in Edges : Holders(n, e) = {} BY DEF Init, Holders
<1>3. \A e \in Edges : Users(e) = {} BY <1>2 DEF Users
<1>4. EdgeListsMatch BY DEF Init, EdgeListsMatch
<1>5. HashedExact BY <1>2, FS_EmptySet DEF Init, HashedExact
<1>6. UsageExact BY <1>3, FS_EmptySet DEF Init, UsageExact
<1>7. OverflowExact
  <2>1. \A e \in Edges : Overflow(usage[e], e) = 0 /\ ~(usage[e] > Capacity[e])
    BY ShapeAssumption DEF Init, Overflow
  <2>2. Cardinality(Nets) \in Nat BY FS_CardinalityType, FiniteAssumption
  <2>3. OverflowUnits = {} BY <2>1, <2>2 DEF OverflowUnits
  <2>4. OverfullSet = {} BY <2>1 DEF OverfullSet
  <2>. QED BY <2>3, <2>4, FS_EmptySet DEF Init, OverflowExact
<1>8. LengthsExact
  <2>1. \A n \in Nets, kind \in SUBSET Edges :
          Occupied(n, kind) = {} /\ Occupations(kind) = {}
    BY <1>2 DEF Occupied, Occupations
  <2>2. ViaEdges \in SUBSET Edges /\ Edges \ ViaEdges \in SUBSET Edges BY ShapeAssumption
  <2>3. \A kind \in SUBSET Edges : Occupations(kind) = {} BY <1>2 DEF Occupations
  <2>. QED BY <2>1, <2>2, <2>3, FS_EmptySet DEF Init, LengthsExact
<1>. QED BY <1>1, <1>4, <1>5, <1>6, <1>7, <1>8 DEF IInv

(* A subnet is added to an edge it was not on. *)
LEMMA AddIInv ==
  ASSUME IInv, NEW s \in SubNets, NEW e \in Edges, e \notin segments[s], AddSegment(s, e)
  PROVE  IInv'
<1>. DEFINE n == NetOf[s]
<1>1. n \in Nets BY ShapeAssumption
<1>2. segments \in [SubNets -> SUBSET Edges] /\ hashed \in [Nets -> [Edges -> Nat]]
  BY DEF IInv, TypeOK
<1>3. /\ Holders(n, e)' = Holders(n, e) \cup {s}
      /\ s \notin Holders(n, e)
      /\ OnlyAt(n, e)
  BY <1>1, <1>2 DEF AddSegment, HashInsert, Holders, OnlyAt
<1>4. IsFiniteSet(Holders(n, e)) BY <1>1, CountedFinite
<1>5. hashed[n][e] = Cardinality(Holders(n, e)) BY <1>1 DEF IInv, HashedExact
<1>6. hashed' = [hashed EXCEPT ![n][e] = hashed[n][e] + 1] BY DEF AddSegment, HashInsert
<1>7. HashedExact'
  <2>. SUFFICES ASSUME NEW m \in Nets, NEW f \in Edges
                PROVE  hashed'[m][f] = Cardinality(Holders(m, f)')
    BY DEF HashedExact
  <2>1. CASE m = n /\ f = e
    <3>1. Cardinality(Holders(n, e)') = hashed[n][e] + 1
      BY <1>3, <1>4, <1>5, FS_AddElement
    <3>. QED BY <2>1, <3>1, <1>1, <1>2, <1>6
  <2>2. CASE m # n \/ f # e
    <3>1. hashed'[m][f] = hashed[m][f] BY <2>2, <1>1, <1>2, <1>6
    <3>2. Holders(m, f)' = Holders(m, f) BY <2>2, <1>3 DEF OnlyAt
    <3>. QED BY <3>1, <3>2 DEF IInv, HashedExact
  <2>. QED BY <2>1, <2>2
<1>8. EdgeListsMatch' BY <1>2 DEF AddSegment, ListInsert, EdgeListsMatch, IInv, TypeOK
<1>9. /\ usage' \in [Edges -> 0..CapMod-1]
      /\ UsageExact' /\ OverflowExact' /\ LengthsExact'
  <2>1. CASE hashed[n][e] = 0
    <3>1. Holders(n, e) = {} BY <2>1, <1>4, <1>5, FS_EmptySet
    <3>2. /\ ChangeUsage(e, Charged(e),
                         Overflow(usage[e], e) = 0 /\ Overflow(Charged(e), e) > 0, 1)
          /\ ChangeLength(n, e, 1)
      BY <2>1 DEF AddSegment, FirstUse, Charged
    <3>. QED BY <3>1, <3>2, <1>1, <1>3, Gain
  <2>2. CASE hashed[n][e] # 0
    <3>1. KeepCounters BY <2>2 DEF AddSegment, FirstUse
    <3>2. Holders(n, e) # {} BY <2>2, <1>5, FS_EmptySet
    <3>3. \A m \in Nets, f \in Edges : Holders(m, f)' = {} <=> Holders(m, f) = {}
      BY <3>2, <1>3 DEF OnlyAt
    <3>. QED BY <3>1, <3>3, Keep DEF KeepCounters, IInv, TypeOK
  <2>. QED BY <2>1, <2>2
<1>10. TypeOK'
  <2>1. /\ segments' \in [SubNets -> SUBSET Edges]
        /\ edgeSubNets' \in [Edges -> SUBSET SubNets]
        /\ hashed' \in [Nets -> [Edges -> Nat]]
    BY <1>1, <1>2, <1>6 DEF AddSegment, ListInsert, IInv, TypeOK
  <2>2. /\ numSegments' = [m \in Nets |-> numSegments'[m]]
        /\ numVias' = [m \in Nets |-> numVias'[m]]
    BY DEF AddSegment, ChangeLength, KeepCounters, IInv, TypeOK
  <2>. QED BY <2>1, <2>2, <1>9, CountersAreNat
<1>. QED BY <1>7, <1>8, <1>9, <1>10 DEF IInv

(* A subnet is ripped up from an edge it was on. *)
LEMMA RipUpIInv ==
  ASSUME IInv, NEW s \in SubNets, NEW e \in Edges, e \in segments[s], RipUpSegment(s, e)
  PROVE  IInv'
<1>. DEFINE n == NetOf[s]
<1>1. n \in Nets BY ShapeAssumption
<1>2. segments \in [SubNets -> SUBSET Edges] /\ hashed \in [Nets -> [Edges -> Nat]]
  BY DEF IInv, TypeOK
<1>3. /\ Holders(n, e)' = Holders(n, e) \ {s}
      /\ s \in Holders(n, e)
      /\ OnlyAt(n, e)
  BY <1>1, <1>2 DEF RipUpSegment, Holders, OnlyAt
<1>4. IsFiniteSet(Holders(n, e)) /\ IsFiniteSet(Holders(n, e)')
  BY <1>1, <1>3, CountedFinite, FS_RemoveElement
<1>5. hashed[n][e] = Cardinality(Holders(n, e)) BY <1>1 DEF IInv, HashedExact
<1>6. hashed' = [hashed EXCEPT ![n][e] = hashed[n][e] - 1] BY DEF RipUpSegment, HashRemove
<1>7. Cardinality(Holders(n, e)') = hashed[n][e] - 1 /\ hashed[n][e] # 0
  BY <1>3, <1>4, <1>5, FS_RemoveElement, FS_EmptySet
<1>8. HashedExact'
  <2>. SUFFICES ASSUME NEW m \in Nets, NEW f \in Edges
                PROVE  hashed'[m][f] = Cardinality(Holders(m, f)')
    BY DEF HashedExact
  <2>1. CASE m = n /\ f = e BY <2>1, <1>1, <1>2, <1>6, <1>7
  <2>2. CASE m # n \/ f # e
    <3>1. hashed'[m][f] = hashed[m][f] BY <2>2, <1>1, <1>2, <1>6
    <3>2. Holders(m, f)' = Holders(m, f) BY <2>2, <1>3 DEF OnlyAt
    <3>. QED BY <3>1, <3>2 DEF IInv, HashedExact
  <2>. QED BY <2>1, <2>2
<1>9. EdgeListsMatch' BY <1>2 DEF RipUpSegment, ListErase, EdgeListsMatch, IInv, TypeOK
<1>10. /\ usage' \in [Edges -> 0..CapMod-1]
       /\ UsageExact' /\ OverflowExact' /\ LengthsExact'
  <2>1. CASE hashed[n][e] = 1
    <3>1. Holders(n, e)' = {} BY <2>1, <1>4, <1>7, FS_EmptySet
    <3>2. /\ ChangeUsage(e, Released(e),
                         Overflow(usage[e], e) > 0 /\ Overflow(Released(e), e) = 0, -1)
          /\ ChangeLength(n, e, -1)
      BY <2>1 DEF RipUpSegment, LastUse, Released
    <3>3. Holders(n, e) # {} BY <1>3
    <3>. QED BY <3>1, <3>2, <3>3, <1>1, <1>3, Lose
  <2>2. CASE hashed[n][e] # 1
    <3>1. KeepCounters BY <2>2 DEF RipUpSegment, LastUse
    <3>2. hashed[n][e] - 1 # 0 BY <2>2, <1>1, <1>2
    <3>3. Holders(n, e)' # {} BY <3>2, <1>7, FS_EmptySet
    <3>4. \A m \in Nets, f \in Edges : Holders(m, f)' = {} <=> Holders(m, f) = {}
      BY <3>3, <1>3 DEF OnlyAt
    <3>. QED BY <3>1, <3>4, Keep DEF KeepCounters, IInv, TypeOK
  <2>. QED BY <2>1, <2>2
<1>11. TypeOK'
  <2>1. /\ segments' \in [SubNets -> SUBSET Edges]
        /\ edgeSubNets' \in [Edges -> SUBSET SubNets]
    BY <1>2 DEF RipUpSegment, ListErase, IInv, TypeOK
  <2>2. hashed' \in [Nets -> [Edges -> Nat]]
    <3>1. hashed[n][e] \in Nat BY <1>1, <1>2
    <3>2. hashed[n][e] - 1 \in Nat BY <3>1, <1>7
    <3>. QED BY <3>2, <1>1, <1>2, <1>6
  <2>3. /\ numSegments' = [m \in Nets |-> numSegments'[m]]
        /\ numVias' = [m \in Nets |-> numVias'[m]]
    BY DEF RipUpSegment, ChangeLength, KeepCounters, IInv, TypeOK
  <2>. QED BY <2>1, <2>2, <2>3, <1>10, CountersAreNat
<1>. QED BY <1>8, <1>9, <1>10, <1>11 DEF IInv

(***************************************************************************)
(* The bookkeeping invariant is inductive.                                 *)
(***************************************************************************)
LEMMA NextIInv == IInv /\ [Next]_vars => IInv'
<1>. SUFFICES ASSUME IInv, [Next]_vars PROVE IInv' OBVIOUS
<1>1. ASSUME NEW s \in SubNets, NEW e \in Edges, e \notin segments[s], AddSegment(s, e)
      PROVE  IInv'
  BY <1>1, AddIInv
<1>2. ASSUME NEW s \in SubNets, NEW e \in Edges, e \in segments[s], RipUpSegment(s, e)
      PROVE  IInv'
  BY <1>2, RipUpIInv
<1>3. CASE UNCHANGED vars
  <2>1. \A n \in Nets, e \in Edges : Holders(n, e)' = Holders(n, e)
    BY <1>3 DEF vars, Holders
  <2>2. UsageExact' /\ OverflowExact' /\ LengthsExact'
    BY <1>3, <2>1, Keep DEF vars, KeepCounters
  <2>3. HashedExact' BY <1>3, <2>1 DEF vars, HashedExact, IInv
  <2>4. EdgeListsMatch' BY <1>3 DEF vars, EdgeListsMatch, IInv
  <2>5. TypeOK' BY <1>3 DEF vars, TypeOK, IInv
  <2>. QED BY <2>2, <2>3, <2>4, <2>5 DEF IInv
<1>. QED BY <1>1, <1>2, <1>3 DEF Next

LEMMA Invariance == Spec => []IInv
<1>. QED BY InitIInv, NextIInv, PTL DEF Spec

(***************************************************************************)
(* Types: in particular no counter is ever decremented below zero, so the  *)
(* unsigned subtractions of addSegment and ripUpSegment do not wrap.       *)
(***************************************************************************)
THEOREM TypeCorrect == Spec => []TypeOK
<1>1. IInv => TypeOK BY DEF IInv
<1>. QED BY <1>1, Invariance, PTL

(***************************************************************************)
(* Every counter the router reads is what a recount over the routes gives, *)
(* for every grid and every history of additions and rip-ups.              *)
(***************************************************************************)
THEOREM BookkeepingExact == Spec => []CountersExact
<1>1. IInv => CountersExact BY DEF IInv, CountersExact
<1>. QED BY <1>1, Invariance, PTL

(***************************************************************************)
(* The subnets listed at an edge, which the rip-up phase reads, are the    *)
(* ones routed through it.                                                 *)
(***************************************************************************)
THEOREM EdgeListsInverse == Spec => []EdgeListsMatch
<1>1. IInv => EdgeListsMatch BY DEF IInv
<1>. QED BY <1>1, Invariance, PTL
=============================================================================
