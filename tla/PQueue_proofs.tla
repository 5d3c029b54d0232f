---------------------------- MODULE PQueue_proofs ----------------------------
(***************************************************************************)
(* The heap of the maze router stays a heap, for every set of tiles and    *)
(* every set of costs.  PlacesMatch is inductive together with the type;   *)
(* HeapOrdered is not, since a sifting loop works on a heap with a hole:   *)
(* OrderedButHole says what is in order while a loop is at idx, and that   *)
(* the tiles below the hole fit the one above it.                          *)
(***************************************************************************)
EXTENDS PQueue, FiniteSetTheorems, WellFoundedInduction, TLAPS

Ordered(i) == CostAt(Parent(i)) <= CostAt(i)
Bridged(i) == idx > 0 /\ Parent(i) = idx => CostAt(Parent(idx)) <= CostAt(i)

OrderedButHole ==
  \A i \in 1..size-1 :
    /\ sifting = "no" => Ordered(i)
    /\ sifting = "up" => (i # idx => Ordered(i)) /\ Bridged(i)
    /\ sifting = "down" => (Parent(i) # idx => Ordered(i)) /\ Bridged(i)

HoleInHeap == sifting = "up" => idx < size

IInv == TypeOK /\ PlacesMatch /\ HoleInHeap /\ OrderedButHole

-----------------------------------------------------------------------------
(* The parent of a place lies before it; the places below i are 2i+1 and 2i+2. *)
LEMMA ParentFacts == ASSUME NEW i \in Nat, i > 0
                     PROVE  /\ Parent(i) \in Nat
                            /\ Parent(i) < i
                            /\ \A j \in Nat : Parent(i) = j <=> (i = 2 * j + 1 \/ i = 2 * j + 2)
  BY DEF Parent

LEMMA InitIInv == Init => IInv
  BY CostAssumption DEF Init, IInv, TypeOK, PlacesMatch, HoleInHeap, OrderedButHole, NoLoc

-----------------------------------------------------------------------------
LEMMA LowerCostIInv == ASSUME IInv, NEW t \in Tiles, NEW c \in Costs, MayUpdate(t), LowerCost(t, c)
                       PROVE  IInv'
<1>1. c \in Nat
  BY CostAssumption
<1>2. heapLoc[t] \in Nat /\ heapLoc[t] < size /\ heap[heapLoc[t]] = t
  BY DEF IInv, TypeOK, PlacesMatch, MayUpdate, LowerCost, IsVisited, NoLoc
<1>3. TypeOK'
  BY <1>1, <1>2 DEF IInv, TypeOK, LowerCost
<1>4. PlacesMatch'
  BY DEF IInv, PlacesMatch, LowerCost
<1>5. HoleInHeap'
  BY <1>2 DEF HoleInHeap, LowerCost
<1>6. OrderedButHole'
  <2> SUFFICES ASSUME NEW i \in 1..size-1
               PROVE  (i # heapLoc[t] => Ordered(i)') /\ Bridged(i)'
    BY DEF OrderedButHole, LowerCost
  <2>1. /\ Parent(i) \in 0..size-1 /\ Parent(i) < i
        /\ CostAt(Parent(i)) <= CostAt(i)
    BY ParentFacts DEF IInv, TypeOK, OrderedButHole, Ordered, LowerCost
  <2>2. \A j \in 0..size-1 : /\ CostAt(j) \in Nat
                             /\ j # heapLoc[t] => heap[j] # t
                             /\ CostAt(j)' = IF j = heapLoc[t] THEN c ELSE CostAt(j)
    BY <1>2 DEF IInv, TypeOK, PlacesMatch, CostAt, LowerCost
  <2>3. c < CostAt(heapLoc[t])
    BY <1>2 DEF LowerCost, CostAt
  <2>4. i # heapLoc[t] => Ordered(i)'
    BY <1>1, <1>2, <2>1, <2>2, <2>3 DEF Ordered, Parent
  <2>5. Bridged(i)'
    <3> SUFFICES ASSUME heapLoc[t] > 0, Parent(i) = heapLoc[t]
                 PROVE  CostAt(Parent(heapLoc[t]))' <= CostAt(i)'
      BY DEF Bridged, LowerCost, Parent
    <3>1. /\ Parent(heapLoc[t]) \in 0..size-1 /\ Parent(heapLoc[t]) < heapLoc[t]
          /\ CostAt(Parent(heapLoc[t])) <= CostAt(heapLoc[t])
      BY <1>2, ParentFacts DEF IInv, TypeOK, OrderedButHole, Ordered, LowerCost
    <3> QED BY <1>2, <2>1, <2>2, <3>1 DEF CostAt, LowerCost, Parent
  <2> QED BY <2>4, <2>5
<1> QED BY <1>3, <1>4, <1>5, <1>6 DEF IInv

LEMMA PushIInv == ASSUME IInv, NEW t \in Tiles, NEW c \in Costs, Push(t, c)
                  PROVE  IInv'
<1>1. c \in Nat
  BY CostAssumption
<1>2. size' = size + 1 /\ size \in Nat /\ idx' = size /\ sifting' = "up"
  BY DEF Push, IInv, TypeOK
<1>3. TypeOK'
  BY <1>1 DEF IInv, TypeOK, Push
<1>4. /\ heap'[size] = t
      /\ \A j \in 0..size-1 : heap'[j] = heap[j] /\ heap[j] \in dataValid /\ heap[j] # t
  BY DEF IInv, TypeOK, PlacesMatch, Push, IsVisited
<1>5. PlacesMatch'
  BY <1>2, <1>4 DEF IInv, TypeOK, PlacesMatch, Push, IsVisited, NoLoc
<1>6. HoleInHeap'
  BY <1>2 DEF HoleInHeap
<1>7. OrderedButHole'
  <2> SUFFICES ASSUME NEW i \in 1..size
               PROVE  (i # size => Ordered(i)') /\ Bridged(i)'
    BY <1>2 DEF OrderedButHole
  <2>1. Parent(i) \in 0..size-1 /\ Parent(i) < i
    BY <1>2, ParentFacts
  <2>2. i # size => CostAt(Parent(i)) <= CostAt(i)
    BY <1>2 DEF IInv, OrderedButHole, Ordered, Push
  <2>3. \A j \in 0..size-1 : CostAt(j)' = CostAt(j)
    BY <1>4 DEF IInv, TypeOK, CostAt, Push
  <2>4. i # size => Ordered(i)'
    BY <1>2, <2>1, <2>2, <2>3 DEF Ordered, Parent
  <2>5. Bridged(i)'
    BY <1>2, <2>1 DEF Bridged, Parent
  <2> QED BY <2>4, <2>5
<1> QED BY <1>3, <1>5, <1>6, <1>7 DEF IInv

LEMMA RemoveBestTileIInv == ASSUME IInv, RemoveBestTile PROVE IInv'
<1>1. /\ size \in Nat /\ size > 0 /\ size' = size - 1
      /\ idx' = 0 /\ sifting' = "down" /\ cost' = cost /\ dataValid' = dataValid
  BY DEF RemoveBestTile, IInv, TypeOK
<1>2. heap' = [i \in 0..size-2 |-> IF i = 0 THEN heap[size-1] ELSE heap[i]]
  BY DEF RemoveBestTile
<1>3. \A i \in 0..size-1 : heap[i] \in Tiles /\ heap[i] \in dataValid /\ heapLoc[heap[i]] = i
  BY <1>1 DEF IInv, TypeOK, PlacesMatch
<1>4. \A t \in Tiles : heapLoc'[t] = IF t = heap[0] THEN NoLoc
                                     ELSE IF t = heap[size-1] THEN 0 ELSE heapLoc[t]
  BY <1>1, <1>3 DEF RemoveBestTile, Relocate, IInv, TypeOK
<1>5. TypeOK'
  BY <1>1, <1>2, <1>3 DEF RemoveBestTile, Relocate, IInv, TypeOK
<1>6. PlacesMatch'
  <2>1. \A i \in 0..size'-1 : heap'[i] \in dataValid' /\ heapLoc'[heap'[i]] = i
    BY <1>1, <1>2, <1>3, <1>4, Z3 DEF NoLoc
  <2>2. \A t \in dataValid' : heapLoc'[t] # NoLoc => heapLoc'[t] < size' /\ heap'[heapLoc'[t]] = t
    BY <1>1, <1>2, <1>3, <1>4, Z3 DEF NoLoc, IInv, TypeOK, PlacesMatch
  <2> QED BY <2>1, <2>2 DEF PlacesMatch
<1>7. HoleInHeap'
  BY <1>1 DEF HoleInHeap
<1>8. OrderedButHole'
  <2> SUFFICES ASSUME NEW i \in 1..size-2
               PROVE  (Parent(i) # 0 => Ordered(i)') /\ Bridged(i)'
    BY <1>1 DEF OrderedButHole, Parent
  <2>1. Bridged(i)'
    BY <1>1 DEF Bridged
  <2>2. Parent(i) \in 0..size-2 /\ CostAt(Parent(i)) <= CostAt(i)
    BY <1>1, ParentFacts DEF IInv, OrderedButHole, Ordered, RemoveBestTile
  <2>3. \A j \in 1..size-2 : CostAt(j)' = CostAt(j)
    BY <1>1, <1>2 DEF CostAt
  <2> QED BY <1>1, <2>1, <2>2, <2>3 DEF Ordered, Parent
<1> QED BY <1>5, <1>6, <1>7, <1>8 DEF IInv

-----------------------------------------------------------------------------
(* Exchanging two tiles of the heap keeps the places and the type. *)
LEMMA SwapFacts ==
  ASSUME TypeOK, PlacesMatch, NEW i \in 0..size-1, NEW j \in 0..size-1, i # j, Swap(i, j),
         size' = size, cost' = cost, dataValid' = dataValid
  PROVE  /\ heap' \in [0..size-1 -> Tiles]
         /\ heapLoc' \in [Tiles -> Nat \cup {NoLoc}]
         /\ PlacesMatch'
         /\ \A k \in 0..size-1 : CostAt(k)' = IF k = i THEN CostAt(j)
                                             ELSE IF k = j THEN CostAt(i) ELSE CostAt(k)
<1>1. \A k \in 0..size-1 : heap[k] \in Tiles /\ heap[k] \in dataValid /\ heapLoc[heap[k]] = k
  BY DEF TypeOK, PlacesMatch
<1>2. /\ heap' \in [0..size-1 -> Tiles]
      /\ \A k \in 0..size-1 : heap'[k] = IF k = i THEN heap[j] ELSE IF k = j THEN heap[i] ELSE heap[k]
  BY <1>1 DEF Swap, TypeOK
<1>3. /\ heapLoc' \in [Tiles -> Nat \cup {NoLoc}]
      /\ \A t \in Tiles : heapLoc'[t] = IF t = heap[j] THEN i ELSE IF t = heap[i] THEN j ELSE heapLoc[t]
  BY <1>1 DEF Swap, TypeOK
<1>4. PlacesMatch'
  <2>1. \A k \in 0..size'-1 : heap'[k] \in dataValid' /\ heapLoc'[heap'[k]] = k
    BY <1>1, <1>2, <1>3
  <2>2. ASSUME NEW t \in dataValid', heapLoc'[t] # NoLoc
        PROVE  heapLoc'[t] < size' /\ heap'[heapLoc'[t]] = t
    <3>1. t \in Tiles /\ t \in dataValid
      BY DEF TypeOK
    <3>2. CASE t = heap[j]
      BY <1>2, <1>3, <3>1, <3>2 DEF TypeOK
    <3>3. CASE t = heap[i] /\ t # heap[j]
      BY <1>2, <1>3, <3>1, <3>3 DEF TypeOK
    <3>4. CASE t # heap[i] /\ t # heap[j]
      <4>1. heapLoc'[t] = heapLoc[t] /\ heapLoc[t] < size /\ heap[heapLoc[t]] = t /\ heapLoc[t] \in Nat
        BY <1>3, <2>2, <3>1, <3>4 DEF TypeOK, PlacesMatch, NoLoc
      <4> QED BY <1>2, <3>4, <4>1 DEF TypeOK
    <3> QED BY <3>2, <3>3, <3>4
  <2> QED BY <2>1, <2>2 DEF PlacesMatch
<1>5. \A k \in 0..size-1 : CostAt(k)' = IF k = i THEN CostAt(j)
                                      ELSE IF k = j THEN CostAt(i) ELSE CostAt(k)
  BY <1>2 DEF CostAt
<1> QED BY <1>2, <1>3, <1>4, <1>5

(***************************************************************************)
(* The loops move the hole.  K[i] is the cost at place i, L the same after *)
(* the tiles at i and j were exchanged.                                    *)
(***************************************************************************)
InOrder(K, i) == K[Parent(i)] <= K[i]
Bridge(K, h, i) == h > 0 /\ Parent(i) = h => K[Parent(h)] <= K[i]
Exchanged(K, L, n, i, j) ==
  \A k \in 0..n-1 : L[k] = IF k = i THEN K[j] ELSE IF k = j THEN K[i] ELSE K[k]

LEMMA HoleUp ==
  ASSUME NEW n \in Nat, NEW K \in [0..n-1 -> Nat], NEW L \in [0..n-1 -> Nat], NEW h \in 1..n-1,
         \A i \in 1..n-1 : (i # h => InOrder(K, i)) /\ Bridge(K, h, i),
         K[h] < K[Parent(h)],
         Exchanged(K, L, n, h, Parent(h)),
         NEW i \in 1..n-1
  PROVE  (i # Parent(h) => InOrder(L, i)) /\ Bridge(L, Parent(h), i)
<1>1. \A k \in 1..n-1 : Parent(k) \in 0..n-1 /\ Parent(k) < k
  BY DEF Parent
<1>2. PICK q \in 0..n-1 : q = Parent(h)
  BY <1>1
<1>3. /\ q < h /\ K[h] < K[q] /\ L[h] = K[q] /\ L[q] = K[h]
      /\ \A k \in 0..n-1 : k # h /\ k # q => L[k] = K[k]
  BY <1>1, <1>2 DEF Exchanged
<1>4. PICK p \in 0..n-1 : p = Parent(i) /\ p < i
  BY <1>1
<1>5. (i # h => K[p] <= K[i]) /\ (p = h => K[q] <= K[i])
  BY <1>2, <1>4 DEF InOrder, Bridge
<1>6. i # q => L[p] <= L[i]
  <2>1. CASE i = h
    BY <1>2, <1>3, <1>4, <2>1
  <2>2. CASE i # h /\ i # q /\ (p = h \/ p = q)
    BY <1>3, <1>4, <1>5, <2>2
  <2>3. CASE i # h /\ i # q /\ p # h /\ p # q
    <3>1. L[p] = K[p] /\ L[i] = K[i]
      BY <1>3, <2>3
    <3> QED BY <1>5, <2>3, <3>1
  <2> QED BY <2>1, <2>2, <2>3
<1>7. ASSUME q > 0, p = q PROVE L[Parent(q)] <= L[i]
  <2>1. PICK r \in 0..n-1 : r = Parent(q) /\ r < q
    BY <1>1, <1>7
  <2>2. K[r] <= K[q]
    BY <1>3, <1>7, <2>1 DEF InOrder
  <2>3. L[r] = K[r]
    BY <1>3, <2>1
  <2>4. K[q] <= L[i]
    BY <1>3, <1>4, <1>5, <1>7
  <2> QED BY <2>1, <2>2, <2>3, <2>4
<1> QED BY <1>2, <1>4, <1>6, <1>7 DEF InOrder, Bridge

LEMMA HoleDown ==
  ASSUME NEW n \in Nat, NEW K \in [0..n-1 -> Nat], NEW L \in [0..n-1 -> Nat], NEW h \in 0..n-1,
         \A i \in 1..n-1 : (Parent(i) # h => InOrder(K, i)) /\ Bridge(K, h, i),
         NEW c \in 1..n-1, Parent(c) = h, \A k \in 1..n-1 : Parent(k) = h => K[c] <= K[k],
         K[h] > K[c],
         Exchanged(K, L, n, h, c),
         NEW i \in 1..n-1
  PROVE  (Parent(i) # c => InOrder(L, i)) /\ Bridge(L, c, i)
<1>1. \A k \in 1..n-1 : Parent(k) \in 0..n-1 /\ Parent(k) < k
  BY DEF Parent
<1>2. /\ h < c /\ L[h] = K[c] /\ L[c] = K[h]
      /\ \A k \in 0..n-1 : k # h /\ k # c => L[k] = K[k]
  BY <1>1 DEF Exchanged
<1>3. PICK p \in 0..n-1 : p = Parent(i) /\ p < i
  BY <1>1
<1>4. (p # h => K[p] <= K[i]) /\ (p = h /\ h > 0 => K[Parent(h)] <= K[i]) /\ (p = h => K[c] <= K[i])
  BY <1>3 DEF InOrder, Bridge
<1>5. p # c => L[p] <= L[i]
  <2>1. CASE p = h
    BY <1>2, <1>3, <1>4, <2>1
  <2>2. CASE p # h /\ p # c /\ i # c /\ i # h
    BY <1>2, <1>3, <1>4, <2>2
  <2>3. CASE i = c
    BY <1>3, <2>1, <2>3
  <2>4. CASE i = h
    <3>1. K[p] <= K[c]
      BY <1>3, <2>4 DEF Bridge
    <3> QED BY <1>2, <1>3, <2>4, <3>1
  <2> QED BY <2>1, <2>2, <2>3, <2>4
<1>6. p = c => L[h] <= L[i]
  BY <1>2, <1>3, <1>4
<1> QED BY <1>3, <1>5, <1>6 DEF InOrder, Bridge

(* The costs at the places of the heap, as a value. *)
LEMMA CostsAtPlaces ==
  ASSUME TypeOK
  PROVE  \E K \in [0..size-1 -> Nat] : \A k \in 0..size-1 : K[k] = CostAt(k)
<1>1. \A k \in 0..size-1 : CostAt(k) \in Nat
  BY DEF TypeOK, CostAt
<1>2. [k \in 0..size-1 |-> CostAt(k)] \in [0..size-1 -> Nat]
  BY <1>1
<1> QED BY <1>2

LEMMA SiftUpIInv == ASSUME IInv, SiftUp PROVE IInv'
<1>1. size' = size /\ cost' = cost /\ dataValid' = dataValid /\ sifting = "up"
      /\ size \in Nat /\ idx \in Nat /\ idx < size
  BY DEF SiftUp, IInv, TypeOK, HoleInHeap
<1>2. PICK n \in Nat, h \in Nat : n = size /\ h = idx /\ h < n
  BY <1>1
<1>3. PICK K \in [0..n-1 -> Nat] : \A k \in 0..n-1 : K[k] = CostAt(k)
  BY <1>2, CostsAtPlaces DEF IInv
<1>4. \A i \in 1..n-1 : Parent(i) \in 0..n-1 /\ Parent(i) < i
  BY ParentFacts
<1>5. \A i \in 1..n-1 : (i # h => InOrder(K, i)) /\ Bridge(K, h, i)
  BY <1>1, <1>2, <1>3, <1>4 DEF IInv, OrderedButHole, Ordered, Bridged, InOrder, Bridge
<1>6. CASE h > 0 /\ K[h] < K[Parent(h)]
  <2>1. h \in 1..n-1
    BY <1>2, <1>6
  <2>2. Swap(h, Parent(h)) /\ idx' = Parent(h) /\ sifting' = "up"
    BY <1>2, <1>3, <1>4, <1>6, <2>1 DEF SiftUp
  <2>3. /\ heap' \in [0..size-1 -> Tiles] /\ heapLoc' \in [Tiles -> Nat \cup {NoLoc}]
        /\ PlacesMatch'
        /\ \A k \in 0..size-1 : CostAt(k)' = IF k = h THEN CostAt(Parent(h))
                                            ELSE IF k = Parent(h) THEN CostAt(h) ELSE CostAt(k)
    BY <1>1, <1>2, <1>4, <2>1, <2>2, SwapFacts DEF IInv
  <2>4. TypeOK' /\ HoleInHeap'
    <3>1. Parent(h) \in Nat /\ Parent(h) < size
      BY <1>2, <1>4, <2>1
    <3>2. heap' \in [0..size-1 -> Tiles] /\ heapLoc' \in [Tiles -> Nat \cup {NoLoc}]
      BY <2>3
    <3> QED BY <1>1, <2>2, <3>1, <3>2 DEF IInv, TypeOK, HoleInHeap
  <2>5. PICK L \in [0..n-1 -> Nat] : \A k \in 0..n-1 : L[k] = CostAt(k)'
    <3>1. \A k \in 0..n-1 : CostAt(k)' \in Nat
      BY <1>1, <1>2, <2>4 DEF TypeOK, CostAt
    <3>2. [k \in 0..n-1 |-> CostAt(k)'] \in [0..n-1 -> Nat]
      BY <3>1
    <3> QED BY <3>2
  <2>6. Exchanged(K, L, n, h, Parent(h))
    BY <1>2, <1>3, <1>4, <2>1, <2>3, <2>5 DEF Exchanged
  <2>7. \A i \in 1..n-1 : (i # Parent(h) => InOrder(L, i)) /\ Bridge(L, Parent(h), i)
    BY <1>5, <1>6, <2>1, <2>6, HoleUp
  <2>8. OrderedButHole'
    <3> SUFFICES ASSUME NEW i \in 1..n-1 PROVE (i # Parent(h) => Ordered(i)') /\ Bridged(i)'
      BY <1>1, <1>2, <2>2 DEF OrderedButHole
    <3>1. PICK q \in 0..n-1 : q = Parent(h)
      BY <1>4, <2>1
    <3>2. i # q => Ordered(i)'
      BY <1>4, <2>5, <2>7, <3>1 DEF Ordered, InOrder, Parent
    <3>3. Bridged(i)'
      <4> SUFFICES ASSUME q > 0, Parent(i) = q PROVE CostAt(Parent(q))' <= CostAt(i)'
        BY <2>2, <3>1 DEF Bridged, Parent, CostAt
      <4> QED BY <1>4, <2>5, <2>7, <3>1 DEF Bridge, Parent
    <3> QED BY <3>1, <3>2, <3>3
  <2> QED BY <2>3, <2>4, <2>8 DEF IInv
<1>7. CASE ~(h > 0 /\ K[h] < K[Parent(h)])
  <2>1. Stop
    BY <1>2, <1>3, <1>4, <1>7 DEF SiftUp
  <2>2. TypeOK' /\ PlacesMatch' /\ HoleInHeap'
    BY <1>1, <2>1 DEF IInv, TypeOK, PlacesMatch, HoleInHeap, Stop
  <2>3. \A i \in 1..n-1 : Ordered(i)
    BY <1>3, <1>4, <1>5, <1>7 DEF Ordered, InOrder
  <2>4. OrderedButHole'
    BY <1>1, <1>2, <2>1, <2>3 DEF OrderedButHole, Stop, Ordered, CostAt
  <2> QED BY <2>2, <2>4 DEF IInv
<1> QED BY <1>6, <1>7

LEMMA SiftDownIInv == ASSUME IInv, SiftDown PROVE IInv'
<1>1. size' = size /\ cost' = cost /\ dataValid' = dataValid /\ sifting = "down"
      /\ size \in Nat /\ idx \in Nat
  BY DEF SiftDown, IInv, TypeOK
<1>2. PICK n \in Nat, h \in Nat : n = size /\ h = idx
  BY <1>1
<1>3. PICK K \in [0..n-1 -> Nat] : \A k \in 0..n-1 : K[k] = CostAt(k)
  BY <1>2, CostsAtPlaces DEF IInv
<1>4. \A i \in 1..n-1 : Parent(i) \in 0..n-1 /\ Parent(i) < i
  BY ParentFacts
<1>5. \A i \in 1..n-1 : (Parent(i) # h => InOrder(K, i)) /\ Bridge(K, h, i)
  BY <1>1, <1>2, <1>3, <1>4 DEF IInv, OrderedButHole, Ordered, Bridged, InOrder, Bridge
<1>6. CASE 2 * h + 1 < n
  <2>1. PICK c \in 1..n-1 : /\ c = CheaperChild(h)
                           /\ Parent(c) = h
                           /\ \A k \in 1..n-1 : Parent(k) = h => K[c] <= K[k]
    <3>1. \A k \in 1..n-1 : Parent(k) = h => k = 2 * h + 1 \/ k = 2 * h + 2
      BY DEF Parent
    <3>2. Parent(2 * h + 1) = h /\ Parent(2 * h + 2) = h
      BY DEF Parent
    <3>3. CASE 2 * h + 2 < n /\ ~(K[2 * h + 1] < K[2 * h + 2])
      <4>1. CheaperChild(h) = 2 * h + 2
        BY <1>2, <1>3, <3>3 DEF CheaperChild
      <4> QED BY <3>1, <3>2, <3>3, <4>1
    <3>4. CASE ~(2 * h + 2 < n /\ ~(K[2 * h + 1] < K[2 * h + 2]))
      <4>1. CheaperChild(h) = 2 * h + 1
        BY <1>2, <1>3, <1>6, <3>4 DEF CheaperChild
      <4> QED BY <1>6, <3>1, <3>2, <3>4, <4>1
    <3> QED BY <3>3, <3>4
  <2>2. CASE K[h] > K[c]
    <3>1. h \in 0..n-1 /\ h # c
      BY <1>6, <1>4, <2>1
    <3>2. Swap(h, c) /\ idx' = c /\ sifting' = "down"
      BY <1>1, <1>2, <1>3, <1>6, <2>1, <2>2, <3>1 DEF SiftDown
    <3>3. /\ heap' \in [0..size-1 -> Tiles] /\ heapLoc' \in [Tiles -> Nat \cup {NoLoc}]
          /\ PlacesMatch'
          /\ \A k \in 0..size-1 : CostAt(k)' = IF k = h THEN CostAt(c)
                                              ELSE IF k = c THEN CostAt(h) ELSE CostAt(k)
      BY <1>1, <1>2, <3>1, <3>2, SwapFacts DEF IInv
    <3>4. TypeOK' /\ HoleInHeap'
      BY <1>1, <3>2, <3>3 DEF IInv, TypeOK, HoleInHeap
    <3>5. PICK L \in [0..n-1 -> Nat] : \A k \in 0..n-1 : L[k] = CostAt(k)'
      <4>1. \A k \in 0..n-1 : CostAt(k)' \in Nat
        BY <1>1, <1>2, <3>4 DEF TypeOK, CostAt
      <4>2. [k \in 0..n-1 |-> CostAt(k)'] \in [0..n-1 -> Nat]
        BY <4>1
      <4> QED BY <4>2
    <3>6. Exchanged(K, L, n, h, c)
      BY <1>2, <1>3, <3>1, <3>3, <3>5 DEF Exchanged
    <3>7. \A i \in 1..n-1 : (Parent(i) # c => InOrder(L, i)) /\ Bridge(L, c, i)
      BY <1>5, <2>1, <2>2, <3>1, <3>6, HoleDown
    <3>8. OrderedButHole'
      <4> SUFFICES ASSUME NEW i \in 1..n-1 PROVE (Parent(i) # c => Ordered(i)') /\ Bridged(i)'
        BY <1>1, <1>2, <3>2 DEF OrderedButHole
      <4>1. Parent(i) # c => Ordered(i)'
        BY <1>4, <3>5, <3>7 DEF Ordered, InOrder, Parent
      <4>2. Bridged(i)'
        <5> SUFFICES ASSUME Parent(i) = c PROVE CostAt(Parent(c))' <= CostAt(i)'
          BY <3>2 DEF Bridged, Parent, CostAt
        <5> QED BY <1>4, <3>5, <3>7 DEF Bridge, Parent
      <4> QED BY <4>1, <4>2
    <3> QED BY <3>3, <3>4, <3>8 DEF IInv
  <2>3. CASE ~(K[h] > K[c])
    <3>1. Stop
      BY <1>2, <1>3, <1>6, <2>1, <2>3 DEF SiftDown
    <3>2. ASSUME NEW i \in 1..n-1 PROVE Ordered(i)
      <4>1. PICK q \in 0..n-1 : q = Parent(i)
        BY <1>4
      <4>2. q # h => K[q] <= K[i]
        BY <1>5, <4>1 DEF InOrder
      <4>3. q = h => K[c] <= K[i]
        BY <2>1, <4>1
      <4>4. K[q] <= K[i]
        BY <2>3, <4>2, <4>3
      <4> QED BY <1>3, <4>1, <4>4 DEF Ordered
    <3>3. TypeOK' /\ PlacesMatch' /\ HoleInHeap'
      BY <1>1, <3>1 DEF IInv, TypeOK, PlacesMatch, HoleInHeap, Stop
    <3>4. OrderedButHole'
      BY <1>1, <1>2, <3>1, <3>2 DEF OrderedButHole, Stop, Ordered, CostAt
    <3> QED BY <3>3, <3>4 DEF IInv
  <2> QED BY <2>2, <2>3
<1>7. CASE ~(2 * h + 1 < n)
  <2>1. Stop
    BY <1>2, <1>7 DEF SiftDown
  <2>2. \A i \in 1..n-1 : Parent(i) # h
    BY <1>7 DEF Parent
  <2>3. \A i \in 1..n-1 : Ordered(i)
    BY <1>3, <1>4, <1>5, <2>2 DEF Ordered, InOrder
  <2>4. TypeOK' /\ PlacesMatch' /\ HoleInHeap'
    BY <1>1, <2>1 DEF IInv, TypeOK, PlacesMatch, HoleInHeap, Stop
  <2>5. OrderedButHole'
    BY <1>1, <1>2, <2>1, <2>3 DEF OrderedButHole, Stop, Ordered, CostAt
  <2> QED BY <2>4, <2>5 DEF IInv
<1> QED BY <1>6, <1>7

LEMMA ClearIInv == ASSUME IInv, Clear PROVE IInv'
  BY DEF IInv, TypeOK, PlacesMatch, HoleInHeap, OrderedButHole, Clear

-----------------------------------------------------------------------------
LEMMA NextIInv == IInv /\ [Next]_vars => IInv'
<1> SUFFICES ASSUME IInv, [Next]_vars PROVE IInv'
  OBVIOUS
<1>1. CASE \E t \in Tiles, c \in Costs : UpdateTile(t, c)
  BY <1>1, LowerCostIInv, PushIInv DEF UpdateTile
<1>2. CASE RemoveBestTile
  BY <1>2, RemoveBestTileIInv
<1>3. CASE SiftUp
  BY <1>3, SiftUpIInv
<1>4. CASE SiftDown
  BY <1>4, SiftDownIInv
<1>5. CASE Clear
  BY <1>5, ClearIInv
<1>6. CASE UNCHANGED vars
  BY <1>6 DEF vars, IInv, TypeOK, PlacesMatch, HoleInHeap, OrderedButHole, Ordered, Bridged,
              CostAt, Parent
<1> QED BY <1>1, <1>2, <1>3, <1>4, <1>5, <1>6 DEF Next

LEMMA Invariance == Spec => []IInv
  BY InitIInv, NextIInv, PTL DEF Spec

(***************************************************************************)
(* Every entry of the queue has a value of its type: in particular no tile *)
(* that came out of the queue is sifted (its place is not a number).       *)
(***************************************************************************)
THEOREM TypeCorrect == Spec => []TypeOK
  BY Invariance, PTL DEF IInv

(***************************************************************************)
(* heap and heapLoc are each other's inverse at every step of the loops    *)
(* (Utils.cpp:358-483), so that updateTile starts sifting at the tile      *)
(* whose cost it lowers.                                                   *)
(***************************************************************************)
THEOREM PlacesAlwaysMatch == Spec => []PlacesMatch
  BY Invariance, PTL DEF IInv

(***************************************************************************)
(* Between calls the array is a heap: a tile costs at least as much as its *)
(* parent.                                                                 *)
(***************************************************************************)
THEOREM HeapAlwaysOrdered == Spec => []HeapOrdered
<1>1. IInv => HeapOrdered
  BY DEF IInv, OrderedButHole, Ordered, HeapOrdered
<1> QED BY <1>1, Invariance, PTL

-----------------------------------------------------------------------------
(***************************************************************************)
(* The heap is a priority queue.  What is queued is what stands in the     *)
(* heap, and what came out is whatever else has data.                      *)
(***************************************************************************)
InHeap == {heap[i] : i \in 0..size-1}
queuedNow == [t \in InHeap |-> cost[t]]
removedNow == {t \in dataValid : heapLoc[t] = NoLoc}

LEMMA RestOf ==
  ASSUME NEW n \in Nat, NEW h \in [0..n-1 -> Tiles], NEW loc \in [Tiles -> Nat \cup {NoLoc}],
         NEW valid \in SUBSET Tiles,
         \A i \in 0..n-1 : h[i] \in valid /\ loc[h[i]] = i,
         \A t \in valid : loc[t] # NoLoc => loc[t] < n /\ h[loc[t]] = t
  PROVE  \A t \in valid : loc[t] = NoLoc <=> \A i \in 0..n-1 : t # h[i]
<1>1. \A i \in 0..n-1 : loc[h[i]] # NoLoc BY DEF NoLoc
<1>2. ASSUME NEW t \in valid, loc[t] # NoLoc PROVE \E i \in 0..n-1 : t = h[i]
  <2>1. loc[t] \in Nat /\ loc[t] < n /\ h[loc[t]] = t BY <1>2
  <2>2. loc[t] \in 0..n-1 BY <2>1
  <2>. QED BY <2>1, <2>2
<1>. QED BY <1>1, <1>2

LEMMA RemovedIsTheRest ==
  ASSUME IInv PROVE removedNow = dataValid \ InHeap /\ InHeap \subseteq dataValid
<1>1. /\ size \in Nat /\ heap \in [0..size-1 -> Tiles]
      /\ heapLoc \in [Tiles -> Nat \cup {NoLoc}] /\ dataValid \in SUBSET Tiles
  BY DEF IInv, TypeOK
<1>2. /\ \A i \in 0..size-1 : heap[i] \in dataValid /\ heapLoc[heap[i]] = i
      /\ \A t \in dataValid :
           heapLoc[t] # NoLoc => heapLoc[t] < size /\ heap[heapLoc[t]] = t
  BY DEF IInv, PlacesMatch
<1>3. \A t \in dataValid : heapLoc[t] = NoLoc <=> \A i \in 0..size-1 : t # heap[i]
  BY <1>1, <1>2, RestOf
<1>. QED BY <1>2, <1>3 DEF removedNow, InHeap

LEMMA RemovedIsTheRestAfter == ASSUME IInv' PROVE removedNow' = dataValid' \ InHeap'
<1>1. /\ size' \in Nat /\ heap' \in [0..size'-1 -> Tiles]
      /\ heapLoc' \in [Tiles -> Nat \cup {NoLoc}] /\ dataValid' \in SUBSET Tiles
  BY DEF IInv, TypeOK
<1>2. /\ \A i \in 0..size'-1 : heap'[i] \in dataValid' /\ heapLoc'[heap'[i]] = i
      /\ \A t \in dataValid' :
           heapLoc'[t] # NoLoc => heapLoc'[t] < size' /\ heap'[heapLoc'[t]] = t
  BY DEF IInv, PlacesMatch
<1>3. \A t \in dataValid' : heapLoc'[t] = NoLoc <=> \A i \in 0..size'-1 : t # heap'[i]
  <2>1. PICK n, h, loc, valid : n = size' /\ h = heap' /\ loc = heapLoc' /\ valid = dataValid'
    OBVIOUS
  <2>2. \A t \in valid : loc[t] = NoLoc <=> \A i \in 0..n-1 : t # h[i]
    <3>1. /\ n \in Nat /\ h \in [0..n-1 -> Tiles] /\ loc \in [Tiles -> Nat \cup {NoLoc}]
          /\ valid \in SUBSET Tiles
      BY <1>1, <2>1
    <3>2. /\ \A i \in 0..n-1 : h[i] \in valid /\ loc[h[i]] = i
          /\ \A t \in valid : loc[t] # NoLoc => loc[t] < n /\ h[loc[t]] = t
      BY <1>2, <2>1
    <3>. QED BY <3>1, <3>2, RestOf
  <2>. QED BY <2>1, <2>2
<1>. QED BY <1>2, <1>3 DEF removedNow, InHeap

(* Nothing costs less than the tile at place 0: a first place that did would
   have a parent that does. *)
LEMMA RootIsLeast ==
  ASSUME IInv, sifting = "no", NEW k \in 0..size-1
  PROVE  CostAt(0) <= CostAt(k)
<1>. SUFFICES ASSUME ~(CostAt(0) <= CostAt(k)) PROVE FALSE OBVIOUS
<1> DEFINE Less == {i \in 0..size-1 : ~(CostAt(0) <= CostAt(i))}
           R == StrictSubsetOrdering(Nat)
           F == {0..i : i \in Less}
<1>1. size \in Nat /\ \A i \in 0..size-1 : CostAt(i) \in Nat BY DEF IInv, TypeOK, CostAt
<1>2. IsWellFoundedOn(R, FiniteSubsetsOf(Nat)) BY FS_StrictSubsetOrderingWellFounded
<1>3. F \subseteq FiniteSubsetsOf(Nat)
  <2>. SUFFICES ASSUME NEW i \in Less PROVE 0..i \in FiniteSubsetsOf(Nat) OBVIOUS
  <2>1. i \in Int BY <1>1
  <2>2. IsFiniteSet(0..i) BY <2>1, FS_Interval
  <2>. QED BY <2>1, <2>2 DEF FiniteSubsetsOf
<1>4. F # {} OBVIOUS
<1>. HIDE DEF R, F
<1>5. PICK x \in F : \A y \in F : <<y, x>> \notin R BY <1>2, <1>3, <1>4, WFMin
<1>. USE DEF R, F
<1>6. PICK i \in Less : x = 0..i BY <1>5
<1>7. i \in Nat /\ i > 0 /\ i \in 1..size-1 BY <1>1
<1>8. Parent(i) \in Nat /\ Parent(i) < i BY <1>7, ParentFacts
<1>9. CostAt(Parent(i)) <= CostAt(i) BY <1>7 DEF IInv, OrderedButHole, Ordered
<1>10. Parent(i) \in Less
  <2>1. Parent(i) \in 0..size-1 BY <1>1, <1>7, <1>8
  <2>2. CostAt(Parent(i)) \in Nat /\ CostAt(i) \in Nat /\ CostAt(0) \in Nat BY <1>1, <1>7, <2>1
  <2>. QED BY <1>9, <2>1, <2>2
<1>11. 0..Parent(i) \in F BY <1>10
<1>12. 0..Parent(i) \subseteq 0..i /\ 0..Parent(i) # 0..i BY <1>7, <1>8
<1>13. 0..Parent(i) \in SUBSET Nat /\ 0..i \in SUBSET Nat BY <1>7, <1>8
<1>14. <<0..Parent(i), 0..i>> \in R BY <1>12, <1>13 DEF StrictSubsetOrdering
<1>. QED BY <1>5, <1>6, <1>11, <1>14

LEMMA OffersAreOffers ==
  ASSUME IInv, IInv', NEW t \in Tiles, NEW c \in Costs, UpdateTile(t, c)
  PROVE  Queue!Offer(t, c)
<1>1. removedNow = dataValid \ InHeap /\ InHeap \subseteq dataValid
  BY RemovedIsTheRest
<1>2. removedNow' = dataValid' \ InHeap' BY RemovedIsTheRestAfter
<1>3. size \in Nat /\ cost \in [Tiles -> Nat] /\ InHeap \subseteq Tiles
  BY <1>1 DEF IInv, TypeOK
<1>4. CASE LowerCost(t, c)
  <2>1. t \notin removedNow /\ t \in InHeap /\ c < cost[t]
    BY <1>1, <1>4 DEF UpdateTile, MayUpdate, LowerCost, IsVisited, removedNow
  <2>2. InHeap' = InHeap /\ removedNow' = removedNow BY <1>4 DEF LowerCost, InHeap, removedNow
  <2>3. queuedNow' = [u \in InHeap \cup {t} |-> IF u = t THEN c ELSE queuedNow[u]]
    BY <1>3, <1>4, <2>1, <2>2 DEF queuedNow, LowerCost
  <2>. QED BY <2>1, <2>2, <2>3 DEF Queue!Offer, Queue!IsQueued, queuedNow, removedNow, InHeap
<1>5. CASE Push(t, c)
  <2>1. t \notin removedNow /\ t \notin InHeap
    BY <1>1, <1>5 DEF Push, IsVisited, removedNow
  <2>2. InHeap' = InHeap \cup {t}
    <3>1. size' = size + 1 /\ heap' = [i \in 0..size |-> IF i = size THEN t ELSE heap[i]]
      BY <1>5 DEF Push
    <3>2. size \in 0..size /\ 0..size'-1 = 0..size /\ \A i \in 0..size-1 : i \in 0..size /\ i # size
      BY <1>3, <3>1
    <3>3. \A i \in 0..size : i = size \/ i \in 0..size-1 BY <1>3
    <3>. QED BY <3>1, <3>2, <3>3 DEF InHeap
  <2>3. removedNow' = removedNow BY <1>1, <1>2, <1>5, <2>1, <2>2 DEF Push, IsVisited
  <2>4. queuedNow' = [u \in InHeap \cup {t} |-> IF u = t THEN c ELSE queuedNow[u]]
    BY <1>3, <1>5, <2>1, <2>2 DEF queuedNow, Push
  <2>. QED BY <2>1, <2>3, <2>4 DEF Queue!Offer, Queue!IsQueued, queuedNow, removedNow, InHeap
<1>. QED BY <1>4, <1>5 DEF UpdateTile

LEMMA RemovesLeast == ASSUME IInv, IInv', RemoveBestTile PROVE Queue!Remove
<1>1. removedNow = dataValid \ InHeap /\ InHeap \subseteq dataValid
  BY RemovedIsTheRest
<1>2. removedNow' = dataValid' \ InHeap' BY RemovedIsTheRestAfter
<1>3. /\ size \in Nat /\ size > 0 /\ size' = size - 1 /\ sifting = "no"
      /\ heap' = [i \in 0..size-2 |-> IF i = 0 THEN heap[size-1] ELSE heap[i]]
      /\ UNCHANGED <<cost, dataValid>>
  BY DEF RemoveBestTile, IInv, TypeOK
<1> DEFINE best == heap[0]
<1>4. best \in InHeap BY <1>3 DEF InHeap
<1>5. \A u \in InHeap : cost[best] <= cost[u]
  BY <1>3, RootIsLeast DEF InHeap, CostAt
<1>6. InHeap' = InHeap \ {best}
  <2>1. \A i, j \in 0..size-1 : heap[i] = heap[j] => i = j BY DEF IInv, PlacesMatch
  <2>2. ASSUME NEW i \in 0..size-2
        PROVE  heap'[i] \in InHeap /\ heap'[i] # best
    <3>1. CASE i = 0 BY <1>3, <2>1, <2>2, <3>1 DEF InHeap
    <3>2. CASE i # 0 BY <1>3, <2>1, <2>2, <3>2 DEF InHeap
    <3>. QED BY <3>1, <3>2
  <2>3. ASSUME NEW k \in 1..size-1 PROVE \E i \in 0..size-2 : heap'[i] = heap[k]
    <3>1. CASE k = size - 1
      <4>1. 0 \in 0..size-2 /\ heap'[0] = heap[k] BY <1>3, <2>3, <3>1
      <4>. QED BY <4>1
    <3>2. CASE k # size - 1
      <4>1. k \in 0..size-2 /\ heap'[k] = heap[k] BY <1>3, <2>3, <3>2
      <4>. QED BY <4>1
    <3>. QED BY <3>1, <3>2
  <2>4. 0..size'-1 = 0..size-2 BY <1>3
  <2>5. InHeap' = {heap'[i] : i \in 0..size-2} BY <2>4 DEF InHeap
  <2>6. \A u \in InHeap : u = best \/ \E k \in 1..size-1 : u = heap[k] BY <1>3 DEF InHeap
  <2>. QED BY <2>2, <2>3, <2>5, <2>6
<1>7. removedNow' = removedNow \cup {best} BY <1>1, <1>2, <1>3, <1>4, <1>6
<1>8. queuedNow' = [u \in InHeap \ {best} |-> queuedNow[u]]
  BY <1>3, <1>6 DEF queuedNow
<1>. QED BY <1>4, <1>5, <1>7, <1>8 DEF Queue!Remove, queuedNow, removedNow, InHeap

(* A pass of a sifting loop is invisible: tiles only change places. *)
LEMMA SiftingIsInvisible ==
  ASSUME IInv, IInv', SiftUp \/ SiftDown
  PROVE  UNCHANGED <<queuedNow, removedNow>>
<1>1. removedNow = dataValid \ InHeap /\ removedNow' = dataValid' \ InHeap'
  BY RemovedIsTheRest, RemovedIsTheRestAfter
<1>2. UNCHANGED <<size, cost, dataValid>> /\ size \in Nat BY DEF SiftUp, SiftDown, IInv, TypeOK
<1>3. InHeap' = InHeap
  <2>1. CASE Stop BY <1>2, <2>1 DEF Stop, InHeap
  <2>2. ASSUME NEW i \in 0..size-1, NEW j \in 0..size-1, Swap(i, j) PROVE InHeap' = InHeap
    <3>1. heap' = [heap EXCEPT ![i] = heap[j], ![j] = heap[i]] BY <2>2 DEF Swap
    <3>2. heap \in [0..size-1 -> Tiles] BY DEF IInv, TypeOK
    <3>3. /\ \A k \in 0..size-1 : heap'[k] = IF k = j THEN heap[i]
                                            ELSE IF k = i THEN heap[j] ELSE heap[k]
      BY <3>1, <3>2
    <3>4. heap'[i] = heap[j] /\ heap'[j] = heap[i] BY <3>3
    <3>. QED BY <1>2, <3>3, <3>4 DEF InHeap
  <2>3. ASSUME SiftUp, ~Stop PROVE InHeap' = InHeap
    <3>1. Swap(idx, Parent(idx)) /\ idx > 0 BY <2>3 DEF SiftUp
    <3>2. idx \in 0..size-1 BY <1>2, <2>3 DEF SiftUp, IInv, TypeOK, HoleInHeap
    <3>3. Parent(idx) \in 0..size-1 BY <1>2, <3>1, <3>2, ParentFacts
    <3>. QED BY <2>2, <3>1, <3>2, <3>3
  <2>4. ASSUME SiftDown, ~Stop PROVE InHeap' = InHeap
    <3>1. Swap(idx, CheaperChild(idx)) /\ 2 * idx + 1 < size BY <2>4 DEF SiftDown
    <3>2. idx \in 0..size-1 BY <1>2, <3>1 DEF IInv, TypeOK
    <3>3. CheaperChild(idx) \in 0..size-1 BY <1>2, <3>1, <3>2 DEF CheaperChild
    <3>. QED BY <2>2, <3>1, <3>2, <3>3
  <2>. QED BY <2>1, <2>3, <2>4
<1>. QED BY <1>1, <1>2, <1>3 DEF queuedNow

(***************************************************************************)
(* The heap with its places implements the queue the maze router relies    *)
(* on: what comes out is a tile of least cost, and no tile is lost,        *)
(* doubled or revived, for any number of tiles and any costs.              *)
(***************************************************************************)
THEOREM ImplementsPriorityQueue == Spec => IsPriorityQueue
<1>1. Init => Queue!Init
  BY DEF Init, Queue!Init
<1>2. IInv /\ IInv' /\ [Next]_vars => [Queue!Next]_<<queuedNow, removedNow>>
  <2>. SUFFICES ASSUME IInv, IInv', [Next]_vars
                PROVE  Queue!Next \/ UNCHANGED <<queuedNow, removedNow>>
    OBVIOUS
  <2>1. CASE \E t \in Tiles, c \in Costs : UpdateTile(t, c)
    BY <2>1, OffersAreOffers DEF Queue!Next
  <2>2. CASE RemoveBestTile BY <2>2, RemovesLeast DEF Queue!Next
  <2>3. CASE SiftUp \/ SiftDown BY <2>3, SiftingIsInvisible
  <2>4. CASE Clear
    <3>1. Queue!Clear BY <2>4 DEF Clear, Queue!Clear
    <3>. QED BY <3>1 DEF Queue!Next
  <2>5. CASE UNCHANGED vars BY <2>5 DEF vars, queuedNow, removedNow, InHeap
  <2>. QED BY <2>1, <2>2, <2>3, <2>4, <2>5 DEF Next
<1>3. IInv /\ IInv' /\ [Next]_vars =>
        [Queue!Next]_<<[t \in {heap[i] : i \in 0..size-1} |-> cost[t]],
                       {t \in dataValid : heapLoc[t] = NoLoc}>>
  BY <1>2 DEF queuedNow, removedNow, InHeap
<1>. QED BY <1>1, <1>3, Invariance, PTL DEF Spec, IsPriorityQueue, Queue!Spec
==============================================================================
