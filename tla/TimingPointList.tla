---------------------------- MODULE TimingPointList ----------------------------
(***************************************************************************)
(* The order in which timing analysis visits the timing points: a ring of  *)
(* points through a root that is no point itself (ID 0, which is also      *)
(* Null).  From the root forwards come the start points, then the internal *)
(* points, then the end points; the first and the last internal point and  *)
(* the numbers of start and end points are remembered beside the ring, and *)
(* buffering inserts, moves and deletes points in place                    *)
(* (TimingPointUtils.cpp:57-118, HTimingPoint.cpp:184-205).                *)
(***************************************************************************)
EXTENDS Integers, SequencesExt

CONSTANTS Root, StartPoints, EndPoints, InternalPoints

ASSUME PointsAssumption ==
  /\ Root \notin StartPoints \cup EndPoints \cup InternalPoints
  /\ StartPoints \cap EndPoints = {}
  /\ InternalPoints \cap (StartPoints \cup EndPoints) = {}
  /\ IsFiniteSet(StartPoints) /\ IsFiniteSet(EndPoints) /\ IsFiniteSet(InternalPoints)

Points == StartPoints \cup EndPoints \cup InternalPoints
Places == Points \cup {Root}

(* The ring and what is kept beside it. *)
Lists == [next: [Places -> Places], prev: [Places -> Places],
          first: Places, last: Places,
          starts: 0..Cardinality(StartPoints), ends: 0..Cardinality(EndPoints)]

-----------------------------------------------------------------------------
(* The place n steps of link from the root. *)
Walk(link, n) ==
  LET walk[k \in Nat] == IF k = 0 THEN Root ELSE link[walk[k - 1]] IN walk[n]

(* How many points of S follow the root along link before another place. *)
RunLength(link, S) ==
  CHOOSE n \in 0..Cardinality(S) : /\ Walk(link, n + 1) \notin S
                                   /\ \A i \in 1..n : Walk(link, i) \in S

(* CountStartAndEndPoints *)
Counted(l) ==
  LET starts == RunLength(l.next, StartPoints)
      ends == RunLength(l.prev, EndPoints)
  IN [l EXCEPT !.starts = starts, !.first = Walk(l.next, starts + 1),
               !.ends = ends, !.last = Walk(l.prev, ends + 1)]

(* The test for "not in the list" in InsertNextPoint. *)
IsLinked(l, p) == l.next[p] # Root \/ l.prev[p] # Root

(* A slip: the links of the point itself are left as they are. *)
DeletedKeepsLinks(l, p) ==
  [l EXCEPT !.prev = [@ EXCEPT ![l.next[p]] = l.prev[p]],
            !.next = [@ EXCEPT ![l.prev[p]] = l.next[p]],
            !.first = IF @ = p THEN l.next[p] ELSE @,
            !.last = IF @ = p THEN l.prev[p] ELSE @]

(* DeletePointInList *)
Deleted(l, p) ==
  LET before == l.prev[p]
      after == l.next[p]
      unlinked == [l EXCEPT !.prev = [@ EXCEPT ![after] = before, ![p] = Root],
                            !.next = [@ EXCEPT ![before] = after, ![p] = Root]]
      counted == IF p \in InternalPoints THEN unlinked ELSE Counted(unlinked)
  IN [counted EXCEPT !.first = IF @ = p THEN after ELSE @,
                     !.last = IF @ = p THEN before ELSE @]

(* p is linked in behind the place before, as the new first or last point. *)
LinkedIn(l, p, before, isFirst, isLast) ==
  LET after == l.next[before]
  IN [l EXCEPT !.prev = [@ EXCEPT ![p] = before, ![after] = p],
               !.next = [@ EXCEPT ![p] = after, ![before] = p],
               !.first = IF isFirst THEN p ELSE @,
               !.last = IF isLast THEN p ELSE @]

(* A slip: the last internal point is not looked for, only end points are. *)
InsertedForgetsLast(l, p, q) ==
  LET base == IF IsLinked(l, p) THEN Deleted(l, p) ELSE l
      isFirst == q \in StartPoints
      isLast == q \in EndPoints
      before == IF isFirst THEN base.prev[base.first]
                ELSE IF isLast THEN base.last ELSE q
  IN LinkedIn(base, p, before, isFirst, isLast)

(* A slip: the place is looked up before p is taken out of its old one. *)
InsertedAtOldPlace(l, p, q) ==
  LET base == IF IsLinked(l, p) THEN Deleted(l, p) ELSE l
      isFirst == q \in StartPoints
      isLast == ~isFirst /\ (q \in EndPoints \/ q = l.last)
      before == IF isFirst THEN l.prev[l.first] ELSE IF isLast THEN l.last ELSE q
  IN LinkedIn(base, p, before, isFirst, isLast)

(* InsertNextPoint: p goes after point q, or after the start points if q is
   one of them, or before the end points if q is one of those. *)
Inserted(l, p, q) ==
  LET base == IF IsLinked(l, p) THEN Deleted(l, p) ELSE l
      isFirst == q \in StartPoints
      isLast == ~isFirst /\ (q \in EndPoints \/ q = base.last)
      before == IF isFirst THEN base.prev[base.first]
                ELSE IF isLast THEN base.last ELSE q
  IN LinkedIn(base, p, before, isFirst, isLast)

(* The list FindTopologicalOrder leaves for the points in this order:
   SetReverseOrder has filled prev from next, and the points are counted. *)
ListOf(order) ==
  LET n == Len(order)
      at(i) == IF i \in 1..n THEN order[i] ELSE Root
      beside(p, places, d) == IF \E i \in places : at(i) = p
                              THEN at((CHOOSE i \in places : at(i) = p) + d) ELSE Root
  IN Counted([next |-> [p \in Places |-> beside(p, 0..n, 1)],
              prev |-> [p \in Places |-> beside(p, 1..n+1, -1)],
              first |-> Root, last |-> Root, starts |-> 0, ends |-> 0])

-----------------------------------------------------------------------------
CONSTANTS InitialOrder, Fixed

(* FindTopologicalOrder places no point twice, the start points first and the
   end points last.  Of the cells that buffering leaves alone at least one has
   an internal point in the list, and it is not the only point of theirs. *)
ASSUME OrderAssumption ==
  /\ InitialOrder \in Seq(Points) /\ IsInjective(InitialOrder)
  /\ \A i, j \in DOMAIN InitialOrder : i < j =>
       /\ InitialOrder[j] \in StartPoints => InitialOrder[i] \in StartPoints
       /\ InitialOrder[i] \in EndPoints => InitialOrder[j] \in EndPoints
  /\ Fixed \subseteq ToSet(InitialOrder)
  /\ \E p \in Fixed \cap InternalPoints : Fixed # {p}

VARIABLE list

TypeOK == list \in Lists

Init == list = ListOf(InitialOrder)

InList(p) == \E n \in 1..Cardinality(Points) : Walk(list.next, n) = p

(* The callers place input and output pins of buffers, always after another
   point of the list (VanGinneken2.cpp:430-435 and :477,
   AdditionNewElement.cpp:83-86); Fixed holds the pins of all other cells. *)
InsertNextPoint(p, q) ==
  /\ p \in InternalPoints \ Fixed \* start and end points are refused
  /\ p # q /\ InList(q)
  /\ list' = Inserted(list, p, q)

DeletePointInList(p) ==
  /\ p \notin Fixed /\ InList(p)
  /\ list' = Deleted(list, p)

Next == \/ \E p \in InternalPoints, q \in Points : InsertNextPoint(p, q)
        \/ \E p \in Points : DeletePointInList(p)

Spec == Init /\ [][Next]_list

-----------------------------------------------------------------------------
(* The points in list order, without the root. *)
Order ==
  LET n == CHOOSE k \in 0..Cardinality(Points) :
             /\ Walk(list.next, k + 1) = Root
             /\ \A i \in 1..k : Walk(list.next, i) # Root
  IN [i \in 1..n |-> Walk(list.next, i)]

(***************************************************************************)
(* Parts 1 and 2 of VerifyTimingCalculationOrder (TimingUtils.cpp:326-398):*)
(* the ring closes, and backwards it is the reverse of forwards.  A point  *)
(* is either in the ring or has no links at all, which InsertNextPoint     *)
(* relies on to know where the point is.                                   *)
(***************************************************************************)
RingCloses ==
  LET order == Order IN
  /\ \A i \in 1..Len(order) + 1 :
       Walk(list.prev, i) = IF i > Len(order) THEN Root ELSE order[Len(order) + 1 - i]
  /\ \A p \in Points : p \in {order[i] : i \in 1..Len(order)} <=> IsLinked(list, p)

(***************************************************************************)
(* Part 3 of VerifyTimingCalculationOrder (TimingUtils.cpp:400-463): the   *)
(* start points come first and the end points last, their numbers are      *)
(* right, and first and last are the internal points beside them.  TNS and *)
(* WNS walk back from the root until they meet last                        *)
(* (TimingPointUtils.cpp:6-34): with a wrong one they take internal points *)
(* for end points, or run around the ring.                                 *)
(***************************************************************************)
BoundariesRight ==
  /\ list.starts = RunLength(list.next, StartPoints)
  /\ list.first = Walk(list.next, list.starts + 1)
  /\ list.ends = RunLength(list.prev, EndPoints)
  /\ list.last = Walk(list.prev, list.ends + 1)
  /\ \A i \in list.starts + 1 .. Len(Order) - list.ends : Order[i] \in InternalPoints

(***************************************************************************)
(* The pointers do what the callers ask of an order: a point goes where it *)
(* was asked to, and no other point changes its place among the rest.      *)
(***************************************************************************)
Sequence == INSTANCE PointOrder WITH order <- Order
KeepsTheOrder == Sequence!Spec
================================================================================
