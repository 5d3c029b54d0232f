------------------------------ MODULE PointOrder ------------------------------
(***************************************************************************)
(* What the list of timing points promises: a sequence of points, start    *)
(* points first and end points last.  An internal point that is placed     *)
(* after a start point becomes the first internal point, after an end      *)
(* point the last one, and after an internal point its successor.          *)
(***************************************************************************)
EXTENDS SequencesExt

CONSTANTS StartPoints, EndPoints, InternalPoints, InitialOrder, Fixed

VARIABLE order

Points == StartPoints \cup EndPoints \cup InternalPoints

Init == order = InitialOrder

(* The index in s behind which a point goes that is placed after q. *)
Behind(s, q) ==
  IF q \in StartPoints THEN Cardinality({i \in DOMAIN s : s[i] \in StartPoints})
  ELSE IF q \in EndPoints THEN Cardinality({i \in DOMAIN s : s[i] \notin EndPoints})
  ELSE SelectInSeq(s, LAMBDA p : p = q)

Place(p, q) ==
  /\ p \in InternalPoints \ Fixed /\ p # q /\ Contains(order, q)
  /\ LET rest == RemoveFirst(order, p)
     IN order' = InsertAt(rest, Behind(rest, q) + 1, p)

TakeOut(p) ==
  /\ p \notin Fixed /\ Contains(order, p)
  /\ order' = RemoveFirst(order, p)

Next == \/ \E p \in InternalPoints, q \in Points : Place(p, q)
        \/ \E p \in Points : TakeOut(p)

Spec == Init /\ [][Next]_order
===============================================================================
