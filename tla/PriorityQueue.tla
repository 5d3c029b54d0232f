---------------------------- MODULE PriorityQueue ----------------------------
(***************************************************************************)
(* What the queue of the maze router promises its caller, routeMaze: a     *)
(* tile is queued at the least cost it was offered, a tile of least cost   *)
(* comes out, and a tile that came out is known to be done with until the  *)
(* queue is cleared.                                                       *)
(***************************************************************************)
EXTENDS Naturals

CONSTANTS Tiles, Costs

VARIABLES queued,   \* the tiles in the queue, each with its cost
          removed   \* the tiles that have come out of the queue

Init == queued = [t \in {} |-> 0] /\ removed = {}

IsQueued(t) == t \in DOMAIN queued

(* Tile t is offered at cost c. *)
Offer(t, c) ==
  /\ t \notin removed
  /\ IsQueued(t) => c < queued[t]
  /\ queued' = [u \in DOMAIN queued \cup {t} |-> IF u = t THEN c ELSE queued[u]]
  /\ UNCHANGED removed

Remove ==
  /\ \E t \in DOMAIN queued :
       /\ \A u \in DOMAIN queued : queued[t] <= queued[u]
       /\ queued' = [u \in DOMAIN queued \ {t} |-> queued[u]]
       /\ removed' = removed \cup {t}

Clear == queued' = [t \in {} |-> 0] /\ removed' = {}

Next == \/ \E t \in Tiles, c \in Costs : Offer(t, c)
        \/ Remove
        \/ Clear

Spec == Init /\ [][Next]_<<queued, removed>>
==============================================================================
