--------------------------- MODULE MCTimingPointList ---------------------------
(* A start point, a gate output and an end point that stay, a second start and
   a second end point that can be taken out (which recounts), and the pins of
   three more cells; so both boundaries move past every kind of neighbour. *)
EXTENDS TimingPointList

CONSTANTS s1, s2, g, a, b, c, e1, e2
Starts == {s1, s2}
Ends == {e1, e2}
Internals == {g, a, b, c}
PlacedOrder == <<s1, s2, g, a, e1, e2>>
Gates == {s1, g, e1}
================================================================================
