------------------------------- MODULE FGRGrid -------------------------------
(***************************************************************************)
(* The routing grid of FGR, as FGR::buildGrid lays it out (Utils.cpp:      *)
(* 202-356) when layer assignment is off: one layer of tiles, with an edge *)
(* between any two neighbours.  An edge is the pair of tiles it joins.     *)
(***************************************************************************)
EXTENDS Integers, FiniteSets

CONSTANTS XTiles, YTiles

ASSUME SizeAssumption == XTiles \in Nat \ {0} /\ YTiles \in Nat \ {0}

Tiles == (0..XTiles-1) \X (0..YTiles-1)

Edges == {{t, <<t[1] + 1, t[2]>>} : t \in (0..XTiles-2) \X (0..YTiles-1)}
           \cup {{t, <<t[1], t[2] + 1>>} : t \in (0..XTiles-1) \X (0..YTiles-2)}

Abs(x) == IF x < 0 THEN -x ELSE x
Width(p) == Abs(p[1][1] - p[2][1])
Height(p) == Abs(p[1][2] - p[2][2])
Distance(p) == Width(p) + Height(p)

(* The tiles in the box of two tiles lie between them both ways. *)
Box(p) == {t \in Tiles : Distance(<<p[1], t>>) + Distance(<<t, p[2]>>) = Distance(p)}

(* P joins the tiles of A: it crosses the border of every set that separates them. *)
Joins(P, A) ==
  \A S \in SUBSET Tiles : A \cap S # {} /\ A \ S # {} => \E e \in P : e \cap S # {} /\ e \ S # {}

(* The simple paths between two tiles are the minimal sets of edges that join them. *)
PathsBetween(p) == {P \in SUBSET Edges : /\ Joins(P, {p[1], p[2]})
                                         /\ \A e \in P : ~Joins(P \ {e}, {p[1], p[2]})}
==============================================================================
