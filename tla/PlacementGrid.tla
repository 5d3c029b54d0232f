---------------------------- MODULE PlacementGrid ----------------------------
(***************************************************************************)
(* The grid of sites that legalization and detailed placement work on      *)
(* (HDPGrid), and the three checks of LegalityChecks.cpp.  The grid keeps, *)
(* beside the coordinates of the design, the row and the column it last    *)
(* put each cell at and, for every site, the cell that holds it.           *)
(*                                                                         *)
(* Lengths are in half sites: column k begins at 2 * k, and rows are as    *)
(* high as a site is wide.  Widths in sites are those RecalcSitesNum finds.*)
(***************************************************************************)
EXTENDS Integers, Sequences

CONSTANTS
    NumRows,        \* HDPGrid::NumRows
    NumCols,        \* HDPGrid::NumCols
    Cells,          \* every cell the grid has a record of
    CellOrder,      \* the placeable cells, in the order the design keeps them
    CellSitesNum,   \* [Cells -> Nat \ {0}], the width of a cell in sites
    Null            \* holds an empty site

Rows      == 0 .. NumRows - 1
Columns   == 0 .. NumCols - 1
Placeable == {CellOrder[i] : i \in DOMAIN CellOrder}

ASSUME GridAssumption ==
    /\ NumRows \in Nat \ {0}
    /\ NumCols \in Nat \ {0}
    /\ CellOrder \in Seq(Cells)
    /\ \A m, n \in DOMAIN CellOrder : CellOrder[m] = CellOrder[n] => m = n
    /\ CellSitesNum \in [Cells -> 1 .. NumCols]
    /\ Null \notin Cells

VARIABLES
    cellRow,        \* [Cells -> Rows]
    cellSiteIdx,    \* [Cells -> Columns]
    sites,          \* [Rows -> [Columns -> Cells \cup {Null}]]
    pos             \* [Cells -> [x : Int, y : Int]], the design's coordinates

gridVars == <<cellRow, cellSiteIdx, sites>>

ColumnX(k) == 2 * k
RowY(r)    == 2 * r
Site(r, k) == [x |-> ColumnX(k), y |-> RowY(r)]

(***************************************************************************)
(* The column, and the row, nearest to the coordinate a / b: of two as     *)
(* near the lower one, and never one outside the grid.                     *)
(***************************************************************************)
Within(i, n)     == IF i < 0 THEN 0 ELSE IF i > n - 1 THEN n - 1 ELSE i
Nearest(a, b)    == (a + b - 1) \div (2 * b)
FindColumn(a, b) == Within(Nearest(a, b), NumCols)
FindRow(a, b)    == Within(Nearest(a, b), NumRows)

(***************************************************************************)
(* A group is a sequence of [cell, row, column], the places its cells are  *)
(* to be put at, in that order; a cell it names twice stays at the later.  *)
(***************************************************************************)
Covers(column, c, k) == column <= k /\ k < column + CellSitesNum[c]

InGroup(group)  == {group[i].cell : i \in DOMAIN group}
LastOf(S)       == CHOOSE i \in S : \A j \in S : j <= i
PlaceOf(group, c) == group[LastOf({i \in DOMAIN group : group[i].cell = c})]

\* The sums of the first widths of a sequence: of none, of one, of two ...
SumUpTo(widths) ==
    LET Sum[n \in 0 .. Len(widths)] == IF n = 0 THEN 0 ELSE Sum[n - 1] + widths[n]
    IN  Sum

\* The width of the first cells of a sequence
WidthUpTo(cells) == SumUpTo([n \in DOMAIN cells |-> CellSitesNum[cells[n]]])

(***************************************************************************)
(* PutCell for every cell of a group, one after the other.  Each gives up  *)
(* the sites of its old place that still name it and takes those of the    *)
(* new one, whoever holds them; so of two cells put on a site the later    *)
(* one has it, unless it goes on to another place, and no site keeps the   *)
(* old place of a cell of the group.                                       *)
(***************************************************************************)
PutCells(group) ==
    LET PutAt(r, k) == {i \in DOMAIN group : /\ group[i].row = r
                                             /\ Covers(group[i].column, group[i].cell, k)}
        Stays(c, r, k) == PlaceOf(group, c).row = r /\ Covers(PlaceOf(group, c).column, c, k)
        Old(r, k)   == LET c == sites[r][k]
                       IN  /\ c \in InGroup(group)
                           /\ cellRow[c] = r
                           /\ Covers(cellSiteIdx[c], c, k)
    IN  /\ sites' = [r \in Rows |-> [k \in Columns |->
                        IF PutAt(r, k) # {}
                        THEN LET c == group[LastOf(PutAt(r, k))].cell
                             IN  IF Stays(c, r, k) THEN c ELSE Null
                        ELSE IF Old(r, k) THEN Null ELSE sites[r][k]]]
        /\ cellRow' = [c \in Cells |-> IF c \in InGroup(group)
                                       THEN PlaceOf(group, c).row ELSE cellRow[c]]
        /\ cellSiteIdx' = [c \in Cells |-> IF c \in InGroup(group)
                                           THEN PlaceOf(group, c).column ELSE cellSiteIdx[c]]

\* The coordinates once PutCellFast has put the cells of a group
PutFast(p, group) ==
    [c \in Cells |-> IF c \in InGroup(group)
                     THEN Site(PlaceOf(group, c).row, PlaceOf(group, c).column)
                     ELSE p[c]]

\* The coordinates once the cells of a group are back where the grid has them
PutBack(p, group) ==
    [c \in Cells |-> IF c \in InGroup(group) THEN Site(cellRow[c], cellSiteIdx[c]) ELSE p[c]]

-----------------------------------------------------------------------------
(***************************************************************************)
(* LegalityChecks.cpp.  An empty site under a cell does not count against  *)
(* the placement there ("empty is strange, but not critical").             *)
(***************************************************************************)
CheckGridBoundary ==
    \A c \in Placeable :
        /\ pos[c].x >= ColumnX(0)
        /\ pos[c].x + 2 * CellSitesNum[c] <= ColumnX(NumCols)
        /\ pos[c].y >= RowY(0)
        /\ pos[c].y <= RowY(NumRows - 1)

CheckGridConsistency ==
    \A c \in Placeable : pos[c] = Site(cellRow[c], cellSiteIdx[c])

CheckOverlaps ==
    \A c \in Placeable : \A k \in Columns :
        Covers(cellSiteIdx[c], c, k) => sites[cellRow[c]][k] \in {c, Null}

(***************************************************************************)
(* What the checks are meant to find out: every cell is on the grid, its   *)
(* coordinates are those of its first site, and the sites name exactly the *)
(* cells that cover them, so that no two cells overlap.                    *)
(***************************************************************************)
InsideGrid == \A c \in Placeable : cellSiteIdx[c] + CellSitesNum[c] <= NumCols

SitesDescribeCells ==
    \A r \in Rows, k \in Columns : \A c \in Cells :
        sites[r][k] = c <=> /\ c \in Placeable
                            /\ cellRow[c] = r
                            /\ Covers(cellSiteIdx[c], c, k)

Legal == InsideGrid /\ SitesDescribeCells /\ CheckGridConsistency

=============================================================================
